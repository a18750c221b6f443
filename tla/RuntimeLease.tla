---------------------------- MODULE RuntimeLease ----------------------------
(***************************************************************************)
(* The runtime_leases table of SqliteOrderJournal, for one lease name.     *)
(*                                                                         *)
(* Every method is one BEGIN IMMEDIATE transaction, so every operator      *)
(* below is one atomic step.  A caller passes the time it read from its    *)
(* own clock earlier on ("occurred_at"), which may be long past when the   *)
(* transaction runs: operators take it as a parameter t and never read     *)
(* the variable now.                                                       *)
(***************************************************************************)
EXTENDS Naturals

CONSTANTS
    Owners,      \* owner_run_id values: one per process that asks for the lease
    NoOwner,     \* the owner of a lease row that does not exist
    Ttl,         \* ttl_seconds
    MaxTime      \* bound on the clock, for model checking

VARIABLES
    now,         \* the wall clock
    lease,       \* the row of runtime_leases
    issued       \* how many uuid4 lease tokens were ever generated

leaseVars == <<now, lease, issued>>

ASSUME LeaseAssumption ==
    /\ NoOwner \notin Owners
    /\ Ttl \in Nat \ {0}
    /\ MaxTime \in Nat

\* A lease token is a uuid4: fresh at every generation, so a number never used
\* before.  Token 0 is "no token".
Credentials == [owner : Owners \cup {NoOwner}, token : Nat, generation : Nat]

NoCredentials == [owner |-> NoOwner, token |-> 0, generation |-> 0]

LeaseRow == [owner : Owners \cup {NoOwner}, token : Nat, generation : Nat,
             acquired : Nat, expires : Nat]

\* A row that was never written: generation 0, which no written row has.
NoLease == [owner |-> NoOwner, token |-> 0, generation |-> 0,
            acquired |-> 0, expires |-> 0]

LeaseTypeOK == /\ now \in Nat
               /\ lease \in LeaseRow
               /\ issued \in Nat

LeaseInit == /\ now = 0
             /\ lease = NoLease
             /\ issued = 0

-----------------------------------------------------------------------------
LeaseUnexpiredAt(t) == lease.generation > 0 /\ lease.expires > t

\* Mutation: any unexpired lease passes, whoever holds it.
MutLeaseMatchesAnyHolder(cred, t) == lease.generation > 0 /\ lease.expires > t

\* _lease_matches: the fence every claim, heartbeat and acknowledgement passes.
LeaseMatches(cred, t) ==
    /\ lease.generation > 0
    /\ lease.owner = cred.owner
    /\ lease.token = cred.token
    /\ lease.generation = cred.generation
    /\ lease.expires > t

\* The credentials that an acquire by owner returns when it takes the lease.
NextCredentials(owner) == [owner      |-> owner,
                           token      |-> issued + 1,
                           generation |-> lease.generation + 1]

\* acquire_runtime_lease, no row or an expired one: a new token and the next
\* fencing generation.
TakeLease(owner, t) ==
    /\ ~LeaseUnexpiredAt(t)
    /\ issued' = issued + 1
    /\ lease' = [owner      |-> owner,
                 token      |-> issued + 1,
                 generation |-> lease.generation + 1,
                 acquired   |-> t,
                 expires    |-> t + Ttl]

\* acquire_runtime_lease with the token of the unexpired row: the same token
\* and generation, a later expiry.
RenewLease(cred, t) ==
    /\ LeaseUnexpiredAt(t)
    /\ cred.token # 0
    /\ lease.owner = cred.owner
    /\ lease.token = cred.token
    /\ lease' = [lease EXCEPT !.acquired = t, !.expires = t + Ttl]
    /\ UNCHANGED issued

\* acquire_runtime_lease refused: "runtime_instance_already_active".
LeaseRefused(cred, t) ==
    /\ LeaseUnexpiredAt(t)
    /\ ~(cred.token # 0 /\ lease.owner = cred.owner /\ lease.token = cred.token)
    /\ UNCHANGED <<lease, issued>>

\* release_runtime_lease: the row stays, with its generation, already expired.
\* A token that is not the row's changes nothing.
ReleaseLease(cred) ==
    /\ lease' = IF /\ lease.generation > 0
                   /\ lease.token = cred.token
                   /\ lease.owner = cred.owner
                  THEN [lease EXCEPT !.expires = lease.acquired]
                  ELSE lease
    /\ UNCHANGED issued

\* The wall clock advances.
Tick == /\ now < MaxTime
        /\ now' = now + 1
        /\ UNCHANGED <<lease, issued>>
=============================================================================
