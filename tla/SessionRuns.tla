---------------------------- MODULE SessionRuns ----------------------------
(***************************************************************************)
(* What the supervisors promise of an exchange session, with no lease,     *)
(* clock, switch or table in it: its operator runs are counted when they   *)
(* start, whoever starts them and however they end, and there are only so  *)
(* many; a session that succeeded is done; and one that failed unsafely is *)
(* run again only if somebody else has run it too.                         *)
(***************************************************************************)
EXTENDS Naturals

CONSTANTS Supervisors, Sessions, NoSession, MaxAttempts

VARIABLES
    runs,    \* how often each session was run
    doing,   \* the session each supervisor is running
    done,    \* the sessions on record as successful
    unsafe   \* the sessions that had a safety failure on record

vars == <<runs, doing, done, unsafe>>

Init == /\ runs = [s \in Sessions |-> 0]
        /\ doing = [p \in Supervisors |-> NoSession]
        /\ done = {}
        /\ unsafe = {}

Start(p, s) == /\ doing[p] = NoSession
               /\ s \notin done
               /\ runs[s] < MaxAttempts
               /\ s \in unsafe => runs[s] >= 2
               /\ runs' = [runs EXCEPT ![s] = @ + 1]
               /\ doing' = [doing EXCEPT ![p] = s]
               /\ UNCHANGED <<done, unsafe>>

Stop(p) == /\ doing[p] # NoSession
           /\ doing' = [doing EXCEPT ![p] = NoSession]
           /\ UNCHANGED runs

Succeed(p) == /\ Stop(p)
              /\ done' = done \cup {doing[p]}
              /\ UNCHANGED unsafe

FailUnsafely(p) == /\ Stop(p)
                   /\ doing[p] \notin done
                   /\ unsafe' = unsafe \cup {doing[p]}
                   /\ UNCHANGED done

\* It failed, was killed, or was told that the session is done.
GiveUp(p) == Stop(p) /\ UNCHANGED <<done, unsafe>>

Next == \E p \in Supervisors :
           \/ Succeed(p) \/ FailUnsafely(p) \/ GiveUp(p)
           \/ \E s \in Sessions : Start(p, s)

Spec == Init /\ [][Next]_vars
=============================================================================
