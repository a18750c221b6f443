--------------------------- MODULE DurableCancel ---------------------------
(***************************************************************************)
(* Operator commands that race over one order journal and one broker to    *)
(* cancel orders: paper_exact_cancellation (a Canceller) observes an       *)
(* order, records it, plans, reserves and claims one cancel intent under   *)
(* the cancellation lease, calls the broker once and observes the outcome; *)
(* the reconciliation operator (a Reconciler) reads an order whose cancel  *)
(* is unresolved and converges both rows in one transaction; a trading     *)
(* cycle (a Watcher) records what it sees of the same orders.              *)
(*                                                                         *)
(* A process takes one journal transaction, one journal read or one broker *)
(* call per step and stops anywhere.  The orders were submitted before:    *)
(* their rows exist and say what the broker said then.                     *)
(***************************************************************************)
EXTENDS CancelJournal, PaperBroker

CONSTANTS
    Cancellers, Reconcilers, Watchers,   \* processes
    Submitted,   \* the row that each order's submission left
    NoOrder,     \* a process that has no target
    MaxAge       \* the age up to which a snapshot is fresh

VARIABLES
    pc,        \* where each process is
    target,    \* the order it works on
    seen,      \* the broker's last answer it holds
    at,        \* the time it gave that answer
    intent,    \* the cancel intent a canceller planned
    invokedAt, \* the time of its invocation
    cred,      \* the lease credentials a canceller was given
    checked,   \* it has passed the check of a two-transaction record
    calls      \* history: how often cancel was called for an order

Processes == Cancellers \cup Reconcilers \cup Watchers

ASSUME CancelAssumption ==
    /\ Cancellers \cap (Reconcilers \cup Watchers) = {}
    /\ Reconcilers \cap Watchers = {}
    /\ NoOrder \notin Orders
    /\ Submitted \in [Orders -> OrderRow]
    /\ \A o \in Orders : Submitted[o].run \in Owners
    /\ MaxAge \in Nat

tableVars   == <<journal, cancels, updatedAt>>
processVars == <<pc, target, seen, at, checked>>
plannedVars == <<intent, invokedAt, cred>>

vars == <<leaseVars, controlVars, tableVars, processVars, plannedVars, broker,
          calls>>

\* A canceller records the order before its cancel, after it, and once more
\* when the cancel raised; a watcher records it too.
OrderRecording == {"before", "after", "fallback", "watching"}

CancelRecording == {"outcome", "fallback outcome"}

CancellerPhases == {"idle", "located", "checked", "before", "recorded",
    "planned", "admitted", "reserved", "leased", "claimed", "answered", "after", "outcome", "raised",
    "no outcome", "releasing", "releasing unread", "unread", "fallback",
    "fallback outcome", "stopped"}

ReconcilerPhases == {"idle", "ready", "read", "stamped"}

WatcherPhases == {"idle", "started", "watching"}

ProcessTypeOK ==
    /\ pc \in [Processes -> CancellerPhases \cup ReconcilerPhases \cup WatcherPhases]
    /\ \A c \in Cancellers : pc[c] \in CancellerPhases
    /\ \A r \in Reconcilers : pc[r] \in ReconcilerPhases
    /\ \A w \in Watchers : pc[w] \in WatcherPhases
    /\ target \in [Processes -> Orders \cup {NoOrder}]
    /\ seen \in [Processes -> Observations \cup {Absent}]
    /\ at \in [Processes -> Nat]
    /\ intent \in [Processes -> CancelIntents]
    /\ invokedAt \in [Processes -> Nat]
    /\ cred \in [Processes -> Credentials]
    /\ checked \in [Processes -> BOOLEAN]

TypeOK ==
    /\ LeaseTypeOK
    /\ ControlTypeOK
    /\ JournalTypeOK
    /\ CancelJournalTypeOK
    /\ ProcessTypeOK
    /\ broker \in [Orders -> Observations \cup {Absent}]
    /\ calls \in [Orders -> Nat]

\* Every order is open at the broker, and its row says so.
Init ==
    /\ LeaseInit
    /\ ControlInit
    /\ broker \in [Orders -> {obs \in Observations : ~IsFinal(obs)}]
    /\ journal = [o \in Orders |-> [Submitted[o] EXCEPT
                                      !.state = StateFromBrokerStatus(broker[o])]]
    /\ cancels = [o \in Orders |-> NoCancel]
    /\ updatedAt = [o \in Orders |-> 0]
    /\ pc = [p \in Processes |-> "idle"]
    /\ target = [p \in Processes |-> NoOrder]
    /\ seen = [p \in Processes |-> Absent]
    /\ at = [p \in Processes |-> 0]
    /\ intent = [p \in Processes |-> NoIntent]
    /\ invokedAt = [p \in Processes |-> 0]
    /\ cred = [p \in Processes |-> NoCredentials]
    /\ checked = [p \in Processes |-> FALSE]
    /\ calls = [o \in Orders |-> 0]

Goto(p, phase) == pc' = [pc EXCEPT ![p] = phase]

\* The process ends and its local state with it; the operator and the trading
\* cycle run again.
Leave(p) ==
    /\ Goto(p, IF p \in Cancellers THEN "stopped" ELSE "idle")
    /\ target' = [target EXCEPT ![p] = NoOrder]
    /\ seen' = [seen EXCEPT ![p] = Absent]
    /\ at' = [at EXCEPT ![p] = 0]
    /\ checked' = [checked EXCEPT ![p] = FALSE]
    /\ intent' = [intent EXCEPT ![p] = NoIntent]
    /\ invokedAt' = [invokedAt EXCEPT ![p] = 0]
    /\ cred' = [cred EXCEPT ![p] = NoCredentials]

-----------------------------------------------------------------------------
(* A canceller, up to its plan.                                            *)

\* The local row is not terminal.
CheckTarget(c) ==
    /\ pc[c] = "idle"
    /\ \E o \in Orders :
          /\ journal[o].state \notin TerminalStates
          /\ target' = [target EXCEPT ![c] = o]
    /\ Goto(c, "located")
    /\ UNCHANGED <<leaseVars, controlVars, tableVars, seen, at, checked,
                   plannedVars, broker, calls>>

\* The switches allow trading: read before the broker is asked, and again when
\* the plan is admitted.
CheckSwitches(c) ==
    /\ pc[c] \in {"located", "planned"}
    /\ TradingAllowed
    /\ Goto(c, IF pc[c] = "located" THEN "checked" ELSE "admitted")
    /\ UNCHANGED <<leaseVars, controlVars, tableVars, target, seen, at, checked,
                   plannedVars, broker, calls>>

CancelableStatuses == {"accepted", "new", "partially_filled", "pending_new"}

\* One exact read; an order that is over or not cancelable ends the command.
ReadTarget(c) ==
    /\ pc[c] = "checked"
    /\ broker[target[c]].status \in CancelableStatuses
    /\ seen' = [seen EXCEPT ![c] = broker[target[c]]]
    /\ Goto(c, "before")
    /\ UNCHANGED <<leaseVars, controlVars, tableVars, target, at, checked,
                   plannedVars, broker, calls>>

-----------------------------------------------------------------------------
(* record_broker_observation and record_cancel_observation.                *)

\* The caller's timestamp: a watcher's is older than its read.
StampOf(p) == IF pc[p] = "watching" THEN at[p] ELSE now

\* The record raises or fails: the coordinator has no outcome, any other caller
\* ends.
Refuse(p) ==
    IF pc[p] \in {"after", "outcome"}
    THEN /\ Goto(p, "no outcome")
         /\ checked' = [checked EXCEPT ![p] = FALSE]
         /\ UNCHANGED <<target, seen, at, plannedVars>>
    ELSE Leave(p)

\* The record is written: what the caller does next.
Recorded(p, phase) ==
    /\ Goto(p, phase)
    /\ checked' = [checked EXCEPT ![p] = FALSE]
    /\ UNCHANGED <<target, seen, at, plannedVars>>

CheckOrder(p) ==
    /\ pc[p] \in OrderRecording
    /\ ~checked[p]
    /\ IF ObservationAdmitted(target[p], seen[p])
       THEN /\ checked' = [checked EXCEPT ![p] = TRUE]
            /\ at' = [at EXCEPT ![p] = StampOf(p)]
            /\ UNCHANGED <<pc, target, seen, plannedVars>>
       ELSE Refuse(p)
    /\ UNCHANGED <<leaseVars, controlVars, tableVars, broker, calls>>

WriteOrder(p) ==
    /\ pc[p] \in OrderRecording
    /\ checked[p]
    /\ WriteObservation(target[p], seen[p])
    /\ updatedAt' = [updatedAt EXCEPT ![target[p]] = at[p]]
    /\ CASE pc[p] = "before"   -> Recorded(p, "recorded")
         [] pc[p] = "after"    -> Recorded(p, "outcome")
         [] pc[p] = "fallback" -> Recorded(p, "fallback outcome")
         [] pc[p] = "watching" -> Leave(p)
    /\ UNCHANGED <<leaseVars, controlVars, cancels, broker, calls>>

CheckCancel(c) ==
    /\ pc[c] \in CancelRecording
    /\ ~checked[c]
    /\ IF CancelObservationAdmitted(target[c], seen[c].status)
       THEN /\ checked' = [checked EXCEPT ![c] = TRUE]
            /\ UNCHANGED <<pc, target, seen, at, plannedVars>>
       ELSE Refuse(c)
    /\ UNCHANGED <<leaseVars, controlVars, tableVars, broker, calls>>

\* The coordinator records with the time of the invocation, the fallback with
\* the time of its own read.
WriteCancel(c) ==
    /\ pc[c] \in CancelRecording
    /\ checked[c]
    /\ \/ /\ pc[c] = "outcome"
          /\ WriteCancelObservation(target[c], seen[c].status, invokedAt[c])
          /\ Recorded(c, "releasing")
       \/ /\ pc[c] = "fallback outcome"
          /\ WriteCancelObservation(target[c], seen[c].status, at[c])
          /\ Leave(c)
    /\ UNCHANGED <<leaseVars, controlVars, journal, updatedAt, broker, calls>>

\* The database is locked or unavailable for one read or write.
RecordFails(p) ==
    /\ pc[p] \in OrderRecording \cup CancelRecording
    /\ Refuse(p)
    /\ UNCHANGED <<leaseVars, controlVars, tableVars, broker, calls>>

-----------------------------------------------------------------------------
(* A canceller, from its plan to its one broker call and back.             *)

\* The row as it is after the record committed.
Plan(c) ==
    LET o == target[c]
    IN  /\ pc[c] = "recorded"
        /\ journal[o].state \in {"accepted", "partially_filled"}
        /\ journal[o].state = StateFromBrokerStatus(seen[c])
        /\ updatedAt[o] = at[c]
        /\ intent' = [intent EXCEPT ![c] = [at |-> at[c], status |-> seen[c].status]]
        /\ seen' = [seen EXCEPT ![c] = Absent]
        /\ at' = [at EXCEPT ![c] = 0]
        /\ Goto(c, "planned")
        /\ UNCHANGED <<leaseVars, controlVars, tableVars, target, checked,
                       invokedAt, cred, broker, calls>>

\* The invocation goes on whatever the reservation answered.
ReserveIntent(c) ==
    /\ pc[c] = "admitted"
    /\ now - intent[c].at <= MaxAge
    /\ invokedAt' = [invokedAt EXCEPT ![c] = now]
    /\ ReserveCancel(target[c], intent[c], now)
    /\ Goto(c, "reserved")
    /\ UNCHANGED <<leaseVars, controlVars, journal, updatedAt, target, seen, at,
                   checked, intent, cred, broker, calls>>

\* The owner is the run that submitted the order, for every command that
\* cancels it; no token is passed, so an unexpired lease refuses.
AcquireCancelLease(c) ==
    LET owner == journal[target[c]].run
    IN  /\ pc[c] = "reserved"
        /\ TakeLease(owner, invokedAt[c])
        /\ cred' = [cred EXCEPT ![c] = NextCredentials(owner)]
        /\ Goto(c, "leased")
        /\ UNCHANGED <<now, controlVars, tableVars, target, seen, at, checked,
                       intent, invokedAt, broker, calls>>

ClaimIntent(c) ==
    LET admitted == CancelClaimAdmitted(target[c], intent[c], cred[c], invokedAt[c])
    IN  /\ pc[c] = "leased"
        /\ \/ admitted /\ ClaimCancel(target[c], invokedAt[c]) /\ Goto(c, "claimed")
           \/ ~admitted /\ UNCHANGED cancels /\ Goto(c, "releasing")
        /\ UNCHANGED <<leaseVars, controlVars, journal, updatedAt, target, seen,
                       at, checked, plannedVars, broker, calls>>

\* cancel_order_by_id.  The broker acts on it, at once or later, or does not;
\* the call returns, or raises in either case.
CallCancel(c) ==
    LET o == target[c]
    IN  /\ pc[c] = "claimed"
        /\ BrokerMoves(o) \/ UNCHANGED broker
        /\ calls' = [calls EXCEPT ![o] = @ + 1]
        /\ Goto(c, "answered") \/ Goto(c, "raised")
        /\ UNCHANGED <<leaseVars, controlVars, tableVars, target, seen, at,
                       checked, plannedVars>>

\* The one read after the cancel returned.
ObserveOutcome(c) ==
    /\ pc[c] = "answered"
    /\ \/ /\ seen' = [seen EXCEPT ![c] = broker[target[c]]]
          /\ Goto(c, "after")
       \/ Goto(c, "no outcome") /\ UNCHANGED seen
    /\ UNCHANGED <<leaseVars, controlVars, tableVars, target, at, checked,
                   plannedVars, broker, calls>>

\* _mark_ambiguous: its own failure is swallowed.
MarkAmbiguous(c) ==
    /\ pc[c] \in {"raised", "no outcome"}
    /\ MarkCancelAmbiguous(target[c], invokedAt[c]) \/ UNCHANGED cancels
    /\ Goto(c, IF pc[c] = "raised" THEN "releasing unread" ELSE "releasing")
    /\ UNCHANGED <<leaseVars, controlVars, journal, updatedAt, target, seen, at,
                   checked, plannedVars, broker, calls>>

\* In a finally block; its own failure is swallowed.
ReleaseCancelLease(c) ==
    /\ ReleaseLease(cred[c]) \/ UNCHANGED <<lease, issued>>
    /\ \/ pc[c] = "releasing" /\ Leave(c)
       \/ /\ pc[c] = "releasing unread"
          /\ Goto(c, "unread")
          /\ UNCHANGED <<target, seen, at, checked, plannedVars>>
    /\ UNCHANGED <<now, controlVars, tableVars, broker, calls>>

\* When the cancel raised, one read is still made, after the lease is gone.
FallbackRead(c) ==
    /\ pc[c] = "unread"
    /\ seen' = [seen EXCEPT ![c] = broker[target[c]]]
    /\ Goto(c, "fallback")
    /\ UNCHANGED <<leaseVars, controlVars, tableVars, target, at, checked,
                   plannedVars, broker, calls>>

-----------------------------------------------------------------------------
(* The reconciliation operator.                                            *)

\* The local target check reads both rows before the broker is asked.
CheckUnresolved(r) ==
    /\ pc[r] = "idle"
    /\ \E o \in Orders :
          /\ cancels[o].state \in ReconcilableCancelStates
          /\ target' = [target EXCEPT ![r] = o]
    /\ Goto(r, "ready")
    /\ UNCHANGED <<leaseVars, controlVars, tableVars, seen, at, checked,
                   plannedVars, broker, calls>>

ReadExact(r) ==
    /\ pc[r] = "ready"
    /\ seen' = [seen EXCEPT ![r] = broker[target[r]]]
    /\ Goto(r, "read")
    /\ UNCHANGED <<leaseVars, controlVars, tableVars, target, at, checked,
                   plannedVars, broker, calls>>

\* observed_at is the clock after the answer came.
StampObservation(r) ==
    /\ pc[r] = "read"
    /\ at' = [at EXCEPT ![r] = now]
    /\ Goto(r, "stamped")
    /\ UNCHANGED <<leaseVars, controlVars, tableVars, target, seen, checked,
                   plannedVars, broker, calls>>

Reconcile(r) ==
    LET o == target[r]
    IN  /\ pc[r] = "stamped"
        /\ IF CancelReconcileAdmitted(o, seen[r], at[r])
           THEN ReconcileCancel(o, seen[r], at[r])
           ELSE UNCHANGED tableVars
        /\ Leave(r)
        /\ UNCHANGED <<leaseVars, controlVars, broker, calls>>

-----------------------------------------------------------------------------
(* A trading cycle, as far as it records what it sees of the orders.       *)

StartWatch(w) ==
    /\ pc[w] = "idle"
    /\ at' = [at EXCEPT ![w] = now]
    /\ Goto(w, "started")
    /\ UNCHANGED <<leaseVars, controlVars, tableVars, target, seen, checked,
                   plannedVars, broker, calls>>

ReadListed(w) ==
    /\ pc[w] = "started"
    /\ \E o \in Orders :
          /\ target' = [target EXCEPT ![w] = o]
          /\ seen' = [seen EXCEPT ![w] = broker[o]]
    /\ Goto(w, "watching")
    /\ UNCHANGED <<leaseVars, controlVars, tableVars, at, checked, plannedVars,
                   broker, calls>>

-----------------------------------------------------------------------------
\* A process is killed, or ends at a check that blocks it, a read that fails
\* or a lease it is refused; the lease it holds stays.
Stop(p) ==
    /\ pc[p] \notin {"idle", "stopped"}
    /\ Leave(p)
    /\ UNCHANGED <<leaseVars, controlVars, tableVars, broker, calls>>

BrokerEvolves(o) ==
    /\ BrokerMoves(o)
    /\ UNCHANGED <<leaseVars, controlVars, tableVars, processVars, plannedVars,
                   calls>>

ControlChanges ==
    /\ OperatorWrites
    /\ UNCHANGED <<leaseVars, tableVars, processVars, plannedVars, broker, calls>>

ClockTicks ==
    /\ Tick
    /\ UNCHANGED <<controlVars, tableVars, processVars, plannedVars, broker, calls>>

CancellerStep(c) ==
    \/ CheckTarget(c) \/ CheckSwitches(c) \/ ReadTarget(c) \/ CheckOrder(c)
    \/ WriteOrder(c) \/ Plan(c) \/ ReserveIntent(c) \/ AcquireCancelLease(c) \/ ClaimIntent(c)
    \/ CallCancel(c) \/ ObserveOutcome(c) \/ CheckCancel(c) \/ WriteCancel(c)
    \/ MarkAmbiguous(c) \/ ReleaseCancelLease(c) \/ FallbackRead(c)

ReconcilerStep(r) ==
    CheckUnresolved(r) \/ ReadExact(r) \/ StampObservation(r) \/ Reconcile(r)

WatcherStep(w) ==
    StartWatch(w) \/ ReadListed(w) \/ CheckOrder(w) \/ WriteOrder(w)

Next ==
    \/ \E c \in Cancellers : CancellerStep(c)
    \/ \E r \in Reconcilers : ReconcilerStep(r)
    \/ \E w \in Watchers : WatcherStep(w)
    \/ \E p \in Processes : RecordFails(p) \/ Stop(p)
    \/ \E o \in Orders : BrokerEvolves(o)
    \/ ControlChanges
    \/ ClockTicks

Spec == Init /\ [][Next]_vars

\* Operators start a reconciliation while one is due and repeat it when it failed
\* or was killed, so each of its steps that can be tried again and again succeeds
\* in the end; so does a trading cycle's look at the orders.  Cancellers need no
\* fairness.
Fairness ==
    /\ \A r \in Reconcilers : /\ WF_vars(CheckUnresolved(r))
                             /\ SF_vars(ReadExact(r))
                             /\ SF_vars(StampObservation(r))
                             /\ SF_vars(Reconcile(r))
    /\ \A w \in Watchers : /\ WF_vars(StartWatch(w))
                          /\ SF_vars(ReadListed(w))
                          /\ SF_vars(CheckOrder(w))
                          /\ SF_vars(WriteOrder(w))

FairSpec == Spec /\ Fairness

-----------------------------------------------------------------------------
\* However many commands cancel an order, are killed and are repeated, the
\* broker's cancel is called at most once for it.
AtMostOneCancel == \A o \in Orders : calls[o] <= 1

\* The cancel is never called without a row that says it was attempted: a crash
\* around the call leaves the evidence that keeps a later command from calling
\* again.
CancelLeavesEvidence ==
    \A o \in Orders : calls[o] > 0 => cancels[o].state \in AttemptedCancelStates

CanceledAtBroker(o) == broker[o].status \in {"canceled", "cancelled"}

\* A row that is over, be it the intent's or the order's, tells how the broker
\* ended the order, though the outcome was read, stamped, checked and written in
\* four different steps: a pending cancel that fills in the meantime is never booked
\* as canceled, nor a cancel as rejected, and the two rows never disagree.
TerminalRowsAreTrue ==
    \A o \in Orders :
        /\ journal[o].state \in TerminalStates =>
              /\ IsFinal(broker[o])
              /\ journal[o].state = StateFromBrokerStatus(broker[o])
        /\ cancels[o].state \in TerminalCancelStates =>
              /\ IsFinal(broker[o])
              /\ cancels[o].state = CancelStateFromOrderStatus(broker[o].status)

\* No dead end: once the broker canceled an order whose cancel was attempted, the
\* cancel row says so or the reconciliation, started at any time from then on,
\* accepts the truth, whatever was recorded, stamped and overwritten before; and a
\* trading cycle can record the order.
CanceledIsRecordable ==
    \A o \in Orders :
        cancels[o].state \in AttemptedCancelStates /\ CanceledAtBroker(o) =>
            /\ ObservationAdmitted(o, broker[o])
            /\ \/ cancels[o].state = "canceled"
               \/ CancelReconcileAdmitted(o, broker[o], now)

\* All the commands together implement the one-shot cancel of each order.
Attempted == {o \in Orders : cancels[o].state \in AttemptedCancelStates}
Canceled  == {o \in Orders : CanceledAtBroker(o)}
Known     == {o \in Orders : cancels[o].state = "canceled"}

OneShot == INSTANCE OneShotCancel
           WITH attempted <- Attempted, canceled <- Canceled, known <- Known

ImplementsOneShotCancel == OneShot!Spec

\* When the broker canceled an order whose cancel was attempted, both rows come
\* to say so, whatever was killed or ambiguous on the way.
CancelConverges ==
    \A o \in Orders :
        cancels[o].state \in AttemptedCancelStates /\ CanceledAtBroker(o)
            ~> cancels[o].state = "canceled" /\ journal[o].state = "canceled"

\* "stale observations ... fail closed": a reconciliation never takes back a
\* partial fill that the journal already knows of.
ReconcileKeepsFills ==
    [][\A o \in Orders :
          (\E r \in Reconcilers : Reconcile(r)) /\ journal[o].state = "partially_filled"
              => journal'[o].state \notin {"accepted", "open"}]_vars
=============================================================================
