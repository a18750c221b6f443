---------------------------- MODULE DurableSubmit ----------------------------
(***************************************************************************)
(* Cycles of run_paper_autopilot_loop that race over one order journal and *)
(* one broker: reserve an idempotency row, claim it under the fenced       *)
(* lease, call the broker once, record what it answered, reconcile.        *)
(*                                                                         *)
(* Runs are separate processes (an operator's one-cycle, a restarted       *)
(* supervisor, a cron overlap).  Each takes one journal transaction or one *)
(* broker call per step, stops anywhere (Crash), and uses the timestamp it *)
(* captured when it started.  Operators run the offline reconcile command  *)
(* from a broker snapshot file while the runs are active.  The lease, the  *)
(* control switches and the order rows are those of OrderJournal.          *)
(***************************************************************************)
EXTENDS PaperBroker, FiniteSets

CONSTANTS
    Operators,   \* processes running the control command's reconcile
    NoOrder      \* no observation is between its check and its write

VARIABLES
    pc,          \* where each process is
    ts,          \* the run's journal_timestamp, read once when it starts
    cred,        \* the lease credentials the run was given
    plan,        \* the order plan of the run's cycle
    snap,        \* the last broker answer each process holds, per order
    todo,        \* the orders whose observation it has still to record
    checked,     \* the order whose observation it has checked but not written
    calls,       \* history: how often submit_order was called for an order
    haltedCalls  \* history: calls made since trading was last halted

Runs == Owners
Processes == Runs \cup Operators

ASSUME ProcessAssumption ==
    /\ Runs \cap Operators = {}
    /\ NoOrder \notin Orders

runVars    == <<pc, ts, cred, plan>>
recordVars == <<snap, todo, checked>>
brokerVars == <<broker, calls, haltedCalls>>

vars == <<leaseVars, controlVars, journal, runVars, recordVars, brokerVars>>

\* record_broker_observation is called from four places: over the startup
\* snapshot, on the submit response, after the action, and offline.
Recording == {"startup", "response", "post", "offline"}

RunPhases == {"idle", "started", "paused", "leased", "observed", "startup",
              "preparing", "reserving", "reserved", "claimed", "response",
              "raised", "called", "post", "releasing", "stopped"}

OperatorPhases == {"idle", "loaded", "offline"}

TypeOK ==
    /\ LeaseTypeOK
    /\ ControlTypeOK
    /\ JournalTypeOK
    /\ pc \in [Processes -> RunPhases \cup OperatorPhases]
    /\ \A r \in Runs : pc[r] \in RunPhases
    /\ \A c \in Operators : pc[c] \in OperatorPhases
    /\ ts \in [Runs -> Nat]
    /\ cred \in [Runs -> Credentials]
    /\ plan \in [Runs -> Plans \cup {NoPlan}]
    /\ snap \in [Processes -> [Orders -> Observations \cup {Absent}]]
    /\ todo \in [Processes -> SUBSET Orders]
    /\ checked \in [Processes -> Orders \cup {NoOrder}]
    /\ broker \in [Orders -> Observations \cup {Absent}]
    /\ calls \in [Orders -> Nat]
    /\ haltedCalls \in Nat

Init ==
    /\ LeaseInit
    /\ ControlInit
    /\ JournalInit
    /\ pc = [p \in Processes |-> "idle"]
    /\ ts = [r \in Runs |-> 0]
    /\ cred = [r \in Runs |-> NoCredentials]
    /\ plan = [r \in Runs |-> NoPlan]
    /\ snap = [p \in Processes |-> NothingSeen]
    /\ todo = [p \in Processes |-> {}]
    /\ checked = [p \in Processes |-> NoOrder]
    /\ broker = NothingSeen
    /\ calls = [o \in Orders |-> 0]
    /\ haltedCalls = 0

-----------------------------------------------------------------------------
(* The broker goes on by itself.                                           *)

BrokerEvolves(o) ==
    /\ BrokerMoves(o)
    /\ UNCHANGED <<leaseVars, controlVars, journal, runVars, recordVars,
                   calls, haltedCalls>>

\* The part of BrokerEvolves that ends the order: filled, canceled or expired.
BrokerSettles(o) == BrokerEvolves(o) /\ IsFinal(broker'[o])

-----------------------------------------------------------------------------
(* A run, up to its plan.                                                  *)

Goto(p, phase) == pc' = [pc EXCEPT ![p] = phase]

\* The cycle reads its clock and the operator switches.
Start(r) ==
    /\ pc[r] = "idle"
    /\ Goto(r, IF control.enabled THEN "started" ELSE "paused")
    /\ ts' = [ts EXCEPT ![r] = now]
    /\ UNCHANGED <<leaseVars, controlVars, journal, cred, plan, recordVars,
                   brokerVars>>

\* A cycle that finds the lease taken raises and ends.  A paused one takes the
\* lease, observes nothing, plans nothing and releases it.
AcquireLease(r) ==
    /\ pc[r] \in {"started", "paused"}
    /\ \/ /\ TakeLease(r, ts[r])
          /\ cred' = [cred EXCEPT ![r] = NextCredentials(r)]
          /\ Goto(r, IF pc[r] = "started" THEN "leased" ELSE "releasing")
       \/ /\ LeaseRefused(NoCredentials, ts[r])
          /\ Goto(r, "stopped")
          /\ UNCHANGED cred
    /\ UNCHANGED <<now, controlVars, journal, ts, plan, recordVars, brokerVars>>

\* A plan needs a broker snapshot with no open order in it, and without the
\* client order id it would use itself.
PlanAllowed(p, listed) ==
    /\ \A o \in listed : BrokerSettled(o)
    /\ OrderOf[p] \notin listed

\* The broker lists some of its orders: the recent-order query is bounded, and
\* an order that two queries show differently is ignored.
ObserveAndPlan(r) ==
    /\ pc[r] = "leased"
    /\ \E listed \in SUBSET {o \in Orders : broker[o] # Absent} :
          /\ snap' = [snap EXCEPT ![r] =
                [o \in Orders |-> IF o \in listed THEN broker[o] ELSE Absent]]
          /\ \E p \in {q \in Plans : PlanAllowed(q, listed)} \cup {NoPlan} :
                plan' = [plan EXCEPT ![r] = p]
    /\ Goto(r, "observed")
    /\ UNCHANGED <<leaseVars, controlVars, journal, ts, cred, todo, checked,
                   brokerVars>>

\* The unresolved rows that the snapshot has an answer for.
ListUnresolved(r) ==
    /\ pc[r] = "observed"
    /\ todo' = [todo EXCEPT ![r] =
          {o \in Orders : Unresolved(o) /\ snap[r][o] # Absent}]
    /\ Goto(r, "startup")
    /\ UNCHANGED <<leaseVars, controlVars, journal, ts, cred, plan, snap,
                   checked, brokerVars>>

-----------------------------------------------------------------------------
(* record_broker_observation, by whoever calls it.                         *)

\* What a caller does when the call raises: the startup pass and the post-action
\* pass go on, the submit coordinator takes its ambiguous path, the offline
\* command ends.
ObservationRefused(p, o) ==
    /\ todo' = [todo EXCEPT ![p] = IF pc[p] = "offline" THEN {} ELSE @ \ {o}]
    /\ pc' = IF pc[p] = "response" THEN [pc EXCEPT ![p] = "raised"] ELSE pc

CheckObservation(p) ==
    /\ pc[p] \in Recording
    /\ checked[p] = NoOrder
    /\ \E o \in todo[p] :
          \/ /\ ObservationAdmitted(o, snap[p][o])
             /\ checked' = [checked EXCEPT ![p] = o]
             /\ UNCHANGED <<todo, pc>>
          \/ /\ ~ObservationAdmitted(o, snap[p][o])
             /\ ObservationRefused(p, o)
             /\ UNCHANGED checked
    /\ UNCHANGED <<leaseVars, controlVars, journal, ts, cred, plan, snap,
                   brokerVars>>

WriteChecked(p) ==
    /\ pc[p] \in Recording
    /\ checked[p] # NoOrder
    /\ WriteObservation(checked[p], snap[p][checked[p]])
    /\ todo' = [todo EXCEPT ![p] = @ \ {checked[p]}]
    /\ checked' = [checked EXCEPT ![p] = NoOrder]
    /\ UNCHANGED <<leaseVars, controlVars, runVars, snap, brokerVars>>

\* The database is locked or unavailable for one write of a run.
WriteFails(r) ==
    /\ pc[r] \in Recording
    /\ checked[r] # NoOrder
    /\ ObservationRefused(r, checked[r])
    /\ checked' = [checked EXCEPT ![r] = NoOrder]
    /\ UNCHANGED <<leaseVars, controlVars, journal, ts, cred, plan, snap,
                   brokerVars>>

FinishRecording(p) ==
    /\ pc[p] \in Recording
    /\ todo[p] = {}
    /\ checked[p] = NoOrder
    /\ Goto(p, CASE pc[p] = "startup"  -> "preparing"
                 [] pc[p] = "response" -> "called"
                 [] pc[p] = "post"     -> "releasing"
                 [] pc[p] = "offline"  -> "idle")
    /\ UNCHANGED <<leaseVars, controlVars, journal, ts, cred, plan, recordVars,
                   brokerVars>>

-----------------------------------------------------------------------------
(* A run, from its plan to its broker call and back.                       *)

\* The second read of the unresolved rows: any of them blocks the cycle.
Prepare(r) ==
    /\ pc[r] = "preparing"
    /\ Goto(r, IF plan[r] # NoPlan /\ \A o \in Orders : ~Unresolved(o)
               THEN "reserving" ELSE "releasing")
    /\ UNCHANGED <<leaseVars, controlVars, journal, ts, cred, plan, recordVars,
                   brokerVars>>

ReserveOrder(r) ==
    /\ pc[r] = "reserving"
    /\ \/ /\ ReserveAdmitted(OrderOf[plan[r]])
          /\ Reserve(OrderOf[plan[r]], plan[r], r)
          /\ Goto(r, "reserved")
       \/ /\ ~ReserveAdmitted(OrderOf[plan[r]])
          /\ Goto(r, "releasing")
          /\ UNCHANGED journal
    /\ UNCHANGED <<leaseVars, controlVars, ts, cred, plan, recordVars,
                   brokerVars>>

\* The journal cannot be read or written; or, with the row reserved, the sleeve
\* ledger refuses its own reservation or risk or freshness evidence is missing.
\* The cycle is blocked, a reserved row stays.
BlockCycle(r) ==
    /\ pc[r] \in {"observed", "preparing", "reserving", "reserved"}
    /\ Goto(r, "releasing")
    /\ UNCHANGED <<leaseVars, controlVars, journal, ts, cred, plan, recordVars,
                   brokerVars>>

ClaimOrder(r) ==
    LET o == OrderOf[plan[r]]
        admitted == ClaimAdmitted(o, plan[r], r, cred[r], ts[r])
    IN  /\ pc[r] = "reserved"
        /\ \/ admitted /\ Claim(o, cred[r]) /\ Goto(r, "claimed")
           \/ ~admitted /\ UNCHANGED journal /\ Goto(r, "releasing")
        /\ UNCHANGED <<leaseVars, controlVars, ts, cred, plan, recordVars,
                       brokerVars>>

\* submit_order.  The broker creates the order and answers; or creates it and
\* the answer is lost or unusable; or creates nothing and the call raises.
CallBroker(r) ==
    LET o == OrderOf[plan[r]]
        Created(obs) == broker[o] = Absent /\ broker' = [broker EXCEPT ![o] = obs]
    IN  /\ pc[r] = "claimed"
        /\ \/ \E obs \in Observations :
                 /\ Created(obs)
                 /\ \/ /\ Goto(r, "response")
                       /\ snap' = [snap EXCEPT ![r][o] = obs]
                       /\ todo' = [todo EXCEPT ![r] = {o}]
                    \/ /\ Goto(r, "raised")
                       /\ UNCHANGED <<snap, todo>>
           \/ Goto(r, "raised") /\ UNCHANGED <<broker, snap, todo>>
        /\ calls' = [calls EXCEPT ![o] = @ + 1]
        /\ haltedCalls' = IF TradingAllowed THEN 0 ELSE haltedCalls + 1
        /\ UNCHANGED <<leaseVars, controlVars, journal, ts, cred, plan, checked>>

\* _mark_ambiguous: its own failure is swallowed too.
MarkAmbiguous(r) ==
    /\ pc[r] = "raised"
    /\ MarkSubmitAmbiguous(OrderOf[plan[r]]) \/ UNCHANGED journal
    /\ Goto(r, "called")
    /\ UNCHANGED <<leaseVars, controlVars, ts, cred, plan, recordVars, brokerVars>>

\* _reconcile_after_action asks for the order again; it may find nothing.
ObserveAgain(r) ==
    LET o == OrderOf[plan[r]]
    IN  /\ pc[r] = "called"
        /\ \/ /\ broker[o] # Absent
              /\ snap' = [snap EXCEPT ![r][o] = broker[o]]
              /\ todo' = [todo EXCEPT ![r] = {o}]
              /\ Goto(r, "post")
           \/ /\ Goto(r, "releasing")
              /\ UNCHANGED <<snap, todo>>
        /\ UNCHANGED <<leaseVars, controlVars, journal, ts, cred, plan, checked,
                       brokerVars>>

\* The process is gone and its local state with it.
Forget(r) ==
    /\ Goto(r, "stopped")
    /\ ts' = [ts EXCEPT ![r] = 0]
    /\ cred' = [cred EXCEPT ![r] = NoCredentials]
    /\ plan' = [plan EXCEPT ![r] = NoPlan]
    /\ snap' = [snap EXCEPT ![r] = NothingSeen]
    /\ todo' = [todo EXCEPT ![r] = {}]
    /\ checked' = [checked EXCEPT ![r] = NoOrder]

Release(r) ==
    /\ pc[r] = "releasing"
    /\ ReleaseLease(cred[r])
    /\ Forget(r)
    /\ UNCHANGED <<now, controlVars, journal, brokerVars>>

\* A kill, a power cut or an exception nothing catches: the lease is not
\* released, only its expiry frees it.
Crash(r) ==
    /\ pc[r] \notin {"idle", "stopped"}
    /\ Forget(r)
    /\ UNCHANGED <<leaseVars, controlVars, journal, brokerVars>>

-----------------------------------------------------------------------------
(* The control command's offline reconcile.                                *)

LoadSnapshot(c) ==
    /\ pc[c] = "idle"
    /\ snap' = [snap EXCEPT ![c] = broker]
    /\ Goto(c, "loaded")
    /\ UNCHANGED <<leaseVars, controlVars, journal, ts, cred, plan, todo,
                   checked, brokerVars>>

\* Mutation: an ambiguous row is left to the operator.
MutReconcilableKeepsUnknown(o, obs) ==
    /\ journal[o].state \notin {"none", "unknown"}
    /\ obs # Absent
    /\ NormalizedStatus(obs.status) # "unknown"
    /\ journal[o].state \in {"partially_filled", "filled"} => obs.filled

\* Rows the snapshot has a known status for, unless a fill would shrink.  The
\* snapshot's age and hash only go into the report.
Reconcilable(o, obs) ==
    /\ journal[o].state # "none"
    /\ obs # Absent
    /\ NormalizedStatus(obs.status) # "unknown"
    /\ journal[o].state \in {"partially_filled", "filled"} => obs.filled

ReadRecords(c) ==
    /\ pc[c] = "loaded"
    /\ todo' = [todo EXCEPT ![c] = {o \in Orders : Reconcilable(o, snap[c][o])}]
    /\ Goto(c, "offline")
    /\ UNCHANGED <<leaseVars, controlVars, journal, ts, cred, plan, snap,
                   checked, brokerVars>>

-----------------------------------------------------------------------------
\* The operator's switches; halted calls are counted from the halt on.
ControlChanges ==
    /\ OperatorWrites
    /\ haltedCalls' = IF TradingAllowed' THEN 0 ELSE haltedCalls
    /\ UNCHANGED <<leaseVars, journal, runVars, recordVars, broker, calls>>

ClockTicks ==
    /\ Tick
    /\ UNCHANGED <<controlVars, journal, runVars, recordVars, brokerVars>>

Record(p) == CheckObservation(p) \/ WriteChecked(p) \/ FinishRecording(p)

RunStep(r) ==
    \/ AcquireLease(r) \/ ObserveAndPlan(r) \/ ListUnresolved(r)
    \/ Record(r) \/ Prepare(r) \/ ReserveOrder(r) \/ ClaimOrder(r)
    \/ CallBroker(r) \/ MarkAmbiguous(r) \/ ObserveAgain(r) \/ Release(r)

OperatorStep(c) == LoadSnapshot(c) \/ ReadRecords(c) \/ Record(c)

Next ==
    \/ \E r \in Runs : \/ Start(r) \/ RunStep(r) \/ WriteFails(r)
                       \/ BlockCycle(r) \/ Crash(r)
    \/ \E c \in Operators : OperatorStep(c)
    \/ \E o \in Orders : BrokerEvolves(o)
    \/ ControlChanges
    \/ ClockTicks

Spec == Init /\ [][Next]_vars

\* The operator keeps running the reconcile command and the broker settles
\* what it accepted.  Runs need no fairness: they may all have crashed.
Fairness == /\ \A c \in Operators : WF_vars(OperatorStep(c))
            /\ \A o \in Orders : WF_vars(BrokerSettles(o))

FairSpec == Spec /\ Fairness

-----------------------------------------------------------------------------
\* Whatever is killed, retried or overlapping, submit_order is called at most
\* once for a client order id.
AtMostOneSubmit == \A o \in Orders : calls[o] <= 1

\* The broker never holds an order whose journal row does not already say that
\* its submit was attempted: a crash at any point leaves evidence of the call.
ClaimPrecedesCall ==
    \A o \in Orders : calls[o] > 0 => journal[o].state \in AttemptedStates

\* Claimed, and not known to be over at the broker.
Outstanding == {o \in Orders : /\ journal[o].state \in AttemptedStates
                               /\ ~BrokerSettled(o)}

\* Mutations are serial: at no time are two claimed orders still open, or of
\* unknown fate, at the broker, even when runs overlap after a lease expiry.
OneOutstanding == \A o1, o2 \in Outstanding : o1 = o2

\* A terminal row tells the truth: the broker ended the order in that state.
TerminalRowIsTrue ==
    \A o \in Orders : journal[o].state \in TerminalStates =>
        BrokerSettled(o) /\ StateFromBrokerStatus(broker[o]) = journal[o].state

\* No row ever shuts the truth out: once the broker ended an order, the offline
\* reconcile and the record of a cycle both accept that end, whatever older answers,
\* ambiguities and overlapping records the row went through.  In particular no row
\* claims a fill that the order does not have.
EndsAreRecordable ==
    \A o \in Orders : BrokerSettled(o) =>
        ObservationAdmitted(o, broker[o]) /\ Reconcilable(o, broker[o])

\* What reopens a row that is over is an answer from before the end of the order,
\* whose check was made before the row was closed: never the mark of an ambiguous
\* submission, a claim or a reservation, however late.  The row stays attempted, so
\* it blocks the next order and can be neither reserved nor claimed again.
ReopensByOlderAnswerOnly ==
    [][\A o \in Orders :
          journal[o].state \in TerminalStates /\ journal'[o].state # journal[o].state =>
              /\ journal'[o].state \in AttemptedStates \ TerminalStates
              /\ \E p \in Processes : /\ WriteChecked(p)
                                      /\ checked[p] = o
                                      /\ ~IsFinal(snap[p][o])]_vars

\* Claims follow the fencing order: a run that lost the lease to a later one
\* never claims after that later run did.
ClaimsInFencingOrder ==
    [][\A o, other \in Orders :
          journal'[o].generation # journal[o].generation =>
              journal[other].generation <= journal'[o].generation]_vars

\* After a pause or a stop commits, at most the one submission that was already
\* claimed can still reach the broker.
HaltBoundsExposure == haltedCalls <= 1

\* An order that reached the broker ends with a terminal row, whatever crashed
\* or was ambiguous on the way, as long as somebody keeps reconciling.
EventuallyJournaled ==
    \A o \in Orders : broker[o] # Absent ~> journal[o].state \in TerminalStates

\* The coordinator implements serial, at-most-once submission.
Claimed == {o \in Orders : journal[o].state \in AttemptedStates}
Settled == {o \in Orders : BrokerSettled(o)}

Serial == INSTANCE SerialSubmission WITH claimed <- Claimed, settled <- Settled

ImplementsSerialSubmission == Serial!Spec

\* "terminal order journal state cannot change."
TerminalStateStable ==
    [][\A o \in Orders : journal[o].state \in TerminalStates =>
          journal'[o].state = journal[o].state]_vars
=============================================================================
