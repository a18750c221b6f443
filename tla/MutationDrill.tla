--------------------------- MODULE MutationDrill ---------------------------
(***************************************************************************)
(* run_paper_certification_drill of paper_mutation_oms: an operator runs   *)
(* the certification drill, again and again and perhaps twice at a time,   *)
(* on one output directory.  It submits one order with a fixed client      *)
(* order id, cancels it and reports how the order ended.                   *)
(*                                                                         *)
(* What a run knows of earlier runs it reads from files: a lock file, a    *)
(* lifecycle log that the next run empties, and latest_run.json, which the *)
(* last run to report overwrites.  Only the cancel is journaled, in a      *)
(* journal of the drill's own that has no order rows.                      *)
(***************************************************************************)
EXTENDS CancelJournal, PaperBroker

CONSTANTS
    Runs,       \* processes that run the drill, one run after another
    NoRun,      \* there is no lock file
    Certified,  \* the drill's client order id
    RunId,      \* the run_id every run passes
    MaxLeases   \* bound on the leases taken, for model checking

VARIABLES
    lock,       \* the lock file, by the process that created it
    log,        \* order_lifecycle.jsonl holds a submit event
    latest,     \* latest_run.json
    reported,   \* history: a run has reported an unresolved outcome
    calls,      \* history: how often the cancel was called
    pc,         \* where each process is
    candidate,  \* the run found a submit without a report
    missed,     \* history: the broker had the order, and the listing the run plans
                \* from left it out
    seen,       \* the broker's last answer on the order
    fresh,      \* that answer is a lookup made after the submit
    response,   \* the status word in the answer to its cancel
    cred,       \* the lease credentials it was given
    outcome     \* what it will report

ASSUME DrillAssumption ==
    /\ NoRun \notin Runs
    /\ Certified \in Orders
    /\ RunId \in Owners
    /\ MaxLeases \in Nat

journalVars == <<leaseVars, controlVars, journal, cancels, updatedAt>>
fileVars    == <<lock, log, latest, reported>>
brokerVars  == <<broker, calls>>
foundVars   == <<candidate, missed>>
toldVars    == <<seen, fresh, response>>
runVars     == <<pc, foundVars, toldVars, cred, outcome>>

vars == <<journalVars, fileVars, brokerVars, runVars>>

\* From the lock to its release.
Inside == {"locked", "cleared", "planning", "recovering", "attempted", "answered",
           "unanswered", "settling", "reserved", "leased", "cancelling",
           "responded", "raised", "cancelled", "polling", "releasing"}

Phases == Inside \cup {"idle", "begun", "opened", "reporting"}

Outcomes == {"none", "blocked", "unresolved", "resolved"}

\* A report: the outcome's kind and the final order it names.
Reports == [outcome : Outcomes, final : Observations \cup {Absent}]

NoReport == [outcome |-> "none", final |-> Absent]

FileTypeOK ==
    /\ lock \in Runs \cup {NoRun}
    /\ log \in BOOLEAN
    /\ latest \in Reports
    /\ reported \in BOOLEAN

RunTypeOK ==
    /\ pc \in [Runs -> Phases]
    /\ candidate \in [Runs -> BOOLEAN]
    /\ missed \in [Runs -> BOOLEAN]
    /\ seen \in [Runs -> Observations \cup {Absent}]
    /\ fresh \in [Runs -> BOOLEAN]
    /\ response \in [Runs -> BrokerStatuses]
    /\ cred \in [Runs -> Credentials]
    /\ outcome \in [Runs -> Outcomes]

TypeOK ==
    /\ LeaseTypeOK
    /\ ControlTypeOK
    /\ JournalTypeOK
    /\ CancelJournalTypeOK
    /\ FileTypeOK
    /\ RunTypeOK
    /\ broker \in [Orders -> Observations \cup {Absent}]
    /\ calls \in Nat

\* A new output directory, and an order the broker never heard of.
Init ==
    /\ LeaseInit
    /\ ControlInit
    /\ JournalInit
    /\ cancels = [o \in Orders |-> NoCancel]
    /\ updatedAt = [o \in Orders |-> 0]
    /\ lock = NoRun
    /\ log = FALSE
    /\ latest = NoReport
    /\ reported = FALSE
    /\ broker = NothingSeen
    /\ calls = 0
    /\ pc = [r \in Runs |-> "idle"]
    /\ candidate = [r \in Runs |-> FALSE]
    /\ missed = [r \in Runs |-> FALSE]
    /\ seen = [r \in Runs |-> Absent]
    /\ fresh = [r \in Runs |-> FALSE]
    /\ response = [r \in Runs |-> "held"]
    /\ cred = [r \in Runs |-> NoCredentials]
    /\ outcome = [r \in Runs |-> "none"]

Goto(r, phase) == pc' = [pc EXCEPT ![r] = phase]

\* The run is over and what it knows with it.
Forget(r) ==
    /\ Goto(r, "idle")
    /\ candidate' = [candidate EXCEPT ![r] = FALSE]
    /\ missed' = [missed EXCEPT ![r] = FALSE]
    /\ seen' = [seen EXCEPT ![r] = Absent]
    /\ fresh' = [fresh EXCEPT ![r] = FALSE]
    /\ response' = [response EXCEPT ![r] = "held"]
    /\ cred' = [cred EXCEPT ![r] = NoCredentials]
    /\ outcome' = [outcome EXCEPT ![r] = "none"]

\* The run comes to an outcome inside the try block.
Finish(r, result) ==
    /\ Goto(r, "releasing")
    /\ outcome' = [outcome EXCEPT ![r] = result]

-----------------------------------------------------------------------------
(* A run, up to its lock.                                                  *)

\* _has_local_submit_without_final_artifact.
Begin(r) ==
    /\ pc[r] = "idle"
    /\ candidate' = [candidate EXCEPT ![r] = log /\ latest = NoReport]
    /\ Goto(r, "begun")
    /\ UNCHANGED <<journalVars, fileVars, brokerVars, missed, toldVars, cred,
                   outcome>>

\* The log is emptied before the lock is asked for.
OpenLog(r) ==
    /\ pc[r] = "begun"
    /\ log' = (log /\ candidate[r])
    /\ Goto(r, "opened")
    /\ UNCHANGED <<journalVars, lock, latest, reported, brokerVars, foundVars,
                   toldVars, cred, outcome>>

TakeLock(r) ==
    /\ pc[r] = "opened"
    /\ lock = NoRun
    /\ lock' = r
    /\ Goto(r, "locked")
    /\ UNCHANGED <<journalVars, log, latest, reported, brokerVars, foundVars,
                   toldVars, cred, outcome>>

\* Mutation: whoever was refused the lock removes it too.
MutRefuseLockReleases(r) ==
    /\ pc[r] = "opened"
    /\ lock # NoRun
    /\ Finish(r, "blocked")
    /\ UNCHANGED <<journalVars, fileVars, brokerVars, foundVars, toldVars, cred>>

\* "blocked_lock_contention", or a check before it: reported like any outcome,
\* but the release removes only a lock of its own.
RefuseLock(r) ==
    /\ pc[r] = "opened"
    /\ lock # NoRun
    /\ Goto(r, "reporting")
    /\ outcome' = [outcome EXCEPT ![r] = "blocked"]
    /\ UNCHANGED <<journalVars, fileVars, brokerVars, foundVars, toldVars, cred>>

-----------------------------------------------------------------------------
(* Under the lock, up to the submit.                                       *)

\* A static check, the observation, a difference between the report and the
\* broker, an order of the drill's or another's, or the plan blocks the run.
Block(r) ==
    /\ pc[r] \in {"locked", "cleared", "planning"}
    /\ Finish(r, "blocked")
    /\ UNCHANGED <<journalVars, fileVars, brokerVars, foundVars, toldVars, cred>>

\* _has_unresolved_prior_mutation.
CheckPrior(r) ==
    /\ pc[r] = "locked"
    /\ latest.outcome # "unresolved"
    /\ Goto(r, "cleared")
    /\ UNCHANGED <<journalVars, fileVars, brokerVars, foundVars, toldVars, cred,
                   outcome>>

\* What the report says of the order, against what the broker lists.
Divergent(listed) ==
    /\ listed # Absent
    /\ latest.outcome = "resolved"
    /\ latest.final.status # listed.status

\* Mutation: an order of the drill's that has ended does not block the run.
MutObserveOpenOnly(r) ==
    /\ pc[r] = "cleared"
    /\ \E listed \in {broker[Certified], Absent} :
          \/ /\ candidate[r] /\ ~Divergent(listed)
             /\ Goto(r, "recovering")
             /\ UNCHANGED missed
          \/ /\ ~candidate[r] /\ (listed # Absent => IsFinal(listed))
             /\ missed' = [missed EXCEPT ![r] = listed # broker[Certified]]
             /\ Goto(r, "planning")
    /\ UNCHANGED <<journalVars, fileVars, brokerVars, candidate, toldVars, cred,
                   outcome>>

\* The open orders and the recent ones, two bounded queries: the order may be
\* missing.  A run that found a submit without a report goes on to recover it,
\* any other only if the order is not listed.
Observe(r) ==
    /\ pc[r] = "cleared"
    /\ \E listed \in {broker[Certified], Absent} :
          \/ /\ candidate[r] /\ ~Divergent(listed)
             /\ Goto(r, "recovering")
             /\ UNCHANGED missed
          \/ /\ ~candidate[r] /\ listed = Absent
             /\ missed' = [missed EXCEPT ![r] = listed # broker[Certified]]
             /\ Goto(r, "planning")
    /\ UNCHANGED <<journalVars, fileVars, brokerVars, candidate, toldVars, cred,
                   outcome>>

\* submit_attempt is logged before the call.
Attempt(r) ==
    /\ pc[r] = "planning"
    /\ log' = TRUE
    /\ Goto(r, "attempted")
    /\ UNCHANGED <<journalVars, lock, latest, reported, brokerVars, foundVars,
                   toldVars, cred, outcome>>

\* The broker creates the order and answers, or the answer is lost, or it
\* creates nothing; it refuses a client order id it knows.
Submit(r) ==
    /\ pc[r] = "attempted"
    /\ \/ /\ broker[Certified] = Absent
          /\ \E obs \in Observations :
                /\ broker' = [broker EXCEPT ![Certified] = obs]
                /\ \/ Goto(r, "answered") /\ seen' = [seen EXCEPT ![r] = obs]
                   \/ Goto(r, "unanswered") /\ UNCHANGED seen
       \/ Goto(r, "unanswered") /\ UNCHANGED <<broker, seen>>
    /\ missed' = [missed EXCEPT ![r] = FALSE]
    /\ UNCHANGED <<journalVars, fileVars, calls, candidate, fresh, response, cred,
                   outcome>>

\* The answer, or that there was none, is logged, and the order looked up by its
\* client order id.  A lookup that finds nothing leaves an unanswered submit
\* unresolved; after an answer the run goes on with a stale snapshot.
LookUp(r) ==
    /\ pc[r] \in {"answered", "unanswered", "recovering"}
    /\ log' = (log \/ pc[r] # "recovering")
    /\ \/ /\ broker[Certified] # Absent
          /\ seen' = [seen EXCEPT ![r] = broker[Certified]]
          /\ fresh' = [fresh EXCEPT ![r] = TRUE]
          /\ Goto(r, "settling")
          /\ UNCHANGED outcome
       \/ /\ IF pc[r] = "answered" THEN Goto(r, "settling") /\ UNCHANGED outcome
                                   ELSE Finish(r, "unresolved")
          /\ UNCHANGED <<seen, fresh>>
    /\ UNCHANGED <<journalVars, lock, latest, reported, brokerVars, foundVars,
                   response, cred>>

-----------------------------------------------------------------------------
(* _cancel_and_reconcile.                                                  *)

\* Mutation: an order that is still open after its cancel counts as ended.
MutClassifyEarly(obs) ==
    IF obs.status \in {"rejected", "filled", "canceled", "cancelled", "accepted"}
    THEN "resolved" ELSE "unresolved"

\* _classify_final_order, by kind: which of them it is follows from the order.
Classify(obs) ==
    IF obs.status \in {"rejected", "filled", "canceled", "cancelled"}
    THEN "resolved" ELSE "unresolved"

\* record_cancel_observation of an order that ended; its failure is swallowed.
\* Nobody else uses the journal under the lock, so its two transactions are one
\* step.
RecordEnd(obs) ==
    \/ UNCHANGED cancels
    \/ /\ obs.status \in {"canceled", "cancelled", "rejected"}
       /\ cancels[Certified].state \in AttemptedCancelStates
       /\ CancelObservationAdmitted(Certified, obs.status)
       /\ WriteCancelObservation(Certified, obs.status, now)

\* The order ended before it was cancelled.
SettleEnded(r) ==
    /\ pc[r] = "settling"
    /\ IsFinal(seen[r])
    /\ RecordEnd(seen[r])
    /\ seen[r].status = "rejected" => UNCHANGED cancels
    /\ Finish(r, Classify(seen[r]))
    /\ UNCHANGED <<leaseVars, controlVars, journal, updatedAt, fileVars,
                   brokerVars, foundVars, toldVars, cred>>

\* The intent's id is a hash of the order alone, so every run has the same.
ReserveIntent(r) ==
    /\ pc[r] = "settling"
    /\ ~IsFinal(seen[r])
    /\ ReserveCancel(Certified, NoIntent, now)
    /\ Goto(r, "reserved")
    /\ UNCHANGED <<leaseVars, controlVars, journal, updatedAt, fileVars,
                   brokerVars, foundVars, toldVars, cred, outcome>>

AcquireCancelLease(r) ==
    /\ pc[r] = "reserved"
    /\ issued < MaxLeases
    /\ TakeLease(RunId, now)
    /\ cred' = [cred EXCEPT ![r] = NextCredentials(RunId)]
    /\ Goto(r, "leased")
    /\ UNCHANGED <<now, controlVars, journal, cancels, updatedAt, fileVars,
                   brokerVars, foundVars, toldVars, outcome>>

\* The intent cannot be reserved, or the lease of an earlier run is unexpired, or
\* its row unavailable: the order is only watched.
SkipCancel(r) ==
    /\ \/ pc[r] = "settling" /\ ~IsFinal(seen[r])
       \/ pc[r] = "reserved"
    /\ Goto(r, "polling")
    /\ UNCHANGED <<journalVars, fileVars, brokerVars, foundVars, toldVars, cred,
                   outcome>>

ClaimIntent(r) ==
    LET admitted == fresh[r] /\ CancelClaimAdmitted(Certified, NoIntent, cred[r], now)
    IN  /\ pc[r] = "leased"
        /\ \/ admitted /\ ClaimCancel(Certified, now) /\ Goto(r, "cancelling")
           \/ UNCHANGED cancels /\ Goto(r, "cancelled")
        /\ UNCHANGED <<leaseVars, controlVars, journal, updatedAt, fileVars,
                       brokerVars, foundVars, toldVars, cred, outcome>>

\* request_order_cancellation.  The answer may carry a status or none, which is
\* taken for a pending cancel.
CallCancel(r) ==
    /\ pc[r] = "cancelling"
    /\ BrokerMoves(Certified) \/ UNCHANGED broker
    /\ calls' = calls + 1
    /\ \/ /\ \E status \in {"pending_cancel", broker'[Certified].status} :
                response' = [response EXCEPT ![r] = status]
          /\ Goto(r, "responded")
       \/ Goto(r, "raised") /\ UNCHANGED response
    /\ UNCHANGED <<journalVars, fileVars, foundVars, seen, fresh, cred,
                   outcome>>

\* Mutation: a cancel the broker has accepted counts as done.
MutResponseStateEarly(status) ==
    CASE status \in {"canceled", "cancelled", "pending_cancel"} -> "canceled"
      [] status = "rejected"                                    -> "rejected"
      [] OTHER                                                  -> "unknown"

\* _cancel_state_from_broker_status.
ResponseState(status) ==
    CASE status \in {"accepted", "pending_cancel"} -> "cancel_accepted"
      [] status \in {"canceled", "cancelled"}      -> "canceled"
      [] status = "rejected"                       -> "rejected"
      [] OTHER                                     -> "unknown"

\* The answer is recorded, with the time of the claim; a cancel that raised, or
\* whose record fails, is marked ambiguous, and that may fail as well.
RecordResponse(r) ==
    LET t == cancels[Certified].updated
    IN  /\ \/ /\ pc[r] = "responded"
              /\ cancels' = [cancels EXCEPT ![Certified].state = ResponseState(response[r]),
                                            ![Certified].updated = t]
           \/ /\ pc[r] \in {"responded", "raised"}
              /\ MarkCancelAmbiguous(Certified, t) \/ UNCHANGED cancels
        /\ Goto(r, "cancelled")
        /\ UNCHANGED <<leaseVars, controlVars, journal, updatedAt, fileVars,
                       brokerVars, foundVars, toldVars, cred, outcome>>

\* In a finally block; its own failure is swallowed.
ReleaseCancelLease(r) ==
    /\ pc[r] = "cancelled"
    /\ ReleaseLease(cred[r]) \/ UNCHANGED <<lease, issued>>
    /\ Goto(r, "polling")
    /\ UNCHANGED <<now, controlVars, journal, cancels, updatedAt, fileVars,
                   brokerVars, foundVars, toldVars, cred, outcome>>

\* The order is looked up until it ended, or the time is up.
Poll(r) ==
    /\ pc[r] = "polling"
    /\ broker[Certified] # Absent
    /\ seen' = [seen EXCEPT ![r] = broker[Certified]]
    /\ IF IsFinal(broker[Certified])
       THEN RecordEnd(broker[Certified]) /\ Finish(r, Classify(broker[Certified]))
       ELSE UNCHANGED <<cancels, pc, outcome>>
    /\ UNCHANGED <<leaseVars, controlVars, journal, updatedAt, fileVars,
                   brokerVars, foundVars, fresh, response, cred>>

StopPolling(r) ==
    /\ pc[r] = "polling"
    /\ Finish(r, Classify(seen[r]))
    /\ UNCHANGED <<journalVars, fileVars, brokerVars, foundVars, toldVars, cred>>

-----------------------------------------------------------------------------
(* The end of a run.                                                       *)

\* The lock file is unlinked by its name.
ReleaseLock(r) ==
    /\ pc[r] = "releasing"
    /\ lock' = NoRun
    /\ Goto(r, "reporting")
    /\ UNCHANGED <<journalVars, log, latest, reported, brokerVars, foundVars,
                   toldVars, cred, outcome>>

\* latest_run.json is written after the lock is gone, over any other.
Report(r) ==
    /\ pc[r] = "reporting"
    /\ latest' = [outcome |-> outcome[r],
                  final   |-> seen[r]]
    /\ reported' = (reported \/ outcome[r] = "unresolved")
    /\ Forget(r)
    /\ UNCHANGED <<journalVars, lock, log, brokerVars>>

\* An exception that nothing catches: the finally blocks run, the report is not
\* written.
Interrupt(r) ==
    /\ pc[r] \in Inside
    /\ lock' = NoRun
    /\ ReleaseLease(cred[r]) \/ UNCHANGED <<lease, issued>>
    /\ Forget(r)
    /\ UNCHANGED <<now, controlVars, journal, cancels, updatedAt, log, latest,
                   reported, brokerVars>>

\* The process is killed: its lock file and its lease stay.
Kill(r) ==
    /\ pc[r] # "idle"
    /\ Forget(r)
    /\ UNCHANGED <<journalVars, fileVars, brokerVars>>

-----------------------------------------------------------------------------
BrokerEvolves ==
    /\ BrokerMoves(Certified)
    /\ UNCHANGED <<journalVars, fileVars, calls, runVars>>

ClockTicks ==
    /\ Tick
    /\ UNCHANGED <<controlVars, journal, cancels, updatedAt, fileVars, brokerVars,
                   runVars>>

DrillStep(r) ==
    \/ Begin(r) \/ OpenLog(r) \/ TakeLock(r) \/ RefuseLock(r) \/ Block(r)
    \/ CheckPrior(r) \/ Observe(r) \/ Attempt(r) \/ Submit(r) \/ LookUp(r)
    \/ SettleEnded(r) \/ ReserveIntent(r) \/ AcquireCancelLease(r) \/ SkipCancel(r)
    \/ ClaimIntent(r) \/ CallCancel(r) \/ RecordResponse(r)
    \/ ReleaseCancelLease(r) \/ Poll(r) \/ StopPolling(r) \/ ReleaseLock(r)
    \/ Report(r) \/ Interrupt(r) \/ Kill(r)

Next ==
    \/ \E r \in Runs : DrillStep(r)
    \/ BrokerEvolves
    \/ ClockTicks

Spec == Init /\ [][Next]_vars

-----------------------------------------------------------------------------
\* At most one run is between taking the lock and giving it up, though a run that
\* was refused, one that was killed and one that starts anew all handle the same
\* file by its name.
OneInside == \A r, q \in Runs : pc[r] \in Inside /\ pc[q] \in Inside => r = q

\* A run that was refused the lock may have erased the submit_attempt of the run
\* that holds it.  Even so, a run submits again while the broker has the order only
\* if the broker left it out of the listing: nobody submits between a run's listing
\* and its own submit, and an order that is listed, open or ended, is not repeated.
ResubmitsOnlyUnlisted ==
    \A r \in Runs :
        pc[r] \in {"planning", "attempted"} /\ broker[Certified] # Absent => missed[r]

\* However often the drill is interrupted and repeated, and whatever its log and
\* its report forgot, the order's cancel is called at most once.
AtMostOneCancel == calls <= 1

\* Two pieces of state that survive a crash agree: a cancel that was called left a
\* row that says so.
CancelLeavesEvidence ==
    calls > 0 => cancels[Certified].state \in AttemptedCancelStates

\* A report that an order ended names its end at the broker, for good: no answer
\* read before the end, no response to the cancel and no later run makes it wrong.
ReportIsTrue == latest.outcome = "resolved" => latest.final = broker[Certified]

\* A cancel row that says canceled is right, though a response may be recorded
\* long after it was given.
CanceledRowIsTrue ==
    cancels[Certified].state = "canceled" =>
        broker[Certified].status \in {"canceled", "cancelled"}

\* Runs that share nothing but a directory and a broker implement the one-shot
\* cancel of the order.
Attempted == {o \in {Certified} : cancels[o].state \in AttemptedCancelStates}
Canceled  == {o \in {Certified} : /\ broker[o] # Absent
                                  /\ broker[o].status \in {"canceled", "cancelled"}}
Known     == {o \in {Certified} : cancels[o].state = "canceled"}
Calls     == [o \in {Certified} |-> calls]

OneShot == INSTANCE OneShotCancel
           WITH Orders <- {Certified}, attempted <- Attempted, calls <- Calls,
                canceled <- Canceled, known <- Known

ImplementsOneShotCancel == OneShot!Spec

\* "test_ambiguous_submit_without_broker_order_blocks_next_mutation": after an
\* unresolved outcome nothing is submitted.
UnresolvedBlocksSubmit == [][reported => \A r \in Runs : ~Submit(r)]_vars
=============================================================================
