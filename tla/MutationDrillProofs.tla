------------------------ MODULE MutationDrillProofs ------------------------
(***************************************************************************)
(* Theorems about MutationDrill, for any number of processes, lease times  *)
(* and broker answers.                                                     *)
(***************************************************************************)
EXTENDS MutationDrill, JournalTypes, TLAPS

-----------------------------------------------------------------------------
(* The inductive invariant.                                                *)

CanceledAtBroker == /\ broker[Certified] # Absent
                    /\ broker[Certified].status \in {"canceled", "cancelled"}

\* The phases in which a run knows an order of the broker's.
Told == {"answered", "settling", "reserved", "leased", "cancelling", "responded",
         "raised", "cancelled", "polling"}

\* Who is inside holds the lock.
Locked == \A r \in Runs : pc[r] \in Inside => lock = r

\* The cancel is called once the claim is journaled, and the claim is the only
\* one.
Claimed ==
    /\ calls \in {0, 1}
    /\ calls > 0 => cancels[Certified].state \in AttemptedCancelStates
    /\ \A r \in Runs : pc[r] = "cancelling" =>
          calls = 0 /\ cancels[Certified].state \in AttemptedCancelStates
    /\ \A r \in Runs : pc[r] \in {"responded", "raised"} => calls > 0

\* What a run knows of the order and of its cancel.
Knows(r) ==
    /\ pc[r] \in Told => seen[r] # Absent
    /\ seen[r] # Absent => broker[Certified] # Absent
    /\ seen[r] # Absent /\ IsFinal(seen[r]) => broker[Certified] = seen[r]
    /\ response[r] \in {"canceled", "cancelled"} => CanceledAtBroker
    /\ outcome[r] = "resolved" => seen[r] # Absent /\ IsFinal(seen[r])

\* What the report and the cancel row say.
Recorded ==
    /\ latest.outcome = "resolved" => /\ latest.final = broker[Certified]
                                      /\ broker[Certified] # Absent
                                      /\ IsFinal(broker[Certified])
    /\ cancels[Certified].state = "canceled" => CanceledAtBroker

IInv ==
    /\ TypeOK
    /\ Locked
    /\ Claimed
    /\ \A r \in Runs : Knows(r)
    /\ Recorded
    /\ ResubmitsOnlyUnlisted

-----------------------------------------------------------------------------
(* What a step does.                                                       *)

\* A step of one run leaves what the others know alone.
LEMMA OthersKeep ==
    ASSUME RunTypeOK, NEW r \in Runs, DrillStep(r), NEW q \in Runs, q # r
    PROVE  /\ pc'[q] = pc[q]
           /\ seen'[q] = seen[q]
           /\ response'[q] = response[q]
           /\ outcome'[q] = outcome[q]
           /\ missed'[q] = missed[q]
<1>1. CASE Begin(r) \/ OpenLog(r) \/ TakeLock(r) \/ RefuseLock(r) \/ Block(r)
  BY <1>1 DEF Begin, OpenLog, TakeLock, RefuseLock, Block, Goto, Finish, RunTypeOK,
              foundVars, toldVars
<1>2. CASE CheckPrior(r) \/ Observe(r) \/ Attempt(r)
  BY <1>2 DEF CheckPrior, Observe, Attempt, Goto, RunTypeOK, foundVars, toldVars
<1>3. CASE Submit(r)
  BY <1>3 DEF Submit, Goto, RunTypeOK
<1>4. CASE LookUp(r)
  BY <1>4 DEF LookUp, Goto, Finish, RunTypeOK, foundVars
<1>5. CASE SettleEnded(r) \/ ReserveIntent(r) \/ AcquireCancelLease(r) \/ SkipCancel(r)
  BY <1>5 DEF SettleEnded, ReserveIntent, AcquireCancelLease, SkipCancel, Goto, Finish,
              RunTypeOK, foundVars, toldVars
<1>6. CASE ClaimIntent(r)
  BY <1>6 DEF ClaimIntent, Goto, RunTypeOK, foundVars, toldVars
<1>7. CASE CallCancel(r)
  BY <1>7 DEF CallCancel, Goto, RunTypeOK, foundVars
<1>8. CASE RecordResponse(r) \/ ReleaseCancelLease(r) \/ StopPolling(r)
  BY <1>8 DEF RecordResponse, ReleaseCancelLease, StopPolling, Goto, Finish,
              RunTypeOK, foundVars, toldVars
<1>9. CASE Poll(r)
  BY <1>9 DEF Poll, Goto, Finish, RunTypeOK, foundVars
<1>10. CASE ReleaseLock(r) \/ Report(r) \/ Interrupt(r) \/ Kill(r)
  BY <1>10 DEF ReleaseLock, Report, Interrupt, Kill, Forget, Goto, RunTypeOK, foundVars, toldVars
<1> QED
  BY <1>1, <1>2, <1>3, <1>4, <1>5, <1>6, <1>7, <1>8, <1>9, <1>10 DEF DrillStep

\* The broker forgets no order, and an order that ended stays as it is.
LEMMA BrokerForward ==
    ASSUME TypeOK, [Next]_vars
    PROVE  /\ broker' \in [Orders -> Observations \cup {Absent}]
           /\ broker[Certified] # Absent => broker'[Certified] # Absent
           /\ broker[Certified] # Absent /\ IsFinal(broker[Certified]) =>
                 broker'[Certified] = broker[Certified]
<1>1. ASSUME BrokerMoves(Certified)
      PROVE  /\ broker' \in [Orders -> Observations \cup {Absent}]
             /\ broker'[Certified] # Absent
             /\ ~IsFinal(broker[Certified])
  BY <1>1, BrokerAssumption, DrillAssumption
  DEF TypeOK, BrokerMoves, CanBecome
<1>2. ASSUME NEW r \in Runs, Submit(r)
      PROVE  /\ broker' \in [Orders -> Observations \cup {Absent}]
             /\ broker[Certified] = Absent \/ broker' = broker
  BY <1>2 DEF TypeOK, Submit
<1>3. ASSUME NEW r \in Runs, CallCancel(r)
      PROVE  BrokerMoves(Certified) \/ broker' = broker
  BY <1>3 DEF CallCancel
<1>4. ASSUME NEW r \in Runs, DrillStep(r)
      PROVE  Submit(r) \/ CallCancel(r) \/ broker' = broker
  BY <1>4 DEF DrillStep, Begin, OpenLog, TakeLock, RefuseLock, Block, CheckPrior,
              Observe, Attempt, LookUp, SettleEnded, ReserveIntent,
              AcquireCancelLease, SkipCancel, ClaimIntent, RecordResponse,
              ReleaseCancelLease, Poll, StopPolling, ReleaseLock, Report,
              Interrupt, Kill, brokerVars
<1>5. (\E r \in Runs : Submit(r)) \/ BrokerMoves(Certified) \/ broker' = broker
  BY <1>3, <1>4 DEF Next, BrokerEvolves, ClockTicks, brokerVars, vars
<1> QED
  BY <1>1, <1>2, <1>5, BrokerAssumption DEF TypeOK

\* Every method of the journal keeps the cancel rows' type.
LEMMA DrillReserveTypes ==
    ASSUME CancelJournalTypeOK, NEW o \in Orders, NEW i \in CancelIntents,
           NEW t \in Nat, ReserveCancel(o, i, t)
    PROVE  cancels' \in [Orders -> CancelRow]
  BY DEF CancelJournalTypeOK, ReserveCancel, CancelRow

LEMMA DrillStateWritten ==
    ASSUME CancelJournalTypeOK, NEW o \in Orders, NEW t \in Nat,
           NEW state \in AttemptedCancelStates,
           cancels' = [cancels EXCEPT ![o].state = state, ![o].updated = t]
    PROVE  /\ cancels' \in [Orders -> CancelRow]
           /\ cancels'[o].state = state
<1>1. cancels[o] \in CancelRow
  BY DEF CancelJournalTypeOK
<1> DEFINE row == [cancels[o] EXCEPT !.state = state, !.updated = t]
<1>2. row \in CancelRow /\ row.state = state
  BY <1>1 DEF CancelRow
<1>3. cancels' = [cancels EXCEPT ![o] = row]
  BY <1>1, Zenon DEF CancelJournalTypeOK
<1> HIDE DEF row
<1> QED
  BY <1>2, <1>3 DEF CancelJournalTypeOK

LEMMA RecordEndWrites ==
    ASSUME TypeOK, NEW obs \in Observations, RecordEnd(obs)
    PROVE  /\ cancels' \in [Orders -> CancelRow]
           /\ cancels[Certified].state \in AttemptedCancelStates =>
                 cancels'[Certified].state \in AttemptedCancelStates
           /\ cancels[Certified].state \notin AttemptedCancelStates =>
                 cancels' = cancels
           /\ \/ cancels' = cancels
              \/ /\ cancels'[Certified].state = CancelStateFromOrderStatus(obs.status)
                 /\ obs.status \in {"canceled", "cancelled", "rejected"}
<1>1. CASE UNCHANGED cancels
  BY <1>1 DEF TypeOK, CancelJournalTypeOK
<1>2. CASE /\ obs.status \in {"canceled", "cancelled", "rejected"}
           /\ cancels[Certified].state \in AttemptedCancelStates
           /\ WriteCancelObservation(Certified, obs.status, now)
  <2> DEFINE state == CancelStateFromOrderStatus(obs.status)
  <2>1. state \in AttemptedCancelStates
    BY <1>2 DEF CancelStateFromOrderStatus, AttemptedCancelStates, TerminalCancelStates
  <2>2. cancels' = [cancels EXCEPT ![Certified].state = state, ![Certified].updated = now]
    BY <1>2 DEF WriteCancelObservation
  <2> HIDE DEF state
  <2>3. cancels' \in [Orders -> CancelRow] /\ cancels'[Certified].state = state
    BY <2>1, <2>2, DrillStateWritten, DrillAssumption DEF TypeOK, LeaseTypeOK
  <2> QED
    BY <1>2, <2>1, <2>3 DEF state
<1> QED
  BY <1>1, <1>2 DEF RecordEnd

LEMMA ResponseStateTypes ==
    ASSUME NEW status \in BrokerStatuses
    PROVE  /\ ResponseState(status) \in AttemptedCancelStates
           /\ ResponseState(status) = "canceled" <=> status \in {"canceled", "cancelled"}
  BY DEF BrokerStatuses, ResponseState, AttemptedCancelStates, TerminalCancelStates

\* What a run does to the cancel row: only a run inside writes it, an attempted
\* cancel stays attempted, only the claim makes a reserved one attempted, and
\* canceled is written of an order the broker canceled.
LEMMA RowStep ==
    ASSUME IInv, NEW r \in Runs, DrillStep(r)
    PROVE  /\ cancels' \in [Orders -> CancelRow]
           /\ cancels[Certified].state \in AttemptedCancelStates =>
                 cancels'[Certified].state \in AttemptedCancelStates
           /\ cancels'[Certified].state = "canceled" =>
                 cancels[Certified].state = "canceled" \/ CanceledAtBroker
           /\ cancels[Certified].state \notin AttemptedCancelStates =>
                 \/ cancels'[Certified].state \notin AttemptedCancelStates
                 \/ cancels'[Certified].state = "cancel_attempted"
<1> DEFINE before == cancels[Certified].state
           after == cancels'[Certified].state
<1> USE DrillAssumption
<1>1. TypeOK /\ CancelJournalTypeOK /\ now \in Nat /\ Knows(r) /\ Recorded
  BY DEF IInv, TypeOK, LeaseTypeOK
<1>2. ASSUME UNCHANGED cancels
      PROVE  /\ cancels' \in [Orders -> CancelRow]
             /\ before \in AttemptedCancelStates => after \in AttemptedCancelStates
             /\ after = "canceled" => before = "canceled"
             /\ after = before
  BY <1>1, <1>2 DEF CancelJournalTypeOK
<1>3. ASSUME NEW obs \in Observations, RecordEnd(obs),
             obs.status \in {"canceled", "cancelled"} => CanceledAtBroker
      PROVE  /\ cancels' \in [Orders -> CancelRow]
             /\ before \in AttemptedCancelStates => after \in AttemptedCancelStates
             /\ after = "canceled" => before = "canceled" \/ CanceledAtBroker
             /\ before \notin AttemptedCancelStates => after = before
  BY <1>1, <1>3, RecordEndWrites, Zenon DEF CancelStateFromOrderStatus
<1>4. CASE SettleEnded(r)
  <2>1. /\ pc[r] = "settling" /\ IsFinal(seen[r]) /\ RecordEnd(seen[r])
    BY <1>4 DEF SettleEnded
  <2>2. seen[r] \in Observations /\ broker[Certified] = seen[r]
    BY <1>1, <2>1 DEF Knows, Told, TypeOK, RunTypeOK
  <2>3. broker[Certified] # Absent
    BY <2>2, BrokerAssumption
  <2> QED
    BY <1>3, <2>1, <2>2, <2>3 DEF CanceledAtBroker
<1>5. CASE Poll(r)
  <2>1. broker[Certified] # Absent /\ broker[Certified] \in Observations
    BY <1>1, <1>5 DEF Poll, TypeOK
  <2>2. RecordEnd(broker[Certified]) \/ UNCHANGED cancels
    BY <1>5 DEF Poll
  <2> QED
    BY <1>2, <1>3, <2>1, <2>2 DEF CanceledAtBroker
<1>6. CASE ReserveIntent(r)
  <2>1. ReserveCancel(Certified, NoIntent, now) /\ NoIntent \in CancelIntents
    BY <1>6 DEF ReserveIntent, NoIntent, CancelIntents, BrokerStatuses
  <2>2. cancels' \in [Orders -> CancelRow]
    BY <1>1, <2>1, DrillReserveTypes
  <2>3. UNCHANGED cancels \/ (before = "none" /\ after = "reserved")
    <3>1. CASE before = "none"
      <4>1. cancels' = [cancels EXCEPT ![Certified] =
                            [state |-> "reserved", intent |-> NoIntent, updated |-> now]]
        BY <2>1, <3>1 DEF ReserveCancel
      <4> QED
        BY <1>1, <3>1, <4>1, DrillAssumption DEF CancelJournalTypeOK, CancelRow
    <3>2. CASE before # "none"
      BY <2>1, <3>2 DEF ReserveCancel
    <3> QED
      BY <3>1, <3>2
  <2> QED
    BY <1>2, <2>2, <2>3 DEF AttemptedCancelStates, TerminalCancelStates
<1>7. CASE ClaimIntent(r)
  <2>1. CASE ClaimCancel(Certified, now)
    <3>1. cancels' \in [Orders -> CancelRow] /\ after = "cancel_attempted"
      BY <1>1, <2>1, DrillStateWritten DEF ClaimCancel, AttemptedCancelStates
    <3> QED
      BY <3>1 DEF AttemptedCancelStates
  <2> QED
    BY <1>2, <1>7, <2>1 DEF ClaimIntent
<1>8. CASE RecordResponse(r)
  <2> DEFINE t == cancels[Certified].updated
             state == ResponseState(response[r])
  <2>1. t \in Nat /\ response[r] \in BrokerStatuses
    BY <1>1 DEF CancelJournalTypeOK, CancelRow, TypeOK, RunTypeOK
  <2>2. state \in AttemptedCancelStates /\ (state = "canceled" => CanceledAtBroker)
    BY <1>1, <2>1, ResponseStateTypes DEF Knows
  <2>5. before \in AttemptedCancelStates
    BY <1>8 DEF RecordResponse, IInv, Claimed
  <2> HIDE DEF t, state
  <2>3. CASE cancels' = [cancels EXCEPT ![Certified].state = state,
                                        ![Certified].updated = t]
    <3>1. cancels' \in [Orders -> CancelRow] /\ after = state
      BY <1>1, <2>1, <2>2, <2>3, DrillStateWritten
    <3> QED
      BY <2>2, <2>5, <3>1
  <2>4. CASE MarkCancelAmbiguous(Certified, t)
    <3>1. CASE before \in {"cancel_attempted", "unknown"}
      <4>1. cancels' \in [Orders -> CancelRow] /\ after = "unknown"
        BY <1>1, <2>1, <2>4, <3>1, DrillStateWritten
        DEF MarkCancelAmbiguous, AttemptedCancelStates
      <4> QED
        BY <2>5, <4>1 DEF AttemptedCancelStates
    <3>2. CASE before \notin {"cancel_attempted", "unknown"}
      BY <1>2, <2>4, <3>2 DEF MarkCancelAmbiguous
    <3> QED
      BY <3>1, <3>2
  <2> QED
    BY <1>2, <1>8, <2>3, <2>4 DEF RecordResponse, t, state
<1>9. ASSUME ~SettleEnded(r), ~Poll(r), ~ReserveIntent(r), ~ClaimIntent(r),
             ~RecordResponse(r)
      PROVE  UNCHANGED cancels
  BY <1>9 DEF DrillStep, Begin, OpenLog, TakeLock, RefuseLock, Block, CheckPrior,
              Observe, Attempt, Submit, LookUp, AcquireCancelLease, SkipCancel,
              CallCancel, ReleaseCancelLease, StopPolling, ReleaseLock, Report,
              Interrupt, Kill, journalVars
<1> QED
  BY <1>2, <1>4, <1>5, <1>6, <1>7, <1>8, <1>9

\* What a run holds keeps its type.
LEMMA RunStepTypes ==
    ASSUME IInv, NEW r \in Runs, DrillStep(r)
    PROVE  RunTypeOK'
<1>1. RunTypeOK /\ Knows(r)
  BY DEF IInv, TypeOK
<1>2. broker \in [Orders -> Observations \cup {Absent}] /\ Certified \in Orders
  BY DrillAssumption DEF IInv, TypeOK
<1>3. CASE Begin(r) \/ OpenLog(r) \/ TakeLock(r) \/ RefuseLock(r) \/ Block(r)
  <2>1. (log /\ latest = NoReport) \in BOOLEAN
    OBVIOUS
  <2> QED
    BY <1>1, <1>3, <2>1
    DEF Begin, OpenLog, TakeLock, RefuseLock, Block, Goto, Finish, RunTypeOK,
        foundVars, toldVars, Phases, Inside, Outcomes
<1>4. CASE CheckPrior(r) \/ Observe(r) \/ Attempt(r)
  BY <1>1, <1>4 DEF CheckPrior, Observe, Attempt, Goto, RunTypeOK, foundVars, toldVars, Phases,
                    Inside
<1>5. CASE Submit(r)
  BY <1>1, <1>5 DEF Submit, Goto, RunTypeOK, Phases, Inside
<1>6. CASE LookUp(r)
  BY <1>1, <1>2, <1>6 DEF LookUp, Goto, Finish, RunTypeOK, foundVars, Phases, Inside, Outcomes
<1>7. \A obs : Classify(obs) \in Outcomes
  BY DEF Classify, Outcomes
<1>8. CASE SettleEnded(r) \/ ReserveIntent(r) \/ SkipCancel(r)
  BY <1>1, <1>7, <1>8 DEF SettleEnded, ReserveIntent, SkipCancel, Goto, Finish,
                          RunTypeOK, foundVars, toldVars, Phases, Inside
<1>9. CASE AcquireCancelLease(r)
  <2>1. NextCredentials(RunId) \in Credentials
    BY <1>9, TakeLeaseTypes, DrillAssumption DEF AcquireCancelLease, IInv, TypeOK,
                                                LeaseTypeOK
  <2> QED
    BY <1>1, <1>9, <2>1 DEF AcquireCancelLease, Goto, RunTypeOK, foundVars, toldVars, Phases,
                            Inside
<1>10. CASE ClaimIntent(r)
  BY <1>1, <1>10 DEF ClaimIntent, Goto, RunTypeOK, foundVars, toldVars, Phases, Inside
<1>11. CASE CallCancel(r)
  <2>1. broker'[Certified] \in Observations
    <3>1. seen[r] # Absent
      BY <1>1, <1>11 DEF Knows, Told, CallCancel
    <3>2. broker[Certified] # Absent
      BY <1>1, <3>1 DEF Knows
    <3>3. TypeOK /\ [Next]_vars
      BY DEF IInv, Next
    <3> QED
      BY <1>2, <3>2, <3>3, BrokerForward
  <2>2. broker'[Certified].status \in BrokerStatuses
    BY <2>1, ObservationAssumption DEF ObservationRecord
  <2> QED
    BY <1>1, <1>11, <2>2 DEF CallCancel, Goto, RunTypeOK, foundVars, Phases, Inside, BrokerStatuses
<1>12. CASE RecordResponse(r) \/ ReleaseCancelLease(r) \/ StopPolling(r)
  BY <1>1, <1>7, <1>12 DEF RecordResponse, ReleaseCancelLease, StopPolling, Goto,
                           Finish, RunTypeOK, foundVars, toldVars, Phases, Inside
<1>13. CASE Poll(r)
  BY <1>1, <1>2, <1>7, <1>13 DEF Poll, Goto, Finish, RunTypeOK, foundVars, Phases, Inside
<1>14. CASE ReleaseLock(r)
  BY <1>1, <1>14 DEF ReleaseLock, Goto, RunTypeOK, foundVars, toldVars, Phases
<1>15. CASE Report(r) \/ Interrupt(r) \/ Kill(r)
  <2>1. Forget(r)
    BY <1>15 DEF Report, Interrupt, Kill
  <2>2. NoCredentials \in Credentials /\ "held" \in BrokerStatuses
    BY DEF NoCredentials, Credentials, BrokerStatuses
  <2> QED
    BY <1>1, <2>1, <2>2 DEF Forget, Goto, RunTypeOK, Phases, Outcomes
<1> QED
  BY <1>3, <1>4, <1>5, <1>6, <1>8, <1>9, <1>10, <1>11, <1>12, <1>13, <1>14, <1>15
  DEF DrillStep

\* The lock file, the log and the report keep their types.
LEMMA FileStepTypes ==
    ASSUME IInv, NEW r \in Runs, DrillStep(r)
    PROVE  FileTypeOK' /\ calls' \in Nat
<1>1. FileTypeOK /\ RunTypeOK /\ calls \in Nat
  BY DEF IInv, TypeOK
<1>2. CASE TakeLock(r) \/ ReleaseLock(r) \/ Interrupt(r)
  BY <1>1, <1>2 DEF TakeLock, ReleaseLock, Interrupt, FileTypeOK, brokerVars
<1>3. CASE OpenLog(r) \/ Attempt(r) \/ LookUp(r)
  <2>1. log' \in BOOLEAN
    BY <1>1, <1>3 DEF OpenLog, Attempt, LookUp, FileTypeOK
  <2> QED
    BY <1>1, <1>3, <2>1 DEF OpenLog, Attempt, LookUp, FileTypeOK, brokerVars
<1>4. CASE Report(r)
  BY <1>1, <1>4 DEF Report, FileTypeOK, RunTypeOK, Reports, brokerVars
<1>5. CASE CallCancel(r)
  BY <1>1, <1>5 DEF CallCancel, FileTypeOK, fileVars
<1>6. CASE Submit(r)
  BY <1>1, <1>6 DEF Submit, FileTypeOK, fileVars
<1>7. CASE Begin(r) \/ RefuseLock(r) \/ Block(r) \/ CheckPrior(r) \/ Observe(r)
  BY <1>1, <1>7 DEF Begin, RefuseLock, Block, CheckPrior, Observe, FileTypeOK, fileVars,
                    brokerVars
<1>8. CASE \/ SettleEnded(r) \/ ReserveIntent(r) \/ AcquireCancelLease(r)
           \/ SkipCancel(r) \/ ClaimIntent(r)
  BY <1>1, <1>8 DEF SettleEnded, ReserveIntent, AcquireCancelLease, SkipCancel,
                    ClaimIntent, FileTypeOK, fileVars, brokerVars
<1>9. CASE \/ RecordResponse(r) \/ ReleaseCancelLease(r) \/ Poll(r)
           \/ StopPolling(r) \/ Kill(r)
  BY <1>1, <1>9 DEF RecordResponse, ReleaseCancelLease, Poll, StopPolling, Kill,
                    FileTypeOK, fileVars, brokerVars
<1> QED
  BY <1>2, <1>3, <1>4, <1>5, <1>6, <1>7, <1>8, <1>9 DEF DrillStep

\* The journal's other tables keep their types.
LEMMA TableStepTypes ==
    ASSUME IInv, NEW r \in Runs, DrillStep(r)
    PROVE  /\ UNCHANGED <<controlVars, journal, updatedAt>>
           /\ LeaseTypeOK'
<1>1. LeaseTypeOK /\ RunTypeOK
  BY DEF IInv, TypeOK
<1>2. CASE AcquireCancelLease(r)
  <2>1. TakeLease(RunId, now) /\ now' = now /\ now \in Nat
    BY <1>1, <1>2 DEF AcquireCancelLease, LeaseTypeOK
  <2> QED
    BY <1>1, <1>2, <2>1, TakeLeaseTypes, DrillAssumption
    DEF AcquireCancelLease, LeaseTypeOK, controlVars
<1>3. CASE ReleaseCancelLease(r) \/ Interrupt(r)
  <2>1. cred[r] \in Credentials
    BY <1>1 DEF RunTypeOK
  <2>2. ReleaseLease(cred[r]) \/ UNCHANGED <<lease, issued>>
    BY <1>3 DEF ReleaseCancelLease, Interrupt
  <2>3. now' = now /\ issued' = issued /\ UNCHANGED <<controlVars, journal, updatedAt>>
    BY <1>3, <2>2 DEF ReleaseCancelLease, Interrupt, ReleaseLease
  <2> QED
    BY <1>1, <2>1, <2>2, <2>3, ReleaseLeaseTypes DEF LeaseTypeOK
<1>4. ASSUME ~AcquireCancelLease(r), ~ReleaseCancelLease(r), ~Interrupt(r)
      PROVE  UNCHANGED <<leaseVars, controlVars, journal, updatedAt>>
  BY <1>4 DEF DrillStep, Begin, OpenLog, TakeLock, RefuseLock, Block, CheckPrior,
              Observe, Attempt, Submit, LookUp, SettleEnded, ReserveIntent,
              SkipCancel, ClaimIntent, CallCancel, RecordResponse, Poll,
              StopPolling, ReleaseLock, Report, Kill, journalVars
<1> QED
  BY <1>1, <1>2, <1>3, <1>4 DEF LeaseTypeOK, leaseVars

-----------------------------------------------------------------------------
(* The invariant is inductive.                                             *)

LEMMA DrillInit == Init => IInv
<1> SUFFICES ASSUME Init PROVE IInv
  OBVIOUS
<1>1. LeaseTypeOK /\ ControlTypeOK /\ JournalTypeOK
  BY DEF Init, LeaseInit, ControlInit, JournalInit, LeaseTypeOK, ControlTypeOK,
         JournalTypeOK, NoLease, LeaseRow, DefaultControl, ControlRow, NoRow,
         OrderRow, RowStates
<1>2. CancelJournalTypeOK
  BY DEF Init, CancelJournalTypeOK, NoCancel, CancelRow, NoIntent, CancelIntents,
         BrokerStatuses
<1>3. FileTypeOK
  BY DEF Init, FileTypeOK, NoReport, Reports, Outcomes
<1>4. RunTypeOK
  BY DEF Init, RunTypeOK, Phases, Outcomes, BrokerStatuses, NoCredentials, Credentials
<1>5. broker \in [Orders -> Observations \cup {Absent}] /\ calls \in Nat
  BY DEF Init, NothingSeen
<1>6. Locked /\ \A r \in Runs : Knows(r)
  BY DEF Init, Locked, Inside, Knows, Told
<1>7. cancels[Certified].state = "none"
  BY DrillAssumption DEF Init, NoCancel
<1>8. Claimed /\ Recorded
  BY <1>7 DEF Init, Claimed, Recorded, NoReport
<1>9. ResubmitsOnlyUnlisted
  BY DEF Init, ResubmitsOnlyUnlisted
<1> QED
  BY <1>1, <1>2, <1>3, <1>4, <1>5, <1>6, <1>8, <1>9 DEF IInv, TypeOK

\* A step of the broker or of the clock, or none.
NoRunActs == /\ UNCHANGED <<controlVars, journal, cancels, updatedAt, fileVars, calls,
                            runVars>>
             /\ Tick \/ UNCHANGED leaseVars

LEMMA StepKinds ==
    ASSUME [Next]_vars
    PROVE  NoRunActs \/ \E r \in Runs : DrillStep(r)
<1>1. CASE \E r \in Runs : DrillStep(r)
  BY <1>1
<1>2. CASE BrokerEvolves
  BY <1>2 DEF BrokerEvolves, NoRunActs, journalVars
<1>3. CASE ClockTicks
  BY <1>3 DEF ClockTicks, NoRunActs, brokerVars
<1>4. CASE UNCHANGED vars
  BY <1>4 DEF vars, NoRunActs, journalVars, brokerVars
<1> QED
  BY <1>1, <1>2, <1>3, <1>4 DEF Next

LEMMA TypeStep ==
    ASSUME IInv, [Next]_vars
    PROVE  TypeOK'
<1>1. TypeOK
  BY DEF IInv
<1>2. broker' \in [Orders -> Observations \cup {Absent}]
  BY <1>1, BrokerForward
<1>3. CASE NoRunActs
  <2>1. LeaseTypeOK'
    BY <1>1, <1>3 DEF TypeOK, NoRunActs, LeaseTypeOK, Tick, leaseVars
  <2>2. ControlTypeOK' /\ JournalTypeOK' /\ CancelJournalTypeOK'
    BY <1>1, <1>3 DEF TypeOK, NoRunActs, ControlTypeOK, JournalTypeOK,
                      CancelJournalTypeOK, controlVars
  <2>3. FileTypeOK' /\ calls' \in Nat
    BY <1>1, <1>3 DEF TypeOK, NoRunActs, FileTypeOK, fileVars
  <2>4. RunTypeOK'
    BY <1>1, <1>3 DEF TypeOK, NoRunActs, RunTypeOK, runVars, foundVars, toldVars
  <2> QED
    BY <1>2, <2>1, <2>2, <2>3, <2>4 DEF TypeOK
<1>4. ASSUME NEW r \in Runs, DrillStep(r) PROVE TypeOK'
  <2>1. cancels' \in [Orders -> CancelRow]
    BY <1>4, RowStep
  <2>2. UNCHANGED <<controlVars, journal, updatedAt>> /\ LeaseTypeOK'
    BY <1>4, TableStepTypes
  <2>3. ControlTypeOK' /\ JournalTypeOK' /\ CancelJournalTypeOK'
    BY <1>1, <2>1, <2>2 DEF TypeOK, ControlTypeOK, JournalTypeOK,
                            CancelJournalTypeOK, controlVars
  <2>4. FileTypeOK' /\ calls' \in Nat /\ RunTypeOK'
    BY <1>4, FileStepTypes, RunStepTypes
  <2> QED
    BY <1>2, <2>2, <2>3, <2>4 DEF TypeOK
<1> QED
  BY <1>3, <1>4, StepKinds

\* The lock is taken when it is free, and given up only by its owner.
LEMMA LockStep ==
    ASSUME RunTypeOK, NEW r \in Runs, DrillStep(r)
    PROVE  \/ lock' = lock /\ (pc'[r] \in Inside => pc[r] \in Inside)
           \/ lock = NoRun /\ lock' = r
           \/ pc[r] \in Inside /\ lock' = NoRun /\ pc'[r] \notin Inside
<1>1. CASE TakeLock(r)
  BY <1>1 DEF TakeLock
<1>2. CASE ReleaseLock(r) \/ Interrupt(r)
  BY <1>2 DEF ReleaseLock, Interrupt, Forget, Goto, RunTypeOK, Inside
<1>3. CASE Begin(r) \/ OpenLog(r) \/ RefuseLock(r) \/ Report(r) \/ Kill(r)
  BY <1>3 DEF Begin, OpenLog, RefuseLock, Report, Kill, Forget, Goto, RunTypeOK, Inside,
              fileVars
<1>4. ASSUME ~TakeLock(r), ~ReleaseLock(r), ~Interrupt(r), ~Begin(r), ~OpenLog(r),
             ~RefuseLock(r), ~Report(r), ~Kill(r)
      PROVE  lock' = lock /\ pc[r] \in Inside
  BY <1>4 DEF DrillStep, Block, CheckPrior, Observe, Attempt, Submit, LookUp, SettleEnded,
              ReserveIntent, AcquireCancelLease, SkipCancel, ClaimIntent, CallCancel,
              RecordResponse, ReleaseCancelLease, Poll, StopPolling, fileVars, Inside
<1> QED
  BY <1>1, <1>2, <1>3, <1>4

LEMMA LockedStep ==
    ASSUME IInv, [Next]_vars
    PROVE  Locked'
<1>1. RunTypeOK /\ Locked /\ NoRun \notin Runs
  BY DrillAssumption DEF IInv, TypeOK
<1>2. CASE NoRunActs
  BY <1>1, <1>2 DEF NoRunActs, Locked, fileVars, runVars
<1>3. ASSUME NEW r \in Runs, DrillStep(r), NEW q \in Runs, pc'[q] \in Inside
      PROVE  lock' = q
  <2>1. CASE q = r
    BY <1>1, <1>3, <2>1, LockStep DEF Locked
  <2>2. CASE q # r
    <3>1. pc[q] \in Inside /\ lock = q
      BY <1>1, <1>3, <2>2, OthersKeep DEF Locked
    <3> QED
      BY <1>1, <1>3, <2>2, <3>1, LockStep DEF Locked
  <2> QED
    BY <2>1, <2>2
<1> QED
  BY <1>2, <1>3, StepKinds DEF Locked

\* Only a run that claimed the cancel calls it, and it had to find the row reserved.
LEMMA CallStep ==
    ASSUME RunTypeOK, CancelJournalTypeOK, NEW r \in Runs, DrillStep(r)
    PROVE  /\ calls' = calls \/ (pc[r] = "cancelling" /\ calls' = calls + 1
                                  /\ pc'[r] # "cancelling")
           /\ pc'[r] = "cancelling" =>
                 \/ pc[r] = "cancelling"
                 \/ /\ cancels[Certified].state = "reserved"
                    /\ cancels'[Certified].state = "cancel_attempted"
                    /\ calls' = calls
           /\ pc'[r] \in {"responded", "raised"} =>
                 pc[r] = "cancelling" /\ calls' = calls + 1
<1>1. CASE CallCancel(r)
  BY <1>1 DEF CallCancel, Goto, RunTypeOK
<1>2. CASE ClaimIntent(r)
  <2>1. CASE CancelClaimAdmitted(Certified, NoIntent, cred[r], now)
             /\ ClaimCancel(Certified, now)
    <3>1. cancels[Certified].state = "reserved" /\ Certified \in Orders
      BY <2>1, DrillAssumption DEF CancelClaimAdmitted
    <3>2. cancels' = [cancels EXCEPT ![Certified].state = "cancel_attempted",
                                     ![Certified].updated = now]
      BY <2>1 DEF ClaimCancel
    <3>3. cancels'[Certified].state = "cancel_attempted"
      BY <3>1, <3>2 DEF CancelJournalTypeOK, CancelRow
    <3> QED
      BY <1>2, <3>1, <3>3 DEF ClaimIntent, Goto, RunTypeOK, brokerVars
  <2>2. CASE Goto(r, "cancelled")
    BY <1>2, <2>2 DEF ClaimIntent, Goto, RunTypeOK, brokerVars
  <2> QED
    BY <1>2, <2>1, <2>2 DEF ClaimIntent
<1>3. CASE Begin(r) \/ OpenLog(r) \/ TakeLock(r) \/ RefuseLock(r) \/ Block(r)
  BY <1>3 DEF Begin, OpenLog, TakeLock, RefuseLock, Block, Goto, Finish, RunTypeOK,
              brokerVars
<1>4. CASE CheckPrior(r) \/ Observe(r) \/ Attempt(r) \/ Submit(r) \/ LookUp(r)
  BY <1>4 DEF CheckPrior, Observe, Attempt, Submit, LookUp, Goto, Finish, RunTypeOK,
              brokerVars
<1>5. CASE SettleEnded(r) \/ ReserveIntent(r) \/ AcquireCancelLease(r) \/ SkipCancel(r)
  BY <1>5 DEF SettleEnded, ReserveIntent, AcquireCancelLease, SkipCancel, Goto, Finish,
              RunTypeOK, brokerVars
<1>6. CASE RecordResponse(r) \/ ReleaseCancelLease(r) \/ Poll(r) \/ StopPolling(r)
  BY <1>6 DEF RecordResponse, ReleaseCancelLease, Poll, StopPolling, Goto, Finish,
              RunTypeOK, brokerVars
<1>7. CASE ReleaseLock(r) \/ Report(r) \/ Interrupt(r) \/ Kill(r)
  BY <1>7 DEF ReleaseLock, Report, Interrupt, Kill, Forget, Goto, RunTypeOK, brokerVars
<1> QED
  BY <1>1, <1>2, <1>3, <1>4, <1>5, <1>6, <1>7 DEF DrillStep

LEMMA ClaimedStep ==
    ASSUME IInv, [Next]_vars
    PROVE  Claimed'
<1>1. RunTypeOK /\ CancelJournalTypeOK /\ Locked /\ Claimed
  BY DEF IInv, TypeOK
<1>2. CASE NoRunActs
  BY <1>1, <1>2 DEF NoRunActs, Claimed, runVars
<1>3. ASSUME NEW r \in Runs, DrillStep(r) PROVE Claimed'
  <2>1. cancels[Certified].state \in AttemptedCancelStates =>
            cancels'[Certified].state \in AttemptedCancelStates
    BY <1>3, RowStep
  <2>2. \A q \in Runs : q # r /\ pc'[q] = "cancelling" =>
            pc[q] = "cancelling" /\ pc[r] # "cancelling"
    BY <1>1, <1>3, OthersKeep DEF Locked, Inside
  <2>3. "reserved" \notin AttemptedCancelStates
        /\ "cancel_attempted" \in AttemptedCancelStates
    BY DEF AttemptedCancelStates, TerminalCancelStates
  <2>6. \A q \in Runs : pc'[q] \in {"responded", "raised"} => calls' > 0
    <3>1. ASSUME NEW q \in Runs, q # r, pc'[q] \in {"responded", "raised"}
          PROVE  calls > 0
      BY <1>1, <1>3, <3>1, OthersKeep DEF Claimed
    <3> QED
      BY <1>1, <1>3, <3>1, CallStep DEF Claimed
  <2>4. CASE pc[r] = "cancelling" /\ calls' = calls + 1 /\ pc'[r] # "cancelling"
    BY <1>1, <2>1, <2>2, <2>4, <2>6 DEF Claimed
  <2>5. CASE calls' = calls
    <3>1. calls' \in {0, 1}
          /\ (calls' > 0 => cancels'[Certified].state \in AttemptedCancelStates)
      BY <1>1, <2>1, <2>5 DEF Claimed
    <3>2. ASSUME NEW q \in Runs, pc'[q] = "cancelling"
          PROVE  calls' = 0 /\ cancels'[Certified].state \in AttemptedCancelStates
      <4>1. CASE pc[q] = "cancelling"
        BY <1>1, <2>1, <2>5, <4>1 DEF Claimed
      <4>2. CASE pc[q] # "cancelling"
        <5>1. q = r
          BY <2>2, <3>2, <4>2
        <5>2. cancels[Certified].state = "reserved"
              /\ cancels'[Certified].state = "cancel_attempted"
          BY <1>1, <1>3, <3>2, <4>2, <5>1, CallStep
        <5> QED
          BY <1>1, <2>3, <2>5, <5>2 DEF Claimed
      <4> QED
        BY <4>1, <4>2
    <3> QED
      BY <2>6, <3>1, <3>2 DEF Claimed
  <2> QED
    BY <1>1, <1>3, <2>4, <2>5, CallStep
<1> QED
  BY <1>2, <1>3, StepKinds

\* Whoever does not act learns nothing, and what it knows stays true.
LEMMA KnowledgeStays ==
    ASSUME IInv, [Next]_vars, NEW q \in Runs, pc'[q] = pc[q], seen'[q] = seen[q],
           response'[q] = response[q], outcome'[q] = outcome[q]
    PROVE  Knows(q)'
<1>1. /\ broker[Certified] # Absent => broker'[Certified] # Absent
      /\ broker[Certified] # Absent /\ IsFinal(broker[Certified]) =>
            broker'[Certified] = broker[Certified]
  BY BrokerForward DEF IInv
<1>2. Knows(q)
  BY DEF IInv
<1>3. CanceledAtBroker => CanceledAtBroker'
  BY <1>1 DEF CanceledAtBroker, IsFinal, FinalStatuses
<1> QED
  BY <1>1, <1>2, <1>3 DEF Knows, IsFinal

LEMMA ClassifyFinal ==
    ASSUME NEW obs, Classify(obs) = "resolved"
    PROVE  IsFinal(obs)
  BY DEF Classify, IsFinal, FinalStatuses

LEMMA KnowsActor ==
    ASSUME IInv, NEW r \in Runs, DrillStep(r)
    PROVE  Knows(r)'
<1>1. RunTypeOK /\ Knows(r) /\ TypeOK
  BY DEF IInv, TypeOK
<1>2. /\ broker[Certified] # Absent => broker'[Certified] # Absent
      /\ broker[Certified] # Absent /\ IsFinal(broker[Certified]) =>
            broker'[Certified] = broker[Certified]
  <2>1. [Next]_vars
    BY DEF Next
  <2> QED
    BY <1>1, <2>1, BrokerForward
<1>3. CanceledAtBroker => CanceledAtBroker'
  BY <1>2 DEF CanceledAtBroker, IsFinal, FinalStatuses
<1>4. Certified \in Orders /\ Absent \notin Observations
  BY DrillAssumption, BrokerAssumption
<1>5. CASE Begin(r) \/ OpenLog(r) \/ TakeLock(r) \/ RefuseLock(r) \/ Block(r)
  <2>1. pc'[r] \notin Told /\ outcome'[r] \in {outcome[r], "blocked"}
    BY <1>1, <1>5 DEF Begin, OpenLog, TakeLock, RefuseLock, Block, Goto, Finish,
                      RunTypeOK, Told
  <2>2. seen'[r] = seen[r] /\ response'[r] = response[r]
    BY <1>5 DEF Begin, OpenLog, TakeLock, RefuseLock, Block, toldVars
  <2> QED
    BY <1>1, <1>2, <1>3, <2>1, <2>2 DEF Knows, IsFinal
<1>6. CASE CheckPrior(r) \/ Observe(r) \/ Attempt(r) \/ ReleaseLock(r)
  <2>1. pc'[r] \notin Told /\ outcome'[r] = outcome[r]
    BY <1>1, <1>6 DEF CheckPrior, Observe, Attempt, ReleaseLock, Goto, RunTypeOK, Told
  <2>2. seen'[r] = seen[r] /\ response'[r] = response[r]
    BY <1>6 DEF CheckPrior, Observe, Attempt, ReleaseLock, toldVars
  <2> QED
    BY <1>1, <1>2, <1>3, <2>1, <2>2 DEF Knows, IsFinal
<1>7. CASE Submit(r)
  <2>1. outcome'[r] = outcome[r] /\ response'[r] = response[r] /\ outcome[r] \in Outcomes
    BY <1>1, <1>7 DEF Submit, RunTypeOK
  <2>2. CASE pc'[r] = "unanswered" /\ seen' = seen
    BY <1>1, <1>2, <1>3, <2>1, <2>2 DEF Knows, IsFinal, Told
  <2>3. CASE /\ broker[Certified] = Absent
             /\ \E obs \in Observations :
                   /\ broker' = [broker EXCEPT ![Certified] = obs]
                   /\ seen' = [seen EXCEPT ![r] = obs]
    <3>1. PICK obs \in Observations : broker'[Certified] = obs /\ seen'[r] = obs
      BY <1>1, <1>4, <2>3 DEF TypeOK, RunTypeOK
    <3>2. seen[r] = Absent /\ ~CanceledAtBroker
      BY <1>1, <2>3 DEF Knows, CanceledAtBroker
    <3> QED
      BY <1>1, <1>4, <2>1, <3>1, <3>2 DEF Knows
  <2> QED
    BY <1>1, <1>7, <2>2, <2>3 DEF Submit, Goto, RunTypeOK
<1>8. CASE LookUp(r)
  <2>1. response'[r] = response[r] /\ broker' = broker
    BY <1>8 DEF LookUp, brokerVars
  <2>2. CASE /\ broker[Certified] # Absent
             /\ seen' = [seen EXCEPT ![r] = broker[Certified]]
             /\ outcome' = outcome
    <3>1. seen'[r] = broker[Certified]
      BY <1>1, <2>2 DEF RunTypeOK
    <3>2. outcome[r] = "resolved" => IsFinal(broker[Certified])
      BY <1>1 DEF Knows
    <3> QED
      BY <1>1, <1>3, <2>1, <2>2, <3>1, <3>2 DEF Knows, IsFinal
  <2>3. CASE seen' = seen /\ pc[r] = "answered" /\ outcome' = outcome
    <3>1. seen[r] # Absent
      BY <1>1, <2>3 DEF Knows, Told
    <3> QED
      BY <1>1, <1>2, <1>3, <2>1, <2>3, <3>1 DEF Knows, IsFinal
  <2>4. CASE seen' = seen /\ Finish(r, "unresolved")
    <3>1. pc'[r] \notin Told /\ outcome'[r] = "unresolved"
      BY <1>1, <2>4 DEF Finish, Goto, RunTypeOK, Told
    <3> QED
      BY <1>1, <1>2, <1>3, <2>1, <2>4, <3>1 DEF Knows, IsFinal
  <2> QED
    BY <1>8, <2>2, <2>3, <2>4 DEF LookUp
<1>9. CASE SettleEnded(r) \/ StopPolling(r)
  <2>1. /\ pc[r] \in Told
        /\ Finish(r, Classify(seen[r]))
        /\ seen' = seen /\ response' = response /\ broker' = broker
    BY <1>9 DEF SettleEnded, StopPolling, toldVars, brokerVars, Told
  <2>2. pc'[r] \notin Told /\ outcome'[r] = Classify(seen[r])
    BY <1>1, <2>1 DEF Finish, Goto, RunTypeOK, Told
  <2>3. seen[r] # Absent /\ (outcome'[r] = "resolved" => IsFinal(seen[r]))
    BY <1>1, <2>1, <2>2, ClassifyFinal DEF Knows
  <2> QED
    BY <1>1, <1>3, <2>1, <2>2, <2>3 DEF Knows, IsFinal
<1>10. CASE \/ ReserveIntent(r) \/ AcquireCancelLease(r) \/ SkipCancel(r)
            \/ ClaimIntent(r) \/ RecordResponse(r) \/ ReleaseCancelLease(r)
  <2>1. pc[r] \in Told
    BY <1>10 DEF ReserveIntent, AcquireCancelLease, SkipCancel, ClaimIntent,
                 RecordResponse, ReleaseCancelLease, Told
  <2>2. seen' = seen /\ response' = response /\ outcome' = outcome
    BY <1>10 DEF ReserveIntent, AcquireCancelLease, SkipCancel, ClaimIntent,
                 RecordResponse, ReleaseCancelLease, toldVars
  <2> QED
    BY <1>1, <1>2, <1>3, <2>1, <2>2 DEF Knows, IsFinal
<1>11. CASE CallCancel(r)
  <2>1. pc[r] \in Told /\ seen' = seen /\ outcome' = outcome
    BY <1>11 DEF CallCancel, Told
  <2>2. seen[r] # Absent /\ broker'[Certified] # Absent
    BY <1>1, <1>2, <2>1 DEF Knows
  <2>3. \/ response'[r] = response[r]
        \/ response'[r] \in {"pending_cancel", broker'[Certified].status}
    BY <1>1, <1>11 DEF CallCancel, RunTypeOK
  <2>4. response'[r] \in {"canceled", "cancelled"} => CanceledAtBroker'
    BY <1>1, <1>3, <2>2, <2>3 DEF Knows, CanceledAtBroker
  <2> QED
    BY <1>1, <1>2, <2>1, <2>2, <2>4 DEF Knows, IsFinal
<1>12. CASE Poll(r)
  <2>1. /\ broker[Certified] # Absent /\ seen'[r] = broker[Certified]
        /\ broker' = broker /\ response' = response
    BY <1>1, <1>12 DEF Poll, brokerVars, RunTypeOK
  <2>2. \/ outcome'[r] = outcome[r]
        \/ outcome'[r] = Classify(broker[Certified])
    BY <1>1, <1>12 DEF Poll, Finish, RunTypeOK
  <2>3. outcome'[r] = "resolved" => IsFinal(broker[Certified])
    BY <1>1, <2>2, ClassifyFinal DEF Knows
  <2> QED
    BY <1>1, <1>3, <2>1, <2>3 DEF Knows, IsFinal
<1>13. CASE Report(r) \/ Interrupt(r) \/ Kill(r)
  <2>1. Forget(r)
    BY <1>13 DEF Report, Interrupt, Kill
  <2>2. /\ pc'[r] = "idle" /\ seen'[r] = Absent
        /\ response'[r] = "held" /\ outcome'[r] = "none"
    BY <1>1, <2>1 DEF Forget, Goto, RunTypeOK
  <2> QED
    BY <2>2 DEF Knows, Told
<1> QED
  BY <1>5, <1>6, <1>7, <1>8, <1>9, <1>10, <1>11, <1>12, <1>13 DEF DrillStep

LEMMA KnowsStep ==
    ASSUME IInv, [Next]_vars, NEW q \in Runs
    PROVE  Knows(q)'
<1>1. CASE NoRunActs
  BY <1>1, KnowledgeStays DEF NoRunActs, runVars, toldVars
<1>2. ASSUME NEW r \in Runs, DrillStep(r) PROVE Knows(q)'
  BY <1>2, OthersKeep, KnowledgeStays, KnowsActor DEF IInv, TypeOK
<1> QED
  BY <1>1, <1>2, StepKinds

LEMMA RecordedStep ==
    ASSUME IInv, [Next]_vars
    PROVE  Recorded'
<1>1. RunTypeOK /\ Recorded
  BY DEF IInv, TypeOK
<1>2. /\ broker[Certified] # Absent => broker'[Certified] # Absent
      /\ broker[Certified] # Absent /\ IsFinal(broker[Certified]) =>
            broker'[Certified] = broker[Certified]
  BY BrokerForward DEF IInv
<1>3. CanceledAtBroker => CanceledAtBroker'
  BY <1>2 DEF CanceledAtBroker, IsFinal, FinalStatuses
<1>4. CASE NoRunActs
  BY <1>1, <1>2, <1>3, <1>4 DEF NoRunActs, Recorded, fileVars, IsFinal
<1>5. ASSUME NEW r \in Runs, DrillStep(r) PROVE Recorded'
  <2>1. cancels'[Certified].state = "canceled" => CanceledAtBroker'
    BY <1>1, <1>3, <1>5, RowStep DEF Recorded
  <2>2. CASE Report(r)
    <3>1. /\ latest'.outcome = outcome[r] /\ latest'.final = seen[r]
          /\ broker' = broker
      BY <2>2 DEF Report, brokerVars
    <3>2. Knows(r)
      BY DEF IInv
    <3> QED
      BY <2>1, <3>1, <3>2 DEF Knows, Recorded, IsFinal
  <2>3. CASE latest' = latest
    BY <1>1, <1>2, <2>1, <2>3 DEF Recorded, IsFinal
  <2>4. Report(r) \/ latest' = latest
    BY <1>5 DEF DrillStep, Begin, OpenLog, TakeLock, RefuseLock, Block, CheckPrior,
                Observe, Attempt, Submit, LookUp, SettleEnded, ReserveIntent,
                AcquireCancelLease, SkipCancel, ClaimIntent, CallCancel,
                RecordResponse, ReleaseCancelLease, Poll, StopPolling, ReleaseLock,
                Interrupt, Kill, fileVars
  <2> QED
    BY <2>2, <2>3, <2>4
<1> QED
  BY <1>4, <1>5, StepKinds

\* The order comes to exist at the broker by a submit, and in no other way.
LEMMA OrderOrigin ==
    ASSUME [Next]_vars, broker'[Certified] # Absent, broker[Certified] = Absent
    PROVE  \E r \in Runs : Submit(r)
<1>1. ~BrokerMoves(Certified) /\ broker' # broker
  BY DEF BrokerMoves
<1>2. ASSUME NEW r \in Runs, DrillStep(r) PROVE Submit(r)
  <2>1. CallCancel(r) => BrokerMoves(Certified) \/ broker' = broker
    BY DEF CallCancel
  <2>2. Submit(r) \/ CallCancel(r) \/ broker' = broker
    BY <1>2 DEF DrillStep, Begin, OpenLog, TakeLock, RefuseLock, Block, CheckPrior,
                Observe, Attempt, LookUp, SettleEnded, ReserveIntent,
                AcquireCancelLease, SkipCancel, ClaimIntent, RecordResponse,
                ReleaseCancelLease, Poll, StopPolling, ReleaseLock, Report,
                Interrupt, Kill, brokerVars
  <2> QED
    BY <1>1, <2>1, <2>2
<1>3. ~BrokerEvolves /\ ~ClockTicks /\ ~UNCHANGED vars
  BY <1>1 DEF BrokerEvolves, ClockTicks, vars, brokerVars
<1> QED
  BY <1>2, <1>3 DEF Next

\* A run plans from its own listing, and goes on from a plan only to its submit.
LEMMA PlanStep ==
    ASSUME RunTypeOK, NEW r \in Runs, DrillStep(r),
           pc'[r] \in {"planning", "attempted"}, broker[Certified] # Absent
    PROVE  missed'[r] \/ (pc[r] = "planning" /\ missed'[r] = missed[r])
<1>1. CASE Observe(r)
  <2>1. /\ missed' = [missed EXCEPT ![r] = Absent # broker[Certified]]
    BY <1>1 DEF Observe, Goto, RunTypeOK
  <2> QED
    BY <2>1 DEF RunTypeOK
<1>2. CASE Attempt(r)
  BY <1>2 DEF Attempt, foundVars
<1>3. CASE Begin(r) \/ OpenLog(r) \/ TakeLock(r) \/ RefuseLock(r) \/ Block(r)
  BY <1>3 DEF Begin, OpenLog, TakeLock, RefuseLock, Block, Goto, Finish, RunTypeOK
<1>4. CASE CheckPrior(r) \/ Submit(r) \/ LookUp(r) \/ SettleEnded(r)
  BY <1>4 DEF CheckPrior, Submit, LookUp, SettleEnded, Goto, Finish, RunTypeOK
<1>5. CASE \/ ReserveIntent(r) \/ AcquireCancelLease(r) \/ SkipCancel(r)
           \/ ClaimIntent(r) \/ CallCancel(r) \/ RecordResponse(r)
  BY <1>5 DEF ReserveIntent, AcquireCancelLease, SkipCancel, ClaimIntent, CallCancel,
              RecordResponse, Goto, RunTypeOK
<1>6. CASE \/ ReleaseCancelLease(r) \/ Poll(r) \/ StopPolling(r) \/ ReleaseLock(r)
           \/ Report(r) \/ Interrupt(r) \/ Kill(r)
  BY <1>6 DEF ReleaseCancelLease, Poll, StopPolling, ReleaseLock, Report, Interrupt,
              Kill, Forget, Goto, Finish, RunTypeOK
<1> QED
  BY <1>1, <1>2, <1>3, <1>4, <1>5, <1>6 DEF DrillStep

LEMMA UnlistedStep ==
    ASSUME IInv, [Next]_vars
    PROVE  ResubmitsOnlyUnlisted'
<1>1. RunTypeOK /\ Locked /\ ResubmitsOnlyUnlisted
  BY DEF IInv, TypeOK
<1> SUFFICES ASSUME NEW q \in Runs, pc'[q] \in {"planning", "attempted"},
                    broker'[Certified] # Absent
             PROVE  missed'[q]
  BY DEF ResubmitsOnlyUnlisted
<1>2. CASE NoRunActs
  <2>1. pc' = pc /\ missed' = missed /\ ~\E r \in Runs : Submit(r)
    BY <1>1, <1>2 DEF NoRunActs, runVars, foundVars, Submit, Goto, RunTypeOK
  <2>2. broker[Certified] # Absent
    BY <2>1, OrderOrigin
  <2> QED
    BY <1>1, <2>1, <2>2 DEF ResubmitsOnlyUnlisted
<1>3. ASSUME NEW r \in Runs, DrillStep(r) PROVE missed'[q]
  <2>1. CASE broker[Certified] = Absent
    \* The order is being submitted, by the one run that is inside.
    <3>1. PICK p \in Runs : Submit(p)
      BY <2>1, OrderOrigin
    <3>2. /\ pc[p] = "attempted"
          /\ pc' = [pc EXCEPT ![p] = pc'[p]]
          /\ pc'[p] \in {"answered", "unanswered"}
      BY <1>1, <3>1 DEF Submit, Goto, RunTypeOK
    <3>3. q # p /\ pc[q] \in Inside /\ pc[p] \in Inside
      BY <1>1, <3>2 DEF Inside, RunTypeOK
    <3> QED
      BY <1>1, <3>3 DEF Locked
  <2>2. CASE broker[Certified] # Absent /\ q = r
    BY <1>1, <1>3, <2>2, PlanStep DEF ResubmitsOnlyUnlisted
  <2>3. CASE broker[Certified] # Absent /\ q # r
    BY <1>1, <1>3, <2>3, OthersKeep DEF ResubmitsOnlyUnlisted
  <2> QED
    BY <2>1, <2>2, <2>3
<1> QED
  BY <1>2, <1>3, StepKinds

LEMMA DrillInductive == IInv /\ [Next]_vars => IInv'
<1> SUFFICES ASSUME IInv, [Next]_vars PROVE IInv'
  OBVIOUS
<1>1. TypeOK' /\ Locked' /\ Claimed' /\ Recorded' /\ ResubmitsOnlyUnlisted'
  BY TypeStep, LockedStep, ClaimedStep, RecordedStep, UnlistedStep
<1>2. \A q \in Runs : Knows(q)'
  BY KnowsStep
<1> QED
  BY <1>1, <1>2 DEF IInv

LEMMA DrillInvariant == Spec => []IInv
  BY DrillInit, DrillInductive, PTL DEF Spec

-----------------------------------------------------------------------------
(* The theorems.                                                           *)

\* run_paper_certification_drill: every reachable state has its declared types;
\* an outcome is one of the kinds a report can name, and no cancel row has a
\* state its enumeration lacks.
THEOREM DrillTyped == Spec => []TypeOK
<1>1. IInv => TypeOK
  BY DEF IInv
<1> QED
  BY <1>1, DrillInvariant, PTL

\* MutationProcessLock: two runs are never between taking the lock and giving it
\* up, whoever was refused, killed or interrupted in the meantime.
THEOREM DrillOneInside == Spec => []OneInside
<1>1. IInv => OneInside
  BY DEF IInv, Locked, OneInside
<1> QED
  BY <1>1, DrillInvariant, PTL

\* _observe_pre_mutation_state and the lock: whichever run erased the log, a submit is
\* repeated while the broker has the order only if the broker's own listing left the
\* order out; between the listing and the submit nobody else creates it.
THEOREM DrillResubmits == Spec => []ResubmitsOnlyUnlisted
<1>1. IInv => ResubmitsOnlyUnlisted
  BY DEF IInv
<1> QED
  BY <1>1, DrillInvariant, PTL

\* _cancel_and_reconcile: however many runs are started on one directory, the
\* broker's cancel is called at most once for the drill's order.
THEOREM DrillCancelsOnce == Spec => []AtMostOneCancel
<1>1. IInv => AtMostOneCancel
  BY DEF IInv, Claimed, AtMostOneCancel
<1> QED
  BY <1>1, DrillInvariant, PTL

\* A cancel that was called left a row that says it was attempted, for good.
THEOREM DrillCancelEvidence == Spec => []CancelLeavesEvidence
<1>1. IInv => CancelLeavesEvidence
  BY DEF IInv, Claimed, CancelLeavesEvidence
<1> QED
  BY <1>1, DrillInvariant, PTL

\* A report that an order ended names how it ended at the broker, and stays true
\* though other runs go on and the report is written outside the lock.
THEOREM DrillReportTrue == Spec => []ReportIsTrue
<1>1. IInv => ReportIsTrue
  BY DEF IInv, Recorded, ReportIsTrue
<1> QED
  BY <1>1, DrillInvariant, PTL

\* A cancel row that says canceled is of an order the broker canceled, whichever
\* of the answer to the cancel and a later lookup was recorded.
THEOREM DrillCanceledTrue == Spec => []CanceledRowIsTrue
<1>1. IInv => CanceledRowIsTrue
  BY DEF IInv, Recorded, CanceledAtBroker, CanceledRowIsTrue
<1> QED
  BY <1>1, DrillInvariant, PTL

-----------------------------------------------------------------------------
(* Refinement of OneShotCancel.                                            *)

LEMMA DrillOneShotInit == Init => OneShot!Init
<1> SUFFICES ASSUME Init PROVE OneShot!Init
  OBVIOUS
<1>1. cancels[Certified].state = "none" /\ broker[Certified] = Absent
  BY DrillAssumption DEF Init, NoCancel, NothingSeen
<1>2. Attempted = {} /\ Known = {} /\ Canceled = {}
  BY <1>1 DEF Attempted, Known, Canceled, AttemptedCancelStates, TerminalCancelStates
<1> QED
  BY <1>2 DEF Init, OneShot!Init, Calls

\* Only the steps that record write the row, and they do not reach the broker.
LEMMA WritesOrCalls ==
    ASSUME [Next]_vars
    PROVE  \/ /\ UNCHANGED brokerVars
              /\ cancels' = cancels \/ \E r \in Runs : DrillStep(r)
           \/ UNCHANGED cancels /\ \E r \in Runs : CallCancel(r)
           \/ UNCHANGED <<cancels, calls>>
<1>1. ASSUME NEW r \in Runs, Submit(r) PROVE UNCHANGED <<cancels, calls>>
  BY <1>1 DEF Submit, journalVars
<1>2. ASSUME NEW r \in Runs, CallCancel(r) PROVE UNCHANGED cancels
  BY <1>2 DEF CallCancel, journalVars
<1>3. ASSUME NEW r \in Runs, DrillStep(r), ~Submit(r), ~CallCancel(r)
      PROVE  UNCHANGED brokerVars
  BY <1>3 DEF DrillStep, Begin, OpenLog, TakeLock, RefuseLock, Block, CheckPrior,
              Observe, Attempt, LookUp, SettleEnded, ReserveIntent,
              AcquireCancelLease, SkipCancel, ClaimIntent, RecordResponse,
              ReleaseCancelLease, Poll, StopPolling, ReleaseLock, Report,
              Interrupt, Kill
<1>4. CASE BrokerEvolves \/ ClockTicks \/ UNCHANGED vars
  BY <1>4 DEF BrokerEvolves, ClockTicks, vars, journalVars, brokerVars
<1> QED
  BY <1>1, <1>2, <1>3, <1>4 DEF Next

\* A claim that commits is the abstract Attempt, the call to the broker Call, and
\* the answer and the end of the order, when they are recorded, Learn or Unlearn.
LEMMA DrillOneShotStep == IInv /\ [Next]_vars => [OneShot!Next]_OneShot!vars
<1> SUFFICES ASSUME IInv, [Next]_vars
             PROVE  [OneShot!Next]_OneShot!vars
  OBVIOUS
<1> DEFINE before == cancels[Certified].state
           after == cancels'[Certified].state
<1> USE DEF OneShot!Next, OneShot!vars
<1>1. Canceled' \in {Canceled, Canceled \cup {Certified}}
  <2>1. Certified \in Canceled => Certified \in Canceled'
    BY BrokerForward DEF IInv, Canceled, IsFinal, FinalStatuses
  <2> QED
    BY <2>1 DEF Canceled
<1>2. CASE UNCHANGED <<cancels, calls>>
  <2>1. UNCHANGED <<Attempted, Known, Calls>>
    BY <1>2 DEF Attempted, Known, Calls
  <2>2. OneShot!Cancel(Certified) \/ UNCHANGED OneShot!vars
    BY <1>1, <2>1 DEF OneShot!Cancel, Attempted, Canceled, Known, Calls
  <2> QED
    BY <2>2
<1>3. ASSUME NEW r \in Runs, CallCancel(r), UNCHANGED cancels
      PROVE  OneShot!Next
  <2>1. Certified \in Attempted /\ calls = 0 /\ calls' = 1
    BY <1>3 DEF CallCancel, IInv, Claimed, Attempted
  <2>2. UNCHANGED <<Attempted, Known>>
    BY <1>3 DEF Attempted, Known
  <2>3. Calls[Certified] = 0 /\ Calls' = [Calls EXCEPT ![Certified] = 1]
    BY <2>1 DEF Calls
  <2>4. OneShot!Call(Certified)
    BY <1>1, <2>1, <2>2, <2>3 DEF OneShot!Call, Attempted, Canceled, Known, Calls
  <2> QED
    BY <2>4
<1>4. ASSUME NEW r \in Runs, DrillStep(r), UNCHANGED brokerVars
      PROVE  [OneShot!Next]_OneShot!vars
  <2>1. UNCHANGED <<Canceled, Calls>>
    BY <1>4 DEF brokerVars, Canceled, Calls
  <2>2. /\ before \in AttemptedCancelStates => after \in AttemptedCancelStates
        /\ after = "canceled" => before = "canceled" \/ CanceledAtBroker
        /\ before \notin AttemptedCancelStates =>
              after \notin AttemptedCancelStates \/ after = "cancel_attempted"
    BY <1>4, RowStep
  <2>3. "canceled" \in AttemptedCancelStates /\ "cancel_attempted" \in AttemptedCancelStates
    BY DEF AttemptedCancelStates, TerminalCancelStates
  <2>4. CASE before \notin AttemptedCancelStates /\ after \in AttemptedCancelStates
    <3>1. UNCHANGED Known
      BY <2>2, <2>3, <2>4 DEF Known
    <3>2. Certified \notin Attempted /\ Attempted' = Attempted \cup {Certified}
      BY <2>4 DEF Attempted
    <3>3. OneShot!Attempt(Certified)
      BY <2>1, <3>1, <3>2 DEF OneShot!Attempt, Attempted, Canceled, Known, Calls
    <3> QED
      BY <3>3
  <2>5. CASE before \notin AttemptedCancelStates /\ after \notin AttemptedCancelStates
    <3>1. UNCHANGED <<Attempted, Known>>
      BY <2>3, <2>5 DEF Attempted, Known
    <3> QED
      BY <2>1, <3>1 DEF Attempted, Canceled, Known, Calls
  <2>6. CASE before \in AttemptedCancelStates
    <3>1. UNCHANGED Attempted /\ Certified \in Attempted
      BY <2>2, <2>6 DEF Attempted
    <3>2. CASE after = "canceled"
      <4>1. before = "canceled" \/ Certified \in Canceled
        BY <2>2, <3>2 DEF CanceledAtBroker, Canceled
      <4>2. Known' = Known \cup {Certified}
        BY <3>2 DEF Known
      <4>3. CASE Certified \in Canceled
        <5>1. OneShot!Learn(Certified)
          BY <2>1, <3>1, <4>2, <4>3
          DEF OneShot!Learn, Attempted, Canceled, Known, Calls
        <5> QED
          BY <5>1
      <4>4. CASE before = "canceled"
        <5>1. UNCHANGED Known
          BY <3>2, <4>4 DEF Known
        <5> QED
          BY <2>1, <3>1, <5>1 DEF Attempted, Canceled, Known, Calls
      <4> QED
        BY <4>1, <4>3, <4>4
    <3>3. CASE after # "canceled"
      <4>1. Known' = Known \ {Certified}
        BY <3>3 DEF Known
      <4>2. OneShot!Unlearn(Certified)
        BY <2>1, <3>1, <4>1 DEF OneShot!Unlearn, Attempted, Canceled, Known, Calls
      <4> QED
        BY <4>2
    <3> QED
      BY <3>2, <3>3
  <2> QED
    BY <2>4, <2>5, <2>6
<1>5. CASE UNCHANGED brokerVars /\ cancels' = cancels
  BY <1>2, <1>5 DEF brokerVars
<1> QED
  BY <1>2, <1>3, <1>4, <1>5, WritesOrCalls

\* Runs that share a directory and a broker, are killed and repeated, do to the
\* drill's order what OneShotCancel says and nothing else.
THEOREM DrillRefinement == Spec => ImplementsOneShotCancel
  BY DrillOneShotInit, DrillOneShotStep, DrillInvariant, PTL
  DEF Spec, ImplementsOneShotCancel, OneShot!Spec
=============================================================================
