------------------------ MODULE DurableSubmitSafety ------------------------
(***************************************************************************)
(* The safety invariants of DurableSubmit and its refinement of            *)
(* SerialSubmission, proved for every value of the constants.              *)
(***************************************************************************)
EXTENDS DurableSubmitProofs

\* What the journal knows of the orders that reached, or may reach, the broker.
\* A run about to call the broker owns a claimed row nobody submitted yet.
Evidence ==
    /\ ClaimPrecedesCall
    /\ \A o \in Orders : broker[o] # Absent => calls[o] > 0
    /\ \A r \in Runs : pc[r] = "claimed" =>
          /\ journal[OrderOf[plan[r]]].state \in AttemptedStates
          /\ journal[OrderOf[plan[r]]].run = r
          /\ calls[OrderOf[plan[r]]] = 0

\* No process holds an answer the broker did not give, and a final one is still
\* what the broker would say: an old final answer cannot mislead the journal.
Answers ==
    \A p \in Processes, o \in Orders : snap[p][o] # Absent =>
        /\ broker[o] # Absent
        /\ IsFinal(snap[p][o]) => broker[o] = snap[p][o]

\* A row, or an answer a process holds, that speaks of a fill is backed by a fill
\* the order still has at the broker.
FilledStates == {"partially_filled", "filled"}

Fills ==
    /\ \A o \in Orders : journal[o].state \in FilledStates =>
          broker[o] # Absent /\ broker[o].filled
    /\ \A p \in Processes, o \in Orders :
          snap[p][o] # Absent /\ snap[p][o].filled => broker[o].filled

\* A claim commits only while trading is allowed.
Halted ==
    /\ TradingAllowed => haltedCalls = 0
    /\ \A r \in Runs : pc[r] = "claimed" => haltedCalls = 0
    /\ HaltBoundsExposure

\* Claims never carry a generation the lease has not reached yet.
Fenced ==
    /\ \A o \in Orders : journal[o].generation <= lease.generation
    /\ \A o \in Orders : journal[o].state = "none" => journal[o].generation = 0

IInv == /\ TypeOK /\ Discipline
        /\ Evidence /\ Answers
        /\ AtMostOneSubmit /\ TerminalRowIsTrue /\ OneOutstanding
        /\ Halted /\ Fenced /\ Fills

-----------------------------------------------------------------------------
(* What each journal transaction does to the rows.                         *)

LEMMA ReserveEffect ==
    ASSUME JournalTypeOK, NEW o \in Orders, NEW p \in Plans, NEW r \in Owners,
           Reserve(o, p, r)
    PROVE  /\ journal'[o].state = "reserved" /\ journal'[o].generation = 0
           /\ \A other \in Orders \ {o} : journal'[other] = journal[other]
  BY DEF JournalTypeOK, Reserve

LEMMA ClaimEffect ==
    ASSUME JournalTypeOK, NEW o \in Orders, NEW c \in Credentials, Claim(o, c)
    PROVE  /\ journal'[o].state = "submit_attempted"
           /\ journal'[o].run = journal[o].run
           /\ journal'[o].generation = c.generation
           /\ \A other \in Orders \ {o} : journal'[other] = journal[other]
  BY DEF JournalTypeOK, OrderRow, Claim

LEMMA AmbiguousEffect ==
    ASSUME JournalTypeOK, NEW o \in Orders, MarkSubmitAmbiguous(o)
    PROVE  \A x \in Orders :
              /\ journal'[x].run = journal[x].run
              /\ journal'[x].generation = journal[x].generation
              /\ \/ journal'[x].state = journal[x].state
                 \/ /\ journal[x].state \in {"submit_attempted", "unknown"}
                    /\ journal'[x].state = "unknown"
  BY DEF JournalTypeOK, OrderRow, MarkSubmitAmbiguous

LEMMA WriteEffect ==
    ASSUME JournalTypeOK, NEW o \in Orders, NEW obs \in Observations,
           WriteObservation(o, obs)
    PROVE  /\ journal'[o].state = StateFromBrokerStatus(obs)
           /\ journal'[o].run = journal[o].run
           /\ journal'[o].generation = journal[o].generation
           /\ \A other \in Orders \ {o} : journal'[other] = journal[other]
  BY DEF JournalTypeOK, OrderRow, WriteObservation

\* An observation about to be written is of an order that reached the broker.
LEMMA CheckedIsEvidenced ==
    ASSUME TypeOK, Discipline, Evidence, Answers, NEW p \in Processes,
           checked[p] # NoOrder
    PROVE  LET o == checked[p] IN
           /\ o \in Orders /\ snap[p][o] \in Observations
           /\ broker[o] # Absent /\ calls[o] > 0
           /\ journal[o].state \in AttemptedStates
           /\ StateFromBrokerStatus(snap[p][o]) \in AttemptedStates
           /\ StateFromBrokerStatus(snap[p][o]) \in TerminalStates =>
                 /\ broker[o] = snap[p][o]
                 /\ IsFinal(broker[o])
<1> DEFINE o == checked[p]
<1>1. o \in Orders /\ snap[p][o] # Absent
  BY DEF TypeOK, Discipline
<1>2. snap[p][o] \in Observations
  BY <1>1 DEF TypeOK
<1>3. broker[o] # Absent /\ calls[o] > 0 /\ journal[o].state \in AttemptedStates
  BY <1>1 DEF Answers, Evidence, ClaimPrecedesCall
<1>4. /\ StateFromBrokerStatus(snap[p][o]) \in AttemptedStates
      /\ StateFromBrokerStatus(snap[p][o]) \in TerminalStates => IsFinal(snap[p][o])
  BY <1>2, ObservationAssumption, StatusMapping
<1> QED
  BY <1>1, <1>2, <1>3, <1>4 DEF Answers

-----------------------------------------------------------------------------
(* The steps that touch the journal or the broker, and all the others.     *)

Quiet == /\ UNCHANGED <<journal, broker, calls>>
         /\ \A r \in Runs : pc'[r] = "claimed" => pc[r] = "claimed" /\ plan'[r] = plan[r]

LEMMA StepCases ==
    ASSUME TypeOK, [Next]_vars
    PROVE  \/ Quiet
           \/ \E r \in Runs : ReserveOrder(r) \/ ClaimOrder(r) \/ CallBroker(r)
                              \/ MarkAmbiguous(r)
           \/ \E p \in Processes : WriteChecked(p)
           \/ \E o \in Orders : BrokerEvolves(o)
<1> USE DEF leaseVars, controlVars, runVars, recordVars, brokerVars, Goto, Quiet
<1>a. Operators \subseteq Processes /\ Runs \subseteq Processes
  BY DEF Processes
<1> USE <1>a, ProcessAssumption, BrokerAssumption
<1>1. ASSUME NEW r \in Runs,
             \/ Start(r) \/ AcquireLease(r) \/ ObserveAndPlan(r) \/ ListUnresolved(r)
             \/ WriteFails(r) \/ Prepare(r) \/ BlockCycle(r) \/ ObserveAgain(r)
             \/ Release(r) \/ Crash(r)
      PROVE  Quiet
  <2>1. \E phase \in RunPhases \ {"claimed"} : pc' = [pc EXCEPT ![r] = phase] \/ UNCHANGED pc
    BY <1>1
    DEF Start, AcquireLease, ObserveAndPlan, ListUnresolved, WriteFails, Prepare,
        BlockCycle, ObserveAgain, Release, Crash, Forget, ObservationRefused,
        RunPhases
  <2>2. UNCHANGED <<journal, broker, calls>>
    BY <1>1
    DEF Start, AcquireLease, ObserveAndPlan, ListUnresolved, WriteFails, Prepare,
        BlockCycle, ObserveAgain, Release, Crash
  <2>3. \A q \in Runs : q # r => plan'[q] = plan[q]
    BY <1>1
    DEF Start, AcquireLease, ObserveAndPlan, ListUnresolved, WriteFails, Prepare,
        BlockCycle, ObserveAgain, Release, Crash, Forget, TypeOK
  <2>4. pc'[r] # "claimed" \/ (UNCHANGED pc /\ WriteFails(r))
    BY <1>1, <2>1
    DEF Start, AcquireLease, ObserveAndPlan, ListUnresolved, Prepare,
        BlockCycle, ObserveAgain, Release, Crash, Forget, TypeOK
  <2>5. WriteFails(r) => UNCHANGED plan
    BY DEF WriteFails
  <2> QED
    BY <2>1, <2>2, <2>3, <2>4, <2>5 DEF TypeOK
<1>2. ASSUME NEW p \in Processes, CheckObservation(p) \/ FinishRecording(p)
      PROVE  Quiet
  BY <1>2 DEF CheckObservation, FinishRecording, ObservationRefused, Recording, TypeOK
<1>3. ASSUME NEW c \in Operators, LoadSnapshot(c) \/ ReadRecords(c)
      PROVE  Quiet
  BY <1>3 DEF LoadSnapshot, ReadRecords, TypeOK
<1>4. CASE ControlChanges \/ ClockTicks \/ UNCHANGED vars
  BY <1>4 DEF ControlChanges, ClockTicks, vars
<1> QED
  BY <1>1, <1>2, <1>3, <1>4 DEF Next, RunStep, OperatorStep, Record

-----------------------------------------------------------------------------
(* Evidence, and with it AtMostOneSubmit.                                  *)

\* A run between its plan and its broker call has an order.
LEMMA PlannedOrder ==
    ASSUME TypeOK, Discipline, NEW r \in Runs, pc[r] \in Planned
    PROVE  plan[r] \in Plans /\ OrderOf[plan[r]] \in Orders
  BY PlanAssumption DEF TypeOK, Discipline

LEMMA EvidenceStep ==
    ASSUME TypeOK, Discipline, Evidence, Answers, [Next]_vars
    PROVE  Evidence'
<1> USE DEF Evidence, ClaimPrecedesCall
<1>a. \A r \in Runs : pc[r] = "claimed" => OrderOf[plan[r]] \in Orders
  BY PlannedOrder DEF Planned
<1>b. Runs \subseteq Processes
  BY DEF Processes
<1> USE <1>a, <1>b
<1>1. CASE Quiet
  BY <1>1 DEF Quiet
<1>2. ASSUME NEW r \in Runs, ReserveOrder(r)
      PROVE  Evidence'
  <2>1. CASE UNCHANGED journal
    BY <1>2, <2>1 DEF ReserveOrder, Goto, TypeOK, brokerVars
  <2>2. CASE /\ ReserveAdmitted(OrderOf[plan[r]])
             /\ Reserve(OrderOf[plan[r]], plan[r], r)
    <3>1. PICK o \in Orders : o = OrderOf[plan[r]] /\ plan[r] \in Plans
      BY <1>2, PlannedOrder DEF ReserveOrder, Planned
    <3>2. journal[o].state \notin AttemptedStates
      BY <2>2, <3>1 DEF ReserveAdmitted, AttemptedStates, TerminalStates
    <3>3. \A other \in Orders \ {o} : journal'[other] = journal[other]
      BY <2>2, <3>1, ReserveEffect DEF TypeOK, Runs
    <3>4. /\ UNCHANGED <<broker, calls, plan>>
          /\ \A q \in Runs : pc'[q] = "claimed" => pc[q] = "claimed"
      BY <1>2 DEF ReserveOrder, Goto, TypeOK, brokerVars
    <3> QED
      BY <3>2, <3>3, <3>4 DEF TypeOK
  <2> QED
    BY <1>2, <2>1, <2>2 DEF ReserveOrder
<1>3. ASSUME NEW r \in Runs, ClaimOrder(r)
      PROVE  Evidence'
  <2>1. CASE UNCHANGED journal /\ Goto(r, "releasing")
    BY <1>3, <2>1 DEF ClaimOrder, Goto, TypeOK, brokerVars
  <2>2. CASE /\ ClaimAdmitted(OrderOf[plan[r]], plan[r], r, cred[r], ts[r])
             /\ Claim(OrderOf[plan[r]], cred[r]) /\ Goto(r, "claimed")
    <3>1. PICK o \in Orders : o = OrderOf[plan[r]]
      BY <1>3, PlannedOrder DEF ClaimOrder, Planned
    <3>2. journal[o].state = "reserved" /\ journal[o].run = r
      BY <2>2, <3>1 DEF ClaimAdmitted
    <3>3. /\ journal'[o].state \in AttemptedStates /\ journal'[o].run = r
          /\ \A other \in Orders \ {o} : journal'[other] = journal[other]
      BY <2>2, <3>1, <3>2, ClaimEffect DEF TypeOK, AttemptedStates
    <3>4. calls[o] = 0
      BY <3>2 DEF TypeOK, AttemptedStates, TerminalStates
    <3>5. /\ UNCHANGED <<broker, calls, plan>>
          /\ \A q \in Runs \ {r} : pc'[q] = pc[q]
      BY <1>3, <2>2 DEF ClaimOrder, Goto, TypeOK, brokerVars
    <3>6. \A q \in Runs \ {r} : pc[q] = "claimed" => OrderOf[plan[q]] # o
      BY <3>2 DEF AttemptedStates, TerminalStates
    <3> QED
      BY <3>1, <3>3, <3>4, <3>5, <3>6
  <2> QED
    BY <1>3, <2>1, <2>2 DEF ClaimOrder
<1>4. ASSUME NEW r \in Runs, CallBroker(r)
      PROVE  Evidence'
  <2>1. PICK o \in Orders : o = OrderOf[plan[r]]
    BY <1>4 DEF CallBroker
  <2>2. /\ UNCHANGED <<journal, plan>>
        /\ calls'[o] > 0
        /\ \A other \in Orders \ {o} : /\ calls'[other] = calls[other]
                                        /\ broker'[other] = broker[other]
        /\ \A q \in Runs : pc'[q] = "claimed" => pc[q] = "claimed" /\ q # r
    BY <1>4, <2>1 DEF CallBroker, TypeOK, Goto
  <2>3. journal[o].run = r /\ journal[o].state \in AttemptedStates
    BY <1>4, <2>1 DEF CallBroker
  <2>4. \A q \in Runs \ {r} : pc[q] = "claimed" => OrderOf[plan[q]] # o
    BY <2>3
  <2> QED
    BY <2>2, <2>3, <2>4
<1>5. ASSUME NEW r \in Runs, MarkAmbiguous(r)
      PROVE  Evidence'
  <2>1. PICK o \in Orders : o = OrderOf[plan[r]]
    BY <1>5, PlannedOrder DEF MarkAmbiguous, Planned
  <2>2. \A x \in Orders :
           /\ journal'[x].run = journal[x].run
           /\ journal[x].state \in AttemptedStates => journal'[x].state \in AttemptedStates
    BY <1>5, <2>1, AmbiguousEffect DEF MarkAmbiguous, TypeOK, AttemptedStates
  <2>3. /\ UNCHANGED <<broker, calls, plan>>
        /\ \A q \in Runs : pc'[q] = "claimed" => pc[q] = "claimed"
    BY <1>5 DEF MarkAmbiguous, Goto, TypeOK, brokerVars
  <2> QED
    BY <2>2, <2>3
<1>6. ASSUME NEW p \in Processes, WriteChecked(p)
      PROVE  Evidence'
  <2>1. PICK o \in Orders : /\ o = checked[p]
                            /\ WriteObservation(o, snap[p][o])
                            /\ snap[p][o] \in Observations /\ calls[o] > 0
                            /\ StateFromBrokerStatus(snap[p][o]) \in AttemptedStates
    BY <1>6, CheckedIsEvidenced DEF WriteChecked
  <2>2. /\ journal'[o].state \in AttemptedStates
        /\ journal'[o].run = journal[o].run
        /\ \A other \in Orders \ {o} : journal'[other] = journal[other]
    BY <2>1, WriteEffect DEF TypeOK
  <2>3. UNCHANGED <<broker, calls, plan, pc>>
    BY <1>6 DEF WriteChecked, runVars, brokerVars
  <2> QED
    BY <2>1, <2>2, <2>3
<1>7. ASSUME NEW o \in Orders, BrokerEvolves(o)
      PROVE  Evidence'
  BY <1>7 DEF BrokerEvolves, BrokerMoves, runVars, TypeOK
<1> QED
  BY <1>1, <1>2, <1>3, <1>4, <1>5, <1>6, <1>7, StepCases

LEMMA AtMostOneStep ==
    ASSUME TypeOK, Discipline, Evidence, AtMostOneSubmit, [Next]_vars
    PROVE  AtMostOneSubmit'
<1>1. CASE UNCHANGED calls
  BY <1>1 DEF AtMostOneSubmit
<1>2. ASSUME NEW r \in Runs, CallBroker(r)
      PROVE  AtMostOneSubmit'
  <2>1. calls[OrderOf[plan[r]]] = 0
    BY <1>2 DEF CallBroker, Evidence
  <2> QED
    BY <1>2, <2>1 DEF CallBroker, AtMostOneSubmit, TypeOK
<1> QED
  BY <1>1, <1>2, StepCases
  DEF Quiet, ReserveOrder, ClaimOrder, MarkAmbiguous, WriteChecked, BrokerEvolves, BrokerMoves,
      brokerVars

-----------------------------------------------------------------------------
(* Answers: the broker's orders only move forward.                         *)

\* An order that is there stays there with its fills, and a final one stays as it
\* is.
LEMMA BrokerForward ==
    ASSUME TypeOK, [Next]_vars
    PROVE  \A o \in Orders : broker[o] # Absent =>
              /\ broker'[o] # Absent
              /\ broker[o].filled => broker'[o].filled
              /\ IsFinal(broker[o]) => broker'[o] = broker[o]
<1>1. CASE UNCHANGED broker
  BY <1>1
<1>2. ASSUME NEW r \in Runs, CallBroker(r)
      PROVE  \A o \in Orders : broker[o] # Absent => broker'[o] = broker[o]
  BY <1>2 DEF CallBroker, TypeOK
<1>3. ASSUME NEW o \in Orders, BrokerEvolves(o)
      PROVE  /\ ~IsFinal(broker[o]) /\ broker'[o] # Absent
             /\ broker[o].filled => broker'[o].filled
             /\ \A other \in Orders \ {o} : broker'[other] = broker[other]
  BY <1>3, ProcessAssumption, BrokerAssumption DEF BrokerEvolves, BrokerMoves, CanBecome, TypeOK
<1> QED
  BY <1>1, <1>2, <1>3, StepCases
  DEF Quiet, ReserveOrder, ClaimOrder, MarkAmbiguous, WriteChecked, brokerVars

\* Whatever a process comes to hold is what the broker says in that step.
LEMMA AnswersArrive ==
    ASSUME TypeOK, Discipline, [Next]_vars, NEW p \in Processes, NEW o \in Orders
    PROVE  snap'[p][o] \in {snap[p][o], broker'[o], Absent}
<1> USE DEF leaseVars, controlVars, runVars, recordVars, brokerVars
<1>a. Operators \subseteq Processes /\ Runs \subseteq Processes
  BY DEF Processes
<1>1. CASE UNCHANGED snap
  BY <1>1
<1>2. ASSUME NEW r \in Runs, ObserveAndPlan(r)
      PROVE  snap'[p][o] \in {snap[p][o], broker'[o], Absent}
  BY <1>2, <1>a DEF ObserveAndPlan, TypeOK
<1>3. ASSUME NEW r \in Runs, NEW x \in Orders,
             snap' = [snap EXCEPT ![r][x] = broker'[x]]
      PROVE  snap'[p][o] \in {snap[p][o], broker'[o], Absent}
  <2>1. snap[r] \in [Orders -> Observations \cup {Absent}]
    BY <1>a DEF TypeOK
  <2> QED
    BY <1>3, <1>a, <2>1 DEF TypeOK
<1>4. ASSUME NEW r \in Runs, CallBroker(r)
      PROVE  snap'[p][o] \in {snap[p][o], broker'[o], Absent}
  <2>1. PICK x \in Orders : x = OrderOf[plan[r]]
    BY <1>4, PlannedOrder DEF CallBroker, Planned
  <2>2. UNCHANGED snap \/ snap' = [snap EXCEPT ![r][x] = broker'[x]]
    BY <1>4, <2>1 DEF CallBroker, TypeOK
  <2> QED
    BY <1>1, <1>3, <2>2
<1>5. ASSUME NEW r \in Runs, ObserveAgain(r)
      PROVE  snap'[p][o] \in {snap[p][o], broker'[o], Absent}
  <2>1. PICK x \in Orders : x = OrderOf[plan[r]]
    BY <1>5, PlannedOrder DEF ObserveAgain, Planned
  <2>2. UNCHANGED snap \/ snap' = [snap EXCEPT ![r][x] = broker'[x]]
    BY <1>5, <2>1 DEF ObserveAgain, TypeOK
  <2> QED
    BY <1>1, <1>3, <2>2
<1>6. ASSUME NEW r \in Runs, Release(r) \/ Crash(r)
      PROVE  snap'[p][o] \in {snap[p][o], broker'[o], Absent}
  <2>1. snap' = [snap EXCEPT ![r] = NothingSeen]
    BY <1>6 DEF Release, Crash, Forget
  <2> QED
    BY <2>1, <1>a DEF NothingSeen, TypeOK
<1>7. ASSUME NEW c \in Operators, LoadSnapshot(c)
      PROVE  snap'[p][o] \in {snap[p][o], broker'[o], Absent}
  BY <1>7, <1>a DEF LoadSnapshot, TypeOK
<1>8. ASSUME NEW r \in Runs,
             \/ Start(r) \/ AcquireLease(r) \/ ListUnresolved(r) \/ WriteFails(r)
             \/ Prepare(r) \/ ReserveOrder(r) \/ BlockCycle(r) \/ ClaimOrder(r)
             \/ MarkAmbiguous(r)
      PROVE  UNCHANGED snap
  BY <1>8
  DEF Start, AcquireLease, ListUnresolved, WriteFails, Prepare, ReserveOrder,
      BlockCycle, ClaimOrder, MarkAmbiguous
<1>9. ASSUME NEW q \in Processes, Record(q) \/ ReadRecords(q)
      PROVE  UNCHANGED snap
  BY <1>9 DEF Record, CheckObservation, WriteChecked, FinishRecording, ReadRecords
<1>10. CASE \/ \E x \in Orders : BrokerEvolves(x)
            \/ ControlChanges \/ ClockTicks \/ UNCHANGED vars
  BY <1>10, <1>1 DEF BrokerEvolves, BrokerMoves, ControlChanges, ClockTicks, vars
<1> QED
  BY <1>a, <1>1, <1>2, <1>4, <1>5, <1>6, <1>7, <1>8, <1>9, <1>10
  DEF Next, RunStep, OperatorStep

LEMMA AnswersStep ==
    ASSUME TypeOK, Discipline, Answers, [Next]_vars
    PROVE  Answers'
<1> SUFFICES ASSUME NEW p \in Processes, NEW o \in Orders, snap'[p][o] # Absent
             PROVE  /\ broker'[o] # Absent
                    /\ IsFinal(snap'[p][o]) => broker'[o] = snap'[p][o]
  BY DEF Answers
<1>1. CASE snap'[p][o] = snap[p][o]
  BY <1>1, BrokerForward DEF Answers, IsFinal
<1>2. CASE snap'[p][o] = broker'[o]
  BY <1>2
<1> QED
  BY <1>1, <1>2, AnswersArrive

-----------------------------------------------------------------------------
(* Fills.                                                                  *)

LEMMA FillStatus ==
    ASSUME NEW obs \in Observations, StateFromBrokerStatus(obs) \in FilledStates
    PROVE  obs.filled
<1>1. obs.status \in BrokerStatuses
  BY ObservationAssumption DEF ObservationRecord
<1>2. obs.filled \/ obs.status \in FilledStates
  BY <1>1 DEF StateFromBrokerStatus, NormalizedStatus, BrokerStatuses, FilledStates
<1> QED
  BY <1>2, FillAssumption DEF FilledStates

\* A row comes to speak of a fill only by an answer that names one.
LEMMA FilledRowStep ==
    ASSUME TypeOK, Discipline, Evidence, Answers, Fills, [Next]_vars,
           NEW o \in Orders, journal'[o].state \in FilledStates
    PROVE  broker[o] # Absent /\ broker[o].filled
<1> SUFFICES ASSUME journal'[o].state # journal[o].state
             PROVE  broker[o] # Absent /\ broker[o].filled
  BY DEF Fills
<1>a. /\ \A r \in Runs : /\ ReserveOrder(r) \/ ClaimOrder(r) \/ MarkAmbiguous(r) =>
                               plan[r] \in Plans /\ OrderOf[plan[r]] \in Orders
                         /\ r \in Owners /\ cred[r] \in Credentials
      /\ JournalTypeOK
  BY PlannedOrder DEF ReserveOrder, ClaimOrder, MarkAmbiguous, Planned, TypeOK, Runs
<1>1. ~(UNCHANGED journal)
  OBVIOUS
<1>2. ASSUME NEW r \in Runs, ReserveOrder(r)
      PROVE  FALSE
  <2>1. Reserve(OrderOf[plan[r]], plan[r], r)
    BY <1>1, <1>2 DEF ReserveOrder
  <2> QED
    BY <1>2, <1>a, <2>1, ReserveEffect DEF FilledStates
<1>3. ASSUME NEW r \in Runs, ClaimOrder(r)
      PROVE  FALSE
  <2>1. Claim(OrderOf[plan[r]], cred[r])
    BY <1>1, <1>3 DEF ClaimOrder
  <2> QED
    BY <1>3, <1>a, <2>1, ClaimEffect DEF FilledStates
<1>4. ASSUME NEW r \in Runs, MarkAmbiguous(r)
      PROVE  FALSE
  <2>1. MarkSubmitAmbiguous(OrderOf[plan[r]])
    BY <1>1, <1>4 DEF MarkAmbiguous
  <2> QED
    BY <1>4, <1>a, <2>1, AmbiguousEffect DEF FilledStates
<1>5. ASSUME NEW p \in Processes, WriteChecked(p)
      PROVE  broker[o] # Absent /\ broker[o].filled
  <2>1. PICK x \in Orders : /\ x = checked[p] /\ snap[p][x] \in Observations
                            /\ broker[x] # Absent
    BY <1>5, CheckedIsEvidenced DEF WriteChecked
  <2>2. /\ journal'[x].state = StateFromBrokerStatus(snap[p][x])
        /\ \A other \in Orders \ {x} : journal'[other] = journal[other]
    BY <1>5, <1>a, <2>1, WriteEffect DEF WriteChecked
  <2>3. o = x /\ snap[p][o].filled
    BY <2>1, <2>2, FillStatus
  <2> QED
    BY <2>1, <2>3, BrokerAssumption DEF Fills
<1>6. ASSUME \/ Quiet
             \/ \E r \in Runs : CallBroker(r)
             \/ \E x \in Orders : BrokerEvolves(x)
      PROVE  FALSE
  BY <1>1, <1>6 DEF Quiet, CallBroker, BrokerEvolves, BrokerMoves
<1> QED
  BY <1>2, <1>3, <1>4, <1>5, <1>6, StepCases

LEMMA FillsStep ==
    ASSUME TypeOK, Discipline, Evidence, Answers, Fills, [Next]_vars
    PROVE  Fills'
<1>1. ASSUME NEW o \in Orders, journal'[o].state \in FilledStates
      PROVE  broker'[o] # Absent /\ broker'[o].filled
  BY <1>1, FilledRowStep, BrokerForward
<1>2. ASSUME NEW p \in Processes, NEW o \in Orders,
             snap'[p][o] # Absent, snap'[p][o].filled
      PROVE  broker'[o].filled
  BY <1>2, AnswersArrive, BrokerForward DEF Answers, Fills
<1> QED
  BY <1>1, <1>2 DEF Fills, FilledStates

-----------------------------------------------------------------------------
(* Terminal rows and outstanding orders.                                   *)

\* A row that a transaction has just made terminal was made so by an answer,
\* and no transaction but a claim makes an attempted row out of another one.
LEMMA RowStep ==
    ASSUME TypeOK, Discipline, Evidence, Answers, [Next]_vars, NEW o \in Orders
    PROVE  /\ \/ journal'[o].state = journal[o].state
              \/ journal'[o].state \notin TerminalStates
              \/ /\ broker[o] # Absent /\ IsFinal(broker[o])
                 /\ journal'[o].state = StateFromBrokerStatus(broker[o])
           /\ \/ journal'[o].state \in AttemptedStates <=>
                    journal[o].state \in AttemptedStates
              \/ \E r \in Runs :
                    /\ ClaimOrder(r) /\ o = OrderOf[plan[r]]
                    /\ ClaimAdmitted(o, plan[r], r, cred[r], ts[r])
                    /\ \A other \in Orders \ {o} : journal'[other] = journal[other]
<1> USE DEF AttemptedStates, TerminalStates
<1>1. CASE UNCHANGED journal
  BY <1>1
<1>2. ASSUME NEW r \in Runs, NEW x \in Orders, x = OrderOf[plan[r]],
             plan[r] \in Plans, ReserveAdmitted(x), Reserve(x, plan[r], r)
      PROVE  /\ journal'[o].state \notin TerminalStates
                \/ journal'[o].state = journal[o].state
             /\ journal'[o].state \in AttemptedStates <=>
                    journal[o].state \in AttemptedStates
  BY <1>2, ReserveEffect DEF ReserveAdmitted, TypeOK, Runs
<1>3. ASSUME NEW r \in Runs, ClaimOrder(r), NEW x \in Orders, x = OrderOf[plan[r]],
             ClaimAdmitted(x, plan[r], r, cred[r], ts[r]), Claim(x, cred[r])
      PROVE  /\ journal'[o].state \notin TerminalStates
                \/ journal'[o].state = journal[o].state
             /\ \A other \in Orders \ {x} : journal'[other] = journal[other]
  BY <1>3, ClaimEffect DEF TypeOK
<1>4. ASSUME NEW r \in Runs, MarkAmbiguous(r)
      PROVE  /\ journal'[o].state \notin TerminalStates
                \/ journal'[o].state = journal[o].state
             /\ journal'[o].state \in AttemptedStates <=>
                    journal[o].state \in AttemptedStates
  <2>1. OrderOf[plan[r]] \in Orders
    BY <1>4, PlannedOrder DEF MarkAmbiguous, Planned
  <2> QED
    BY <1>4, <2>1, AmbiguousEffect DEF MarkAmbiguous, TypeOK
<1>5. ASSUME NEW p \in Processes, WriteChecked(p)
      PROVE  /\ \/ journal'[o].state = journal[o].state
                \/ journal'[o].state \notin TerminalStates
                \/ /\ broker[o] # Absent /\ IsFinal(broker[o])
                   /\ journal'[o].state = StateFromBrokerStatus(broker[o])
             /\ journal'[o].state \in AttemptedStates <=>
                    journal[o].state \in AttemptedStates
  <2>1. PICK x \in Orders : x = checked[p] /\ snap[p][x] \in Observations
    BY <1>5, CheckedIsEvidenced DEF WriteChecked
  <2>2. /\ journal'[x].state = StateFromBrokerStatus(snap[p][x])
        /\ \A other \in Orders \ {x} : journal'[other] = journal[other]
    BY <1>5, <2>1, WriteEffect DEF WriteChecked, TypeOK
  <2>3. /\ broker[x] # Absent /\ journal[x].state \in AttemptedStates
        /\ journal'[x].state \in AttemptedStates
        /\ journal'[x].state \in TerminalStates =>
              broker[x] = snap[p][x] /\ IsFinal(broker[x])
    BY <1>5, <2>1, <2>2, CheckedIsEvidenced DEF WriteChecked
  <2> QED
    BY <2>2, <2>3
<1>6. ASSUME NEW r \in Runs, ReserveOrder(r) \/ ClaimOrder(r)
      PROVE  plan[r] \in Plans /\ OrderOf[plan[r]] \in Orders
  BY <1>6, PlannedOrder DEF ReserveOrder, ClaimOrder, Planned
<1>7. ASSUME NEW r \in Runs, ReserveOrder(r)
      PROVE  \/ UNCHANGED journal
             \/ /\ ReserveAdmitted(OrderOf[plan[r]])
                /\ Reserve(OrderOf[plan[r]], plan[r], r)
  BY <1>7 DEF ReserveOrder
<1>8. ASSUME NEW r \in Runs, ClaimOrder(r)
      PROVE  \/ UNCHANGED journal
             \/ /\ ClaimAdmitted(OrderOf[plan[r]], plan[r], r, cred[r], ts[r])
                /\ Claim(OrderOf[plan[r]], cred[r])
  BY <1>8 DEF ClaimOrder
<1>9. ASSUME NEW r \in Runs, CallBroker(r)
      PROVE  UNCHANGED journal
  BY <1>9 DEF CallBroker
<1>10. ASSUME NEW x \in Orders, BrokerEvolves(x)
       PROVE  UNCHANGED journal
  BY <1>10 DEF BrokerEvolves, BrokerMoves
<1>11. Quiet => UNCHANGED journal
  BY DEF Quiet
<1>12. CASE \E r \in Runs : ReserveOrder(r)
  BY <1>1, <1>2, <1>6, <1>7, <1>12
<1>13. CASE \E r \in Runs : ClaimOrder(r)
  <2>1. PICK r \in Runs : ClaimOrder(r)
    BY <1>13
  <2>2. CASE /\ ClaimAdmitted(OrderOf[plan[r]], plan[r], r, cred[r], ts[r])
             /\ Claim(OrderOf[plan[r]], cred[r])
    <3>1. /\ journal'[o].state \notin TerminalStates
             \/ journal'[o].state = journal[o].state
          /\ \A other \in Orders \ {OrderOf[plan[r]]} : journal'[other] = journal[other]
      BY <1>3, <1>6, <2>1, <2>2
    <3> QED
      BY <2>1, <2>2, <3>1
  <2> QED
    BY <1>1, <1>8, <2>1, <2>2
<1> QED
  BY <1>1, <1>4, <1>5, <1>9, <1>10, <1>11, <1>12, <1>13, StepCases

LEMMA TerminalStep ==
    ASSUME TypeOK, Discipline, Evidence, Answers, TerminalRowIsTrue, [Next]_vars
    PROVE  TerminalRowIsTrue'
<1> SUFFICES ASSUME NEW o \in Orders, journal'[o].state \in TerminalStates
             PROVE  /\ broker'[o] # Absent /\ IsFinal(broker'[o])
                    /\ StateFromBrokerStatus(broker'[o]) = journal'[o].state
  BY DEF TerminalRowIsTrue, BrokerSettled, IsFinal, StateFromBrokerStatus
<1>1. /\ broker[o] # Absent /\ IsFinal(broker[o])
      /\ StateFromBrokerStatus(broker[o]) = journal'[o].state
  BY RowStep DEF TerminalRowIsTrue, BrokerSettled
<1>2. broker'[o] = broker[o] /\ broker'[o] # Absent
  BY <1>1, BrokerForward
<1> QED
  BY <1>1, <1>2 DEF IsFinal

\* What the transaction of an admitted claim saw: every other attempted order
\* is over at the broker.
LEMMA ClaimSeesNoOther ==
    ASSUME TypeOK, TerminalRowIsTrue, NEW r \in Runs, NEW o \in Orders,
           ClaimAdmitted(o, plan[r], r, cred[r], ts[r])
    PROVE  /\ journal[o].state \notin AttemptedStates
           /\ \A other \in Orders \ {o} : other \notin Outstanding
  BY DEF ClaimAdmitted, Unresolved, TerminalRowIsTrue, Outstanding,
         AttemptedStates, TerminalStates

LEMMA OutstandingStep ==
    ASSUME TypeOK, Discipline, Evidence, Answers, TerminalRowIsTrue,
           OneOutstanding, [Next]_vars
    PROVE  OneOutstanding'
<1>1. \A o \in Orders : BrokerSettled(o) => BrokerSettled(o)'
  BY BrokerForward DEF BrokerSettled, IsFinal
<1>2. CASE \A o \in Orders : journal'[o].state \in AttemptedStates <=>
                              journal[o].state \in AttemptedStates
  <2>1. Outstanding' \subseteq Outstanding
    BY <1>1, <1>2 DEF Outstanding
  <2> QED
    BY <2>1 DEF OneOutstanding
<1>3. ASSUME NEW r \in Runs, NEW o \in Orders,
             ClaimAdmitted(o, plan[r], r, cred[r], ts[r]),
             \A other \in Orders \ {o} : journal'[other] = journal[other]
      PROVE  OneOutstanding'
  <2>1. \A other \in Orders \ {o} : other \notin Outstanding'
    BY <1>1, <1>3, ClaimSeesNoOther DEF Outstanding
  <2> QED
    BY <2>1 DEF OneOutstanding, Outstanding
<1> QED
  BY <1>2, <1>3, RowStep

-----------------------------------------------------------------------------
(* Halting and fencing.                                                    *)

\* Two runs are never both about to call the broker.
LEMMA OneClaimed ==
    ASSUME TypeOK, Discipline, Evidence, OneOutstanding,
           NEW r1 \in Runs, NEW r2 \in Runs, pc[r1] = "claimed", pc[r2] = "claimed"
    PROVE  r1 = r2
<1>1. ASSUME NEW r \in Runs, pc[r] = "claimed"
      PROVE  OrderOf[plan[r]] \in Outstanding /\ journal[OrderOf[plan[r]]].run = r
  <2>1. OrderOf[plan[r]] \in Orders
    BY <1>1, PlannedOrder DEF Planned
  <2>2. calls[OrderOf[plan[r]]] = 0
    BY <1>1 DEF Evidence
  <2>3. broker[OrderOf[plan[r]]] = Absent
    BY <2>1, <2>2 DEF Evidence
  <2> QED
    BY <1>1, <2>1, <2>3 DEF Evidence, Outstanding, BrokerSettled
<1> QED
  BY <1>1 DEF OneOutstanding

\* A step that is neither a control command nor a broker call leaves both the
\* switches and the count of halted calls alone.
LEMMA OnlyTheOperatorHalts ==
    ASSUME [Next]_vars
    PROVE  \/ ControlChanges
           \/ \E r \in Runs : CallBroker(r)
           \/ UNCHANGED <<control, haltedCalls>>
<1> USE DEF controlVars, brokerVars
<1>1. ASSUME NEW r \in Runs,
             \/ Start(r) \/ AcquireLease(r) \/ ObserveAndPlan(r) \/ ListUnresolved(r)
             \/ WriteFails(r) \/ Prepare(r) \/ ReserveOrder(r) \/ BlockCycle(r)
             \/ ClaimOrder(r) \/ MarkAmbiguous(r) \/ ObserveAgain(r) \/ Release(r)
             \/ Crash(r)
      PROVE  UNCHANGED <<control, haltedCalls>>
  BY <1>1
  DEF Start, AcquireLease, ObserveAndPlan, ListUnresolved, WriteFails, Prepare,
      ReserveOrder, BlockCycle, ClaimOrder, MarkAmbiguous, ObserveAgain,
      Release, Crash
<1>2. \A p : Record(p) \/ LoadSnapshot(p) \/ ReadRecords(p) =>
             UNCHANGED <<control, haltedCalls>>
  BY DEF Record, CheckObservation, WriteChecked, FinishRecording, LoadSnapshot,
         ReadRecords
<1>3. ClockTicks \/ (\E o \in Orders : BrokerEvolves(o)) \/ UNCHANGED vars =>
         UNCHANGED <<control, haltedCalls>>
  BY DEF ClockTicks, BrokerEvolves, BrokerMoves, vars
<1> QED
  BY <1>1, <1>2, <1>3 DEF Next, RunStep, OperatorStep

LEMMA HaltedStep ==
    ASSUME TypeOK, Discipline, Evidence, OneOutstanding, Halted, [Next]_vars
    PROVE  Halted'
<1> USE DEF Halted, HaltBoundsExposure
<1>a. Runs \subseteq Processes
  BY DEF Processes
<1>1. CASE Quiet /\ UNCHANGED <<control, haltedCalls>>
  BY <1>1 DEF Quiet, TradingAllowed
<1>2. CASE ControlChanges
  BY <1>2 DEF ControlChanges, runVars, TypeOK
<1>3. ASSUME NEW r \in Runs, ClaimOrder(r)
      PROVE  Halted'
  <2>1. /\ UNCHANGED <<control, haltedCalls>>
        /\ \A q \in Runs \ {r} : pc'[q] = pc[q]
    BY <1>3, <1>a DEF ClaimOrder, Goto, TypeOK, controlVars, brokerVars
  <2>2. pc'[r] = "claimed" => TradingAllowed
    BY <1>3, <1>a DEF ClaimOrder, Goto, TypeOK, ClaimAdmitted
  <2> QED
    BY <2>1, <2>2 DEF TradingAllowed
<1>4. ASSUME NEW r \in Runs, CallBroker(r)
      PROVE  Halted'
  <2>1. haltedCalls = 0 /\ UNCHANGED control
    BY <1>4 DEF CallBroker, controlVars
  <2>2. haltedCalls' = IF TradingAllowed THEN 0 ELSE 1
    BY <1>4, <2>1 DEF CallBroker
  <2>3. \A q \in Runs : pc'[q] # "claimed"
    BY <1>4, <1>a, OneClaimed DEF CallBroker, Goto, TypeOK
  <2> QED
    BY <2>1, <2>2, <2>3 DEF TradingAllowed
<1>5. ASSUME NEW r \in Runs, ReserveOrder(r) \/ MarkAmbiguous(r)
      PROVE  Halted'
  <2>1. /\ UNCHANGED <<control, haltedCalls>>
        /\ \A q \in Runs : pc'[q] = "claimed" => pc[q] = "claimed"
    BY <1>5, <1>a
    DEF ReserveOrder, MarkAmbiguous, Goto, TypeOK, controlVars, brokerVars
  <2> QED
    BY <2>1 DEF TradingAllowed
<1>6. ASSUME NEW p \in Processes, WriteChecked(p)
      PROVE  Halted'
  BY <1>6 DEF WriteChecked, controlVars, runVars, brokerVars, TradingAllowed
<1>7. ASSUME NEW o \in Orders, BrokerEvolves(o)
      PROVE  Halted'
  BY <1>7 DEF BrokerEvolves, BrokerMoves, controlVars, runVars, TradingAllowed
<1> QED
  BY <1>1, <1>2, <1>3, <1>4, <1>5, <1>6, <1>7, OnlyTheOperatorHalts, StepCases

LEMMA LeaseForward ==
    ASSUME TypeOK, [Next]_vars
    PROVE  lease'.generation \in Nat /\ lease.generation <= lease'.generation
<1> USE DEF leaseVars
<1>a. lease.generation \in Nat
  BY DEF TypeOK, LeaseTypeOK, LeaseRow
<1>1. CASE UNCHANGED lease
  BY <1>1, <1>a
<1>2. ASSUME NEW r \in Runs, AcquireLease(r)
      PROVE  lease'.generation \in Nat /\ lease.generation <= lease'.generation
  BY <1>2, <1>a DEF AcquireLease, TakeLease, LeaseRefused
<1>3. ASSUME NEW r \in Runs, Release(r)
      PROVE  lease'.generation \in Nat /\ lease.generation <= lease'.generation
  BY <1>3, <1>a DEF Release, ReleaseLease, TypeOK, LeaseTypeOK, LeaseRow
<1>4. ASSUME NEW r \in Runs,
             \/ Start(r) \/ ObserveAndPlan(r) \/ ListUnresolved(r) \/ WriteFails(r)
             \/ Prepare(r) \/ ReserveOrder(r) \/ BlockCycle(r) \/ ClaimOrder(r)
             \/ CallBroker(r) \/ MarkAmbiguous(r) \/ ObserveAgain(r) \/ Crash(r)
      PROVE  UNCHANGED lease
  BY <1>4
  DEF Start, ObserveAndPlan, ListUnresolved, WriteFails, Prepare, ReserveOrder,
      BlockCycle, ClaimOrder, CallBroker, MarkAmbiguous, ObserveAgain, Crash
<1>5. \A p : Record(p) \/ LoadSnapshot(p) \/ ReadRecords(p) => UNCHANGED lease
  BY DEF Record, CheckObservation, WriteChecked, FinishRecording, LoadSnapshot,
         ReadRecords
<1>6. CASE \/ ControlChanges \/ ClockTicks \/ UNCHANGED vars
           \/ \E o \in Orders : BrokerEvolves(o)
  BY <1>1, <1>6 DEF ControlChanges, ClockTicks, Tick, BrokerEvolves, BrokerMoves, vars
<1> QED
  BY <1>1, <1>2, <1>3, <1>4, <1>5, <1>6 DEF Next, RunStep, OperatorStep

\* A row changes its generation only in a claim, to the lease's own.
LEMMA GenerationStep ==
    ASSUME TypeOK, Discipline, Evidence, Answers, Fenced, [Next]_vars, NEW o \in Orders
    PROVE  /\ journal'[o].generation \in {journal[o].generation, lease.generation}
           /\ journal'[o].state = "none" =>
                 /\ journal[o].state = "none"
                 /\ journal'[o].generation = journal[o].generation
<1>a. /\ \A r \in Runs : /\ ReserveOrder(r) \/ ClaimOrder(r) \/ MarkAmbiguous(r) =>
                               plan[r] \in Plans /\ OrderOf[plan[r]] \in Orders
                         /\ r \in Owners /\ cred[r] \in Credentials
      /\ JournalTypeOK
  BY PlannedOrder DEF ReserveOrder, ClaimOrder, MarkAmbiguous, Planned, TypeOK, Runs
<1>1. CASE UNCHANGED journal
  BY <1>1
<1>2. ASSUME NEW r \in Runs, ReserveOrder(r), NEW x \in Orders, x = OrderOf[plan[r]],
             ReserveAdmitted(x), Reserve(x, plan[r], r)
      PROVE  /\ journal'[o].generation = journal[o].generation
             /\ journal'[o].state = "none" => journal[o].state = "none"
  BY <1>2, <1>a, ReserveEffect DEF ReserveAdmitted, Fenced
<1>3. ASSUME NEW r \in Runs, ClaimOrder(r), NEW x \in Orders, x = OrderOf[plan[r]],
             ClaimAdmitted(x, plan[r], r, cred[r], ts[r]), Claim(x, cred[r])
      PROVE  /\ journal'[x].generation = lease.generation
             /\ journal'[x].state # "none"
             /\ \A other \in Orders \ {x} : journal'[other] = journal[other]
  BY <1>3, <1>a, ClaimEffect DEF ClaimAdmitted, LeaseMatches
<1>4. ASSUME NEW r \in Runs, MarkAmbiguous(r)
      PROVE  /\ journal'[o].generation = journal[o].generation
             /\ journal'[o].state = "none" => journal[o].state = "none"
  BY <1>4, <1>a, AmbiguousEffect DEF MarkAmbiguous
<1>5. ASSUME NEW p \in Processes, WriteChecked(p)
      PROVE  /\ journal'[o].generation = journal[o].generation
             /\ journal'[o].state = "none" => journal[o].state = "none"
  <2>1. PICK x \in Orders : x = checked[p] /\ snap[p][x] \in Observations
    BY <1>5, CheckedIsEvidenced DEF WriteChecked
  <2>2. StateFromBrokerStatus(snap[p][x]) # "none"
    BY <2>1, ObservationAssumption, StatusMapping DEF AttemptedStates, TerminalStates
  <2>3. /\ journal'[x].state = StateFromBrokerStatus(snap[p][x])
        /\ journal'[x].generation = journal[x].generation
        /\ \A other \in Orders \ {x} : journal'[other] = journal[other]
    BY <1>5, <1>a, <2>1, WriteEffect DEF WriteChecked
  <2> QED
    BY <2>2, <2>3
<1>6. CASE \E r \in Runs : ReserveOrder(r)
  <2>1. PICK r \in Runs : ReserveOrder(r)
    BY <1>6
  <2>2. \/ UNCHANGED journal
        \/ ReserveAdmitted(OrderOf[plan[r]]) /\ Reserve(OrderOf[plan[r]], plan[r], r)
    BY <2>1 DEF ReserveOrder
  <2> QED
    BY <1>1, <1>2, <1>a, <2>1, <2>2
<1>7. CASE \E r \in Runs : ClaimOrder(r)
  <2>1. PICK r \in Runs : ClaimOrder(r)
    BY <1>7
  <2>2. \/ UNCHANGED journal
        \/ /\ ClaimAdmitted(OrderOf[plan[r]], plan[r], r, cred[r], ts[r])
           /\ Claim(OrderOf[plan[r]], cred[r])
    BY <2>1 DEF ClaimOrder
  <2> QED
    BY <1>1, <1>3, <1>a, <2>1, <2>2
<1>8. CASE \/ Quiet
           \/ \E r \in Runs : CallBroker(r)
           \/ \E x \in Orders : BrokerEvolves(x)
  BY <1>1, <1>8 DEF Quiet, CallBroker, BrokerEvolves, BrokerMoves
<1> QED
  BY <1>4, <1>5, <1>6, <1>7, <1>8, StepCases

LEMMA FencedStep ==
    ASSUME TypeOK, Discipline, Evidence, Answers, Fenced, [Next]_vars
    PROVE  Fenced'
<1>1. \A o \in Orders : journal[o].generation \in Nat
  BY DEF TypeOK, JournalTypeOK, OrderRow
<1>2. lease.generation \in Nat
  BY DEF TypeOK, LeaseTypeOK, LeaseRow
<1>3. \A o \in Orders : journal'[o].generation <= lease'.generation
  BY <1>1, <1>2, GenerationStep, LeaseForward DEF Fenced
<1>4. \A o \in Orders : journal'[o].state = "none" => journal'[o].generation = 0
  BY GenerationStep DEF Fenced
<1> QED
  BY <1>3, <1>4 DEF Fenced

-----------------------------------------------------------------------------
(* The inductive invariant and what follows from it.                       *)

LEMMA IInvInit == Init => IInv
<1> SUFFICES ASSUME Init
             PROVE  IInv
  OBVIOUS
<1>1. TypeOK /\ Discipline
  BY TypeInit, DisciplineInit
<1>2. \A o \in Orders : /\ journal[o].state = "none" /\ journal[o].generation = 0
                        /\ broker[o] = Absent /\ calls[o] = 0
  BY DEF Init, JournalInit, NoRow, NothingSeen
<1>3. \A p \in Processes : pc[p] = "idle" /\ \A o \in Orders : snap[p][o] = Absent
  BY DEF Init, NothingSeen
<1>4. Evidence /\ Answers
  BY <1>2, <1>3 DEF Evidence, ClaimPrecedesCall, Answers, Processes
<1>5. AtMostOneSubmit /\ TerminalRowIsTrue /\ OneOutstanding
  BY <1>2 DEF AtMostOneSubmit, TerminalRowIsTrue, OneOutstanding, Outstanding,
              TerminalStates, AttemptedStates
<1>6. Halted
  BY <1>3 DEF Init, Halted, HaltBoundsExposure, Processes
<1>7. lease.generation = 0
  BY DEF Init, LeaseInit, NoLease
<1>8. Fenced /\ Fills
  BY <1>2, <1>3, <1>7 DEF Fenced, Fills, FilledStates
<1> QED
  BY <1>1, <1>4, <1>5, <1>6, <1>8 DEF IInv

LEMMA IInvStep == IInv /\ [Next]_vars => IInv'
<1> SUFFICES ASSUME IInv, [Next]_vars
             PROVE  IInv'
  OBVIOUS
<1>1. TypeOK' /\ Discipline'
  BY TypeStep, DisciplineStep DEF IInv
<1>2. Evidence' /\ Answers'
  BY EvidenceStep, AnswersStep DEF IInv
<1>3. AtMostOneSubmit' /\ TerminalRowIsTrue' /\ OneOutstanding'
  BY AtMostOneStep, TerminalStep, OutstandingStep DEF IInv
<1>4. Halted' /\ Fenced' /\ Fills'
  BY HaltedStep, FencedStep, FillsStep DEF IInv
<1> QED
  BY <1>1, <1>2, <1>3, <1>4 DEF IInv

\* The inductive invariant, from which the theorems below follow, holds in every
\* reachable state.
THEOREM Invariant == Spec => []IInv
  BY IInvInit, IInvStep, PTL DEF Spec

\* execute_durable_submit calls submit_order at most once for a client order
\* id, however many processes overlap, crash and are started again.
THEOREM SubmitsOnce == Spec => []AtMostOneSubmit
<1>1. IInv => AtMostOneSubmit
  BY DEF IInv
<1> QED
  BY <1>1, Invariant, PTL

\* The journal row says submit_attempted, or later, before the broker is
\* called: no crash leaves an order at the broker that the journal would
\* let anybody submit again.
THEOREM EvidenceFirst == Spec => []ClaimPrecedesCall
<1>1. IInv => ClaimPrecedesCall
  BY DEF IInv, Evidence
<1> QED
  BY <1>1, Invariant, PTL

\* claim_pre_mutation_submit never lets a second order out while the fate of a
\* first one at the broker is open, lease expiries and overlaps included.
THEOREM SubmitsSerially == Spec => []OneOutstanding
<1>1. IInv => OneOutstanding
  BY DEF IInv
<1> QED
  BY <1>1, Invariant, PTL

\* Although record_broker_observation checks and writes in two transactions, a
\* row that reads terminal is one the broker has ended in that very state.
THEOREM TerminalTruth == Spec => []TerminalRowIsTrue
<1>1. IInv => TerminalRowIsTrue
  BY DEF IInv
<1> QED
  BY <1>1, Invariant, PTL

\* What a step that changes a terminal row is.
LEMMA ReopenStep ==
    ASSUME IInv, [Next]_vars, NEW o \in Orders, journal[o].state \in TerminalStates,
           journal'[o].state # journal[o].state
    PROVE  /\ journal'[o].state \in AttemptedStates \ TerminalStates
           /\ \E p \in Processes : /\ WriteChecked(p)
                                   /\ checked[p] = o
                                   /\ ~IsFinal(snap[p][o])
<1>0. /\ TypeOK /\ Discipline /\ Evidence /\ Answers /\ TerminalRowIsTrue
      /\ JournalTypeOK
  BY DEF IInv, TypeOK
<1>a. /\ StateFromBrokerStatus(broker[o]) = journal[o].state
      /\ journal[o].state \notin {"none", "reserved", "submit_attempted", "unknown"}
  BY <1>0 DEF TerminalRowIsTrue, TerminalStates
<1>1. journal'[o].state \notin TerminalStates
  BY <1>0, <1>a, RowStep
<1>2. journal'[o].state \in AttemptedStates
  <2>1. \A r \in Runs : ~ClaimAdmitted(o, plan[r], r, cred[r], ts[r])
    BY <1>a DEF ClaimAdmitted
  <2> QED
    BY <1>0, <2>1, RowStep DEF AttemptedStates
<1>3. ASSUME NEW r \in Runs, ReserveOrder(r)
      PROVE  FALSE
  <2>1. /\ ReserveAdmitted(OrderOf[plan[r]])
        /\ Reserve(OrderOf[plan[r]], plan[r], r)
    BY <1>3 DEF ReserveOrder
  <2>2. plan[r] \in Plans /\ OrderOf[plan[r]] \in Orders /\ r \in Owners
    BY <1>0, <1>3, PlannedOrder DEF ReserveOrder, Planned, Runs
  <2> QED
    BY <1>0, <1>a, <2>1, <2>2, ReserveEffect DEF ReserveAdmitted
<1>4. ASSUME NEW r \in Runs, ClaimOrder(r)
      PROVE  FALSE
  <2>1. /\ ClaimAdmitted(OrderOf[plan[r]], plan[r], r, cred[r], ts[r])
        /\ Claim(OrderOf[plan[r]], cred[r])
    BY <1>4 DEF ClaimOrder
  <2>2. OrderOf[plan[r]] \in Orders /\ cred[r] \in Credentials
    BY <1>0, <1>4, PlannedOrder DEF ClaimOrder, Planned, TypeOK
  <2> QED
    BY <1>0, <1>a, <2>1, <2>2, ClaimEffect DEF ClaimAdmitted
<1>5. ASSUME NEW r \in Runs, MarkAmbiguous(r)
      PROVE  FALSE
  <2>1. /\ OrderOf[plan[r]] \in Orders
        /\ MarkSubmitAmbiguous(OrderOf[plan[r]])
    BY <1>0, <1>5, PlannedOrder DEF MarkAmbiguous, Planned
  <2> QED
    BY <1>0, <1>a, <2>1, AmbiguousEffect
<1>6. ASSUME NEW p \in Processes, WriteChecked(p)
      PROVE  checked[p] = o /\ ~IsFinal(snap[p][o])
  <2>1. PICK x \in Orders : x = checked[p] /\ snap[p][x] \in Observations
    BY <1>0, <1>6, CheckedIsEvidenced DEF WriteChecked
  <2>2. /\ journal'[x].state = StateFromBrokerStatus(snap[p][x])
        /\ \A other \in Orders \ {x} : journal'[other] = journal[other]
    BY <1>0, <1>6, <2>1, WriteEffect DEF WriteChecked
  <2>3. x = o
    BY <2>2
  <2>4. snap[p][o] # Absent
    BY <2>1, <2>3, BrokerAssumption
  <2>5. IsFinal(snap[p][o]) => broker[o] = snap[p][o]
    BY <1>0, <2>4 DEF Answers
  <2> QED
    BY <1>a, <2>1, <2>2, <2>3, <2>5
<1>7. ~ \/ Quiet
        \/ \E r \in Runs : CallBroker(r)
        \/ \E x \in Orders : BrokerEvolves(x)
  BY DEF Quiet, CallBroker, BrokerEvolves
<1> QED
  BY <1>0, <1>1, <1>2, <1>3, <1>4, <1>5, <1>6, <1>7, StepCases

\* A closed row is reopened by nothing but a slow record of an older answer: the
\* exact reach of the two transactions of record_broker_observation.
THEOREM OnlyOlderAnswersReopen == Spec => ReopensByOlderAnswerOnly
<1>1. IInv /\ [Next]_vars =>
        [\A o \in Orders :
          journal[o].state \in TerminalStates /\ journal'[o].state # journal[o].state =>
              /\ journal'[o].state \in AttemptedStates \ TerminalStates
              /\ \E p \in Processes : /\ WriteChecked(p)
                                      /\ checked[p] = o
                                      /\ ~IsFinal(snap[p][o])]_vars
  BY ReopenStep
<1> QED
  BY <1>1, Invariant, PTL DEF Spec, ReopensByOlderAnswerOnly

\* No row shuts the truth out: what the broker ended can always be recorded, by a
\* cycle and by the offline reconcile alike.  The prefix of EventuallyJournaled
\* that is safety, for every number of processes, orders and answers.
THEOREM NoDeadEnd == Spec => []EndsAreRecordable
<1>1. ASSUME IInv, NEW o \in Orders, BrokerSettled(o)
      PROVE  ObservationAdmitted(o, broker[o]) /\ Reconcilable(o, broker[o])
  <2>1. broker[o] \in Observations /\ IsFinal(broker[o])
    BY <1>1 DEF IInv, TypeOK, BrokerSettled
  <2>2. journal[o].state \in AttemptedStates
    BY <1>1 DEF IInv, Evidence, ClaimPrecedesCall, BrokerSettled
  <2>3. ObservationAdmitted(o, broker[o])
    BY <1>1, <2>2 DEF IInv, TerminalRowIsTrue, ObservationAdmitted, AttemptedStates,
                      TerminalStates
  <2>4. NormalizedStatus(broker[o].status) # "unknown"
    BY <2>1 DEF IsFinal, FinalStatuses, NormalizedStatus
  <2>5. journal[o].state \in {"partially_filled", "filled"} => broker[o].filled
    BY <1>1 DEF IInv, Fills, FilledStates
  <2> QED
    BY <1>1, <2>2, <2>3, <2>4, <2>5
    DEF Reconcilable, AttemptedStates, TerminalStates, BrokerSettled
<1>2. IInv => EndsAreRecordable
  BY <1>1 DEF EndsAreRecordable
<1> QED
  BY <1>2, Invariant, PTL

\* After the operator's pause or stop commits, at most one more submission
\* reaches the broker.
THEOREM HaltIsBounded == Spec => []HaltBoundsExposure
<1>1. IInv => HaltBoundsExposure
  BY DEF IInv, Halted
<1> QED
  BY <1>1, Invariant, PTL

\* The fencing generations that claims record never go backwards.
THEOREM FencingOrder == Spec => ClaimsInFencingOrder
<1>1. IInv /\ [Next]_vars =>
         [\A o, other \in Orders :
             journal'[o].generation # journal[o].generation =>
                 journal[other].generation <= journal'[o].generation]_vars
  BY GenerationStep DEF IInv, Fenced
<1> QED
  BY <1>1, Invariant, PTL DEF Spec, ClaimsInFencingOrder

-----------------------------------------------------------------------------
(* Refinement of SerialSubmission.                                         *)

LEMMA SerialInit == Init => Serial!Init
<1> SUFFICES ASSUME Init
             PROVE  Serial!Init
  OBVIOUS
<1>1. Claimed = {}
  BY DEF Init, JournalInit, NoRow, Claimed, AttemptedStates, TerminalStates
<1>2. Settled = {}
  BY DEF Init, NothingSeen, Settled, BrokerSettled
<1> QED
  BY <1>1, <1>2 DEF Init, Serial!Init

\* A claim that commits is the abstract Claim, a broker call Submit, the broker
\* ending an order Settle; every other step changes nothing abstract.
LEMMA SerialStep == IInv /\ [Next]_vars => [Serial!Next]_Serial!vars
<1> SUFFICES ASSUME IInv, [Next]_vars
             PROVE  [Serial!Next]_Serial!vars
  OBVIOUS
<1> USE DEF IInv
<1>1. CASE Claimed' = Claimed /\ UNCHANGED <<broker, calls>>
  BY <1>1 DEF Serial!vars, Settled, BrokerSettled, IsFinal
<1>2. ASSUME NEW r \in Runs, CallBroker(r)
      PROVE  Serial!Next
  <2>1. PICK o \in Orders : o = OrderOf[plan[r]]
    BY <1>2, PlannedOrder DEF CallBroker, Planned
  <2>2. o \in Claimed /\ calls[o] = 0 /\ Claimed' = Claimed
    BY <1>2, <2>1 DEF CallBroker, Evidence, Claimed
  <2>3. calls' = [calls EXCEPT ![o] = 1]
    BY <1>2, <2>1, <2>2 DEF CallBroker
  <2>4. \A other \in Orders \ {o} : broker'[other] = broker[other]
    BY <1>2, <2>1 DEF CallBroker, TypeOK
  <2>5. Settled \subseteq Settled'
    BY BrokerForward DEF Settled, BrokerSettled, IsFinal
  <2>6. Settled' \in {Settled, Settled \cup {o}}
    BY <2>4, <2>5 DEF Settled, BrokerSettled, IsFinal
  <2> QED
    BY <2>2, <2>3, <2>6 DEF Serial!Next, Serial!Submit
<1>3. ASSUME NEW o \in Orders, BrokerEvolves(o)
      PROVE  Serial!Next \/ UNCHANGED Serial!vars
  <2>1. /\ calls[o] > 0 /\ UNCHANGED calls /\ Claimed' = Claimed
        /\ \A other \in Orders \ {o} : broker'[other] = broker[other]
    BY <1>3 DEF BrokerEvolves, BrokerMoves, Evidence, Claimed, TypeOK
  <2>2. Settled \subseteq Settled'
    BY BrokerForward DEF Settled, BrokerSettled, IsFinal
  <2>3. Settled' \in {Settled, Settled \cup {o}}
    BY <2>1, <2>2 DEF Settled, BrokerSettled, IsFinal
  <2> QED
    BY <2>1, <2>3 DEF Serial!Next, Serial!Settle, Serial!vars
<1>4. ASSUME NEW r \in Runs, ClaimOrder(r), NEW o \in Orders,
             ClaimAdmitted(o, plan[r], r, cred[r], ts[r]), o \in Claimed',
             \A other \in Orders \ {o} : journal'[other] = journal[other]
      PROVE  Serial!Next
  <2>1. /\ o \notin Claimed /\ Claimed \subseteq Settled
        /\ Claimed' = Claimed \cup {o}
    BY <1>4, ClaimSeesNoOther DEF Claimed, Settled, Outstanding
  <2>2. UNCHANGED <<calls, Settled>>
    BY <1>4 DEF ClaimOrder, brokerVars, Settled, BrokerSettled, IsFinal
  <2> QED
    BY <2>1, <2>2 DEF Serial!Next, Serial!Claim
<1>5. CASE /\ \A o \in Orders : journal'[o].state \in AttemptedStates <=>
                                journal[o].state \in AttemptedStates
           /\ UNCHANGED <<broker, calls>>
  <2>1. Claimed' = Claimed
    BY <1>5 DEF Claimed
  <2> QED
    BY <1>1, <1>5, <2>1
<1>6. ASSUME NEW r \in Runs, ClaimOrder(r), NEW o \in Orders,
             ClaimAdmitted(o, plan[r], r, cred[r], ts[r]),
             \A other \in Orders \ {o} : journal'[other] = journal[other]
      PROVE  [Serial!Next]_Serial!vars
  <2>1. CASE o \in Claimed'
    BY <1>4, <1>6, <2>1
  <2>2. CASE o \notin Claimed'
    <3>1. Claimed' = Claimed
      BY <1>6, <2>2, ClaimSeesNoOther DEF Claimed
    <3> QED
      BY <1>1, <1>6, <3>1 DEF ClaimOrder, brokerVars
  <2> QED
    BY <2>1, <2>2
<1>7. \/ \A o \in Orders : journal'[o].state \in AttemptedStates <=>
                            journal[o].state \in AttemptedStates
      \/ \E r \in Runs, o \in Orders :
            /\ ClaimOrder(r)
            /\ ClaimAdmitted(o, plan[r], r, cred[r], ts[r])
            /\ \A other \in Orders \ {o} : journal'[other] = journal[other]
  BY RowStep
<1>8. \/ UNCHANGED <<broker, calls>>
      \/ \E r \in Runs : CallBroker(r)
      \/ \E o \in Orders : BrokerEvolves(o)
  BY StepCases DEF Quiet, ReserveOrder, ClaimOrder, MarkAmbiguous, WriteChecked,
                   brokerVars
<1> QED
  BY <1>2, <1>3, <1>5, <1>6, <1>7, <1>8

\* The coordinator, with its journal, lease, switches, crashes and overlaps,
\* does what SerialSubmission says and nothing else.
THEOREM Refinement == Spec => ImplementsSerialSubmission
  BY SerialInit, SerialStep, Invariant, PTL DEF Spec, ImplementsSerialSubmission, Serial!Spec
=============================================================================
