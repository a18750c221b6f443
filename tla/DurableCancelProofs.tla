------------------------ MODULE DurableCancelProofs ------------------------
(***************************************************************************)
(* Theorems about DurableCancel, for any orders, commands, lease times and *)
(* broker answers.                                                         *)
(***************************************************************************)
EXTENDS DurableCancel, JournalTypes, TLAPS

-----------------------------------------------------------------------------
(* Type correctness.                                                       *)

\* The phases in which a process holds an answer of the broker.
Answered == OrderRecording \cup CancelRecording \cup {"recorded", "read", "stamped"}

\* What each process holds between its steps, and what the tables and the
\* broker keep: the broker knows every order, and each was submitted by a run.
Holding ==
    /\ \A o \in Orders : broker[o] # Absent
    /\ \A o \in Orders : journal[o].run \in Owners
    /\ \A p \in Processes :
          pc[p] \notin {"idle", "started", "stopped"} => target[p] \in Orders
    /\ \A p \in Processes : pc[p] \in Answered => seen[p] # Absent

LEMMA CancelStateTypes ==
    ASSUME NEW obs \in ObservationRecord
    PROVE  CancelStateFromOrderStatus(obs.status) \in AttemptedCancelStates
  BY DEF ObservationRecord, BrokerStatuses, CancelStateFromOrderStatus,
         AttemptedCancelStates, TerminalCancelStates

LEMMA CancelTypeInit == Init => TypeOK /\ Holding
<1> SUFFICES ASSUME Init PROVE TypeOK /\ Holding
  OBVIOUS
<1>1. \A o \in Orders : /\ broker[o] \in Observations
                        /\ StateFromBrokerStatus(broker[o]) \in RowStates
  BY StatusMapping, ObservationAssumption DEF Init, RowStates
<1>2. JournalTypeOK /\ \A o \in Orders : journal[o].run \in Owners
  BY <1>1, CancelAssumption DEF Init, JournalTypeOK, OrderRow
<1>3. LeaseTypeOK /\ ControlTypeOK
  BY DEF Init, LeaseInit, ControlInit, LeaseTypeOK, ControlTypeOK, NoLease,
         LeaseRow, DefaultControl, ControlRow
<1>4. NoIntent \in CancelIntents /\ NoCredentials \in Credentials
  BY DEF NoIntent, CancelIntents, BrokerStatuses, NoCredentials, Credentials
<1>5. CancelJournalTypeOK
  BY <1>4 DEF Init, CancelJournalTypeOK, NoCancel, CancelRow
<1>6. \A p \in Processes : pc[p] = "idle"
  BY DEF Init
<1>7. ProcessTypeOK
  BY <1>4, <1>6 DEF Init, ProcessTypeOK, Processes, CancellerPhases,
                    ReconcilerPhases, WatcherPhases
<1>8. Holding
  BY <1>1, <1>2, <1>6, BrokerAssumption
  DEF Holding, Answered, OrderRecording, CancelRecording
<1> QED
  BY <1>1, <1>2, <1>3, <1>5, <1>7, <1>8 DEF Init, TypeOK

\* A process that takes a step stays within the phases of its kind.
LEMMA GotoTypes ==
    ASSUME ProcessTypeOK, NEW p \in Processes,
           NEW phase \in CancellerPhases \cup ReconcilerPhases \cup WatcherPhases,
           p \in Cancellers => phase \in CancellerPhases,
           p \in Reconcilers => phase \in ReconcilerPhases,
           p \in Watchers => phase \in WatcherPhases,
           Goto(p, phase)
    PROVE  /\ pc' \in [Processes -> CancellerPhases \cup ReconcilerPhases
                                                     \cup WatcherPhases]
           /\ \A c \in Cancellers : pc'[c] \in CancellerPhases
           /\ \A r \in Reconcilers : pc'[r] \in ReconcilerPhases
           /\ \A w \in Watchers : pc'[w] \in WatcherPhases
           /\ pc'[p] = phase
           /\ \A q \in Processes : q # p => pc'[q] = pc[q]
  BY DEF ProcessTypeOK, Goto, Processes

LEMMA LeaveTypes ==
    ASSUME ProcessTypeOK, NEW p \in Processes, Leave(p)
    PROVE  /\ ProcessTypeOK'
           /\ pc'[p] \in {"idle", "stopped"}
           /\ \A q \in Processes :
                 q # p => pc'[q] = pc[q] /\ target'[q] = target[q] /\ seen'[q] = seen[q]
<1> DEFINE phase == IF p \in Cancellers THEN "stopped" ELSE "idle"
<1>1. /\ phase \in CancellerPhases \cup ReconcilerPhases \cup WatcherPhases
      /\ p \in Cancellers => phase \in CancellerPhases
      /\ p \in Reconcilers => phase \in ReconcilerPhases
      /\ p \in Watchers => phase \in WatcherPhases
  BY CancelAssumption DEF CancellerPhases, ReconcilerPhases, WatcherPhases
<1>2. Goto(p, phase)
  BY DEF Leave
<1> HIDE DEF phase
<1>3. /\ pc' \in [Processes -> CancellerPhases \cup ReconcilerPhases
                                                \cup WatcherPhases]
      /\ \A c \in Cancellers : pc'[c] \in CancellerPhases
      /\ \A r \in Reconcilers : pc'[r] \in ReconcilerPhases
      /\ \A w \in Watchers : pc'[w] \in WatcherPhases
      /\ pc'[p] = phase
      /\ \A q \in Processes : q # p => pc'[q] = pc[q]
  BY <1>1, <1>2, GotoTypes
<1>4. NoIntent \in CancelIntents /\ NoCredentials \in Credentials
  BY DEF NoIntent, CancelIntents, BrokerStatuses, NoCredentials, Credentials
<1>5. /\ target' = [target EXCEPT ![p] = NoOrder]
      /\ seen' = [seen EXCEPT ![p] = Absent]
      /\ at' = [at EXCEPT ![p] = 0]
      /\ checked' = [checked EXCEPT ![p] = FALSE]
      /\ intent' = [intent EXCEPT ![p] = NoIntent]
      /\ invokedAt' = [invokedAt EXCEPT ![p] = 0]
      /\ cred' = [cred EXCEPT ![p] = NoCredentials]
  BY DEF Leave
<1>6. ProcessTypeOK'
  BY <1>3, <1>4, <1>5 DEF ProcessTypeOK
<1>7. phase \in {"idle", "stopped"}
  BY DEF phase
<1> QED
  BY <1>3, <1>5, <1>6, <1>7 DEF ProcessTypeOK

\* The tables and the lease keep their types under every transaction.
LEMMA ReserveCancelTypes ==
    ASSUME CancelJournalTypeOK, NEW o \in Orders, NEW i \in CancelIntents,
           NEW t \in Nat, ReserveCancel(o, i, t)
    PROVE  cancels' \in [Orders -> CancelRow]
  BY DEF CancelJournalTypeOK, ReserveCancel, CancelRow

LEMMA CancelStateWritten ==
    ASSUME CancelJournalTypeOK, NEW o \in Orders, NEW t \in Nat,
           NEW state \in AttemptedCancelStates,
           cancels' = [cancels EXCEPT ![o].state = state, ![o].updated = t]
    PROVE  /\ cancels' \in [Orders -> CancelRow]
           /\ cancels'[o].state = state /\ cancels'[o].updated = t
           /\ \A other \in Orders : other # o => cancels'[other] = cancels[other]
<1>1. cancels[o] \in CancelRow
  BY DEF CancelJournalTypeOK
<1> DEFINE row == [cancels[o] EXCEPT !.state = state, !.updated = t]
<1>2. row \in CancelRow /\ row.state = state /\ row.updated = t
  BY <1>1 DEF CancelRow
<1>3. cancels' = [cancels EXCEPT ![o] = row]
  BY <1>1, Zenon DEF CancelJournalTypeOK
<1> HIDE DEF row
<1> QED
  BY <1>2, <1>3 DEF CancelJournalTypeOK

LEMMA RecordTypes ==
    ASSUME TypeOK, NEW o \in Orders, NEW obs \in Observations, NEW t \in Nat,
           WriteCancelObservation(o, obs.status, t)
    PROVE  /\ cancels' \in [Orders -> CancelRow]
           /\ cancels'[o].state \in AttemptedCancelStates
           /\ cancels'[o].state = CancelStateFromOrderStatus(obs.status)
           /\ cancels'[o].updated = t
           /\ \A other \in Orders : other # o => cancels'[other] = cancels[other]
<1> DEFINE state == CancelStateFromOrderStatus(obs.status)
<1>1. state \in AttemptedCancelStates
  BY CancelStateTypes, ObservationAssumption
<1>2. cancels' = [cancels EXCEPT ![o].state = state, ![o].updated = t]
  BY DEF WriteCancelObservation
<1> HIDE DEF state
<1>3. /\ cancels' \in [Orders -> CancelRow]
      /\ cancels'[o].state = state /\ cancels'[o].updated = t
      /\ \A other \in Orders : other # o => cancels'[other] = cancels[other]
  BY <1>1, <1>2, CancelStateWritten DEF TypeOK
<1> QED
  BY <1>1, <1>3 DEF state

-----------------------------------------------------------------------------
\* What each process has to hold after a step.
Held(p) == /\ pc[p] \notin {"idle", "started", "stopped"} => target[p] \in Orders
           /\ pc[p] \in Answered => seen[p] # Absent

\* What a process's step that leaves the tables, the lease and the broker alone
\* has to show.
LEMMA LocalStepTypes ==
    ASSUME TypeOK, Holding, ProcessTypeOK',
           UNCHANGED <<leaseVars, controlVars, tableVars, broker, calls>>,
           \A p \in Processes : Held(p)'
    PROVE  TypeOK' /\ Holding'
<1>1. /\ LeaseTypeOK' /\ ControlTypeOK' /\ JournalTypeOK' /\ CancelJournalTypeOK'
      /\ (broker \in [Orders -> Observations \cup {Absent}])'
      /\ (calls \in [Orders -> Nat])'
  BY DEF TypeOK, LeaseTypeOK, ControlTypeOK, JournalTypeOK, CancelJournalTypeOK,
         leaseVars, controlVars, tableVars
<1>2. Holding'
  BY DEF Holding, Held, tableVars
<1> QED
  BY <1>1, <1>2 DEF TypeOK


LEMMA CheckTargetStep ==
    ASSUME TypeOK, Holding, NEW c \in Cancellers, CheckTarget(c)
    PROVE  TypeOK' /\ Holding'
<1>1. c \in Processes /\ ProcessTypeOK
  BY DEF Processes, TypeOK
<1>2. PICK o \in Orders : target' = [target EXCEPT ![c] = o]
  BY DEF CheckTarget
<1>3. ProcessTypeOK'
  BY <1>1, <1>2, GotoTypes, CancelAssumption
  DEF CheckTarget, ProcessTypeOK, plannedVars, CancellerPhases
<1>4. \A q \in Processes : Held(q)'
  BY <1>1, <1>2, BrokerAssumption
  DEF CheckTarget, Goto, ProcessTypeOK, Holding, Held,
      Answered, OrderRecording, CancelRecording
<1> QED
  BY <1>3, <1>4, LocalStepTypes DEF CheckTarget

LEMMA CheckSwitchesStep ==
    ASSUME TypeOK, Holding, NEW c \in Cancellers, CheckSwitches(c)
    PROVE  TypeOK' /\ Holding'
<1>1. c \in Processes /\ ProcessTypeOK
  BY DEF Processes, TypeOK
<1>2. ProcessTypeOK'
  BY <1>1, GotoTypes, CancelAssumption
  DEF CheckSwitches, ProcessTypeOK, plannedVars, CancellerPhases
<1>3. \A q \in Processes : Held(q)'
  BY <1>1
  DEF CheckSwitches, Goto, ProcessTypeOK, Holding, Held, Answered,
      OrderRecording, CancelRecording
<1> QED
  BY <1>2, <1>3, LocalStepTypes DEF CheckSwitches

LEMMA ReadTargetStep ==
    ASSUME TypeOK, Holding, NEW c \in Cancellers, ReadTarget(c)
    PROVE  TypeOK' /\ Holding'
<1>1. c \in Processes /\ ProcessTypeOK
  BY DEF Processes, TypeOK
<1>2. broker[target[c]] \in Observations
  BY <1>1 DEF TypeOK, Holding, ReadTarget
<1>3. ProcessTypeOK'
  BY <1>1, <1>2, GotoTypes, CancelAssumption
  DEF ReadTarget, ProcessTypeOK, plannedVars, CancellerPhases
<1>4. \A q \in Processes : Held(q)'
  BY <1>1, <1>2, BrokerAssumption
  DEF ReadTarget, Goto, ProcessTypeOK, Holding, Held,
      Answered, OrderRecording, CancelRecording
<1> QED
  BY <1>3, <1>4, LocalStepTypes DEF ReadTarget

LEMMA ObserveOutcomeStep ==
    ASSUME TypeOK, Holding, NEW c \in Cancellers, ObserveOutcome(c)
    PROVE  TypeOK' /\ Holding'
<1>1. c \in Processes /\ ProcessTypeOK
  BY DEF Processes, TypeOK
<1>2. broker[target[c]] \in Observations
  BY <1>1 DEF TypeOK, Holding, ObserveOutcome
<1>3. ProcessTypeOK'
  BY <1>1, <1>2, GotoTypes, CancelAssumption
  DEF ObserveOutcome, ProcessTypeOK, plannedVars, CancellerPhases
<1>4. \A q \in Processes : Held(q)'
  BY <1>1, <1>2, BrokerAssumption
  DEF ObserveOutcome, Goto, ProcessTypeOK, Holding, Held,
      Answered, OrderRecording, CancelRecording
<1> QED
  BY <1>3, <1>4, LocalStepTypes DEF ObserveOutcome

LEMMA FallbackReadStep ==
    ASSUME TypeOK, Holding, NEW c \in Cancellers, FallbackRead(c)
    PROVE  TypeOK' /\ Holding'
<1>1. c \in Processes /\ ProcessTypeOK
  BY DEF Processes, TypeOK
<1>2. broker[target[c]] \in Observations
  BY <1>1 DEF TypeOK, Holding, FallbackRead
<1>3. ProcessTypeOK'
  BY <1>1, <1>2, GotoTypes, CancelAssumption
  DEF FallbackRead, ProcessTypeOK, plannedVars, CancellerPhases
<1>4. \A q \in Processes : Held(q)'
  BY <1>1, <1>2, BrokerAssumption
  DEF FallbackRead, Goto, ProcessTypeOK, Holding, Held,
      Answered, OrderRecording, CancelRecording
<1> QED
  BY <1>3, <1>4, LocalStepTypes DEF FallbackRead

LEMMA ReadExactStep ==
    ASSUME TypeOK, Holding, NEW r \in Reconcilers, ReadExact(r)
    PROVE  TypeOK' /\ Holding'
<1>1. r \in Processes /\ ProcessTypeOK
  BY DEF Processes, TypeOK
<1>2. broker[target[r]] \in Observations
  BY <1>1 DEF TypeOK, Holding, ReadExact
<1>3. ProcessTypeOK'
  BY <1>1, <1>2, GotoTypes, CancelAssumption
  DEF ReadExact, ProcessTypeOK, plannedVars, ReconcilerPhases
<1>4. \A q \in Processes : Held(q)'
  BY <1>1, <1>2, BrokerAssumption
  DEF ReadExact, Goto, ProcessTypeOK, Holding, Held,
      Answered, OrderRecording, CancelRecording
<1> QED
  BY <1>3, <1>4, LocalStepTypes DEF ReadExact

LEMMA CheckUnresolvedStep ==
    ASSUME TypeOK, Holding, NEW r \in Reconcilers, CheckUnresolved(r)
    PROVE  TypeOK' /\ Holding'
<1>1. r \in Processes /\ ProcessTypeOK
  BY DEF Processes, TypeOK
<1>2. PICK o \in Orders : target' = [target EXCEPT ![r] = o]
  BY DEF CheckUnresolved
<1>3. ProcessTypeOK'
  BY <1>1, <1>2, GotoTypes, CancelAssumption
  DEF CheckUnresolved, ProcessTypeOK, plannedVars, ReconcilerPhases
<1>4. \A q \in Processes : Held(q)'
  BY <1>1, <1>2, BrokerAssumption
  DEF CheckUnresolved, Goto, ProcessTypeOK, Holding, Held,
      Answered, OrderRecording, CancelRecording
<1> QED
  BY <1>3, <1>4, LocalStepTypes DEF CheckUnresolved

LEMMA StampObservationStep ==
    ASSUME TypeOK, Holding, NEW r \in Reconcilers, StampObservation(r)
    PROVE  TypeOK' /\ Holding'
<1>1. r \in Processes /\ ProcessTypeOK
  BY DEF Processes, TypeOK
<1>2. now \in Nat
  BY DEF TypeOK, LeaseTypeOK
<1>3. ProcessTypeOK'
  BY <1>1, <1>2, GotoTypes, CancelAssumption
  DEF StampObservation, ProcessTypeOK, plannedVars, ReconcilerPhases
<1>4. \A q \in Processes : Held(q)'
  BY <1>1, <1>2, BrokerAssumption
  DEF StampObservation, Goto, ProcessTypeOK, Holding, Held,
      Answered, OrderRecording, CancelRecording
<1> QED
  BY <1>3, <1>4, LocalStepTypes DEF StampObservation

LEMMA StartWatchStep ==
    ASSUME TypeOK, Holding, NEW w \in Watchers, StartWatch(w)
    PROVE  TypeOK' /\ Holding'
<1>1. w \in Processes /\ ProcessTypeOK
  BY DEF Processes, TypeOK
<1>2. now \in Nat
  BY DEF TypeOK, LeaseTypeOK
<1>3. ProcessTypeOK'
  BY <1>1, <1>2, GotoTypes, CancelAssumption
  DEF StartWatch, ProcessTypeOK, plannedVars, WatcherPhases
<1>4. \A q \in Processes : Held(q)'
  BY <1>1, <1>2, BrokerAssumption
  DEF StartWatch, Goto, ProcessTypeOK, Holding, Held,
      Answered, OrderRecording, CancelRecording
<1> QED
  BY <1>3, <1>4, LocalStepTypes DEF StartWatch

LEMMA ReadListedStep ==
    ASSUME TypeOK, Holding, NEW w \in Watchers, ReadListed(w)
    PROVE  TypeOK' /\ Holding'
<1>1. w \in Processes /\ ProcessTypeOK
  BY DEF Processes, TypeOK
<1>2. PICK o \in Orders : /\ target' = [target EXCEPT ![w] = o]
                          /\ seen' = [seen EXCEPT ![w] = broker[o]]
                          /\ broker[o] \in Observations
  BY DEF ReadListed, TypeOK, Holding
<1>3. ProcessTypeOK'
  BY <1>1, <1>2, GotoTypes, CancelAssumption
  DEF ReadListed, ProcessTypeOK, plannedVars, WatcherPhases
<1>4. \A q \in Processes : Held(q)'
  BY <1>1, <1>2, BrokerAssumption
  DEF ReadListed, Goto, ProcessTypeOK, Holding, Held,
      Answered, OrderRecording, CancelRecording
<1> QED
  BY <1>3, <1>4, LocalStepTypes DEF ReadListed

LEMMA PlanStep ==
    ASSUME TypeOK, Holding, NEW c \in Cancellers, Plan(c)
    PROVE  TypeOK' /\ Holding'
<1>1. c \in Processes /\ ProcessTypeOK
  BY DEF Processes, TypeOK
<1>2. [at |-> at[c], status |-> seen[c].status] \in CancelIntents
  BY <1>1, ObservationAssumption
  DEF Plan, ProcessTypeOK, Holding, Answered, CancelIntents, ObservationRecord
<1>3. ProcessTypeOK'
  BY <1>1, <1>2, GotoTypes, CancelAssumption
  DEF Plan, ProcessTypeOK, plannedVars, CancellerPhases
<1>4. \A q \in Processes : Held(q)'
  BY <1>1, <1>2, BrokerAssumption
  DEF Plan, Goto, ProcessTypeOK, Holding, Held,
      Answered, OrderRecording, CancelRecording
<1> QED
  BY <1>3, <1>4, LocalStepTypes DEF Plan

\* The ways a record ends.
LEMMA RefuseTypes ==
    ASSUME TypeOK, Holding, NEW p \in Processes,
           pc[p] \in OrderRecording \cup CancelRecording, Refuse(p)
    PROVE  ProcessTypeOK' /\ \A q \in Processes : Held(q)'
<1>1. CASE pc[p] \in {"after", "outcome"}
  <2>1. p \in Cancellers /\ p \notin Reconcilers \cup Watchers
    BY <1>1 DEF TypeOK, ProcessTypeOK, Processes, ReconcilerPhases, WatcherPhases
  <2>2. ProcessTypeOK /\ target[p] \in Orders
    BY <1>1 DEF TypeOK, Holding
  <2>3. ProcessTypeOK'
    BY <1>1, <2>1, <2>2, GotoTypes
    DEF Refuse, ProcessTypeOK, plannedVars, CancellerPhases
  <2>4. \A q \in Processes : Held(q)'
    BY <1>1, <2>2 DEF Refuse, Goto, ProcessTypeOK, Holding, Held, Answered,
                      OrderRecording, CancelRecording
  <2> QED
    BY <2>3, <2>4
<1>2. CASE pc[p] \notin {"after", "outcome"}
  <2>1. Leave(p) /\ ProcessTypeOK
    BY <1>2 DEF Refuse, TypeOK
  <2>2. \A q \in Processes : Held(q)'
    BY <2>1, LeaveTypes DEF Holding, Held, Answered, OrderRecording, CancelRecording
  <2> QED
    BY <2>1, <2>2, LeaveTypes
<1> QED
  BY <1>1, <1>2

LEMMA RecordedTypes ==
    ASSUME TypeOK, Holding, NEW p \in Cancellers,
           pc[p] \in OrderRecording \cup CancelRecording,
           NEW phase \in {"recorded", "outcome", "fallback outcome", "releasing"},
           Recorded(p, phase)
    PROVE  ProcessTypeOK' /\ \A q \in Processes : Held(q)'
<1>1. p \in Processes /\ ProcessTypeOK /\ p \notin Reconcilers \cup Watchers
  BY CancelAssumption DEF Processes, TypeOK
<1>2. phase \in CancellerPhases
  BY DEF CancellerPhases
<1>3. ProcessTypeOK'
  BY <1>1, <1>2, GotoTypes DEF Recorded, ProcessTypeOK, plannedVars
<1>4. \A q \in Processes : Held(q)'
  BY <1>1 DEF Recorded, Goto, ProcessTypeOK, Holding, Held, Answered,
              OrderRecording, CancelRecording
<1> QED
  BY <1>3, <1>4

LEMMA LeaveHeld ==
    ASSUME TypeOK, Holding, NEW p \in Processes, Leave(p)
    PROVE  ProcessTypeOK' /\ \A q \in Processes : Held(q)'
<1>1. ProcessTypeOK
  BY DEF TypeOK
<1> QED
  BY <1>1, LeaveTypes DEF Holding, Held, Answered, OrderRecording, CancelRecording

LEMMA CheckOrderStep ==
    ASSUME TypeOK, Holding, NEW p \in Processes, CheckOrder(p)
    PROVE  TypeOK' /\ Holding'
<1>1. CASE ObservationAdmitted(target[p], seen[p])
  <2>1. StampOf(p) \in Nat
    BY DEF StampOf, TypeOK, ProcessTypeOK, LeaseTypeOK
  <2>2. ProcessTypeOK'
    BY <1>1, <2>1 DEF CheckOrder, TypeOK, ProcessTypeOK, plannedVars
  <2>3. \A q \in Processes : Held(q)'
    BY <1>1 DEF CheckOrder, Holding, Held
  <2> QED
    BY <2>2, <2>3, LocalStepTypes DEF CheckOrder
<1>2. CASE ~ObservationAdmitted(target[p], seen[p])
  BY <1>2, RefuseTypes, LocalStepTypes DEF CheckOrder
<1> QED
  BY <1>1, <1>2

LEMMA CheckCancelStep ==
    ASSUME TypeOK, Holding, NEW c \in Cancellers, CheckCancel(c)
    PROVE  TypeOK' /\ Holding'
<1>1. c \in Processes
  BY DEF Processes
<1>2. CASE CancelObservationAdmitted(target[c], seen[c].status)
  <2>1. ProcessTypeOK'
    BY <1>2 DEF CheckCancel, TypeOK, ProcessTypeOK, plannedVars
  <2>2. \A q \in Processes : Held(q)'
    BY <1>2 DEF CheckCancel, Holding, Held
  <2> QED
    BY <2>1, <2>2, LocalStepTypes DEF CheckCancel
<1>3. CASE ~CancelObservationAdmitted(target[c], seen[c].status)
  BY <1>1, <1>3, RefuseTypes, LocalStepTypes DEF CheckCancel
<1> QED
  BY <1>2, <1>3

LEMMA RecordFailsStep ==
    ASSUME TypeOK, Holding, NEW p \in Processes, RecordFails(p)
    PROVE  TypeOK' /\ Holding'
  BY RefuseTypes, LocalStepTypes DEF RecordFails

LEMMA StopStep ==
    ASSUME TypeOK, Holding, NEW p \in Processes, Stop(p)
    PROVE  TypeOK' /\ Holding'
  BY LeaveHeld, LocalStepTypes DEF Stop

-----------------------------------------------------------------------------
(* The steps that write a table, take the lease or reach the broker.       *)

LEMMA OrderWritten ==
    ASSUME TypeOK, Holding, NEW o \in Orders, NEW obs \in Observations,
           WriteObservation(o, obs)
    PROVE  JournalTypeOK' /\ \A other \in Orders : journal'[other].run \in Owners
<1>1. JournalTypeOK'
  BY WriteTypes DEF TypeOK
<1>2. journal[o] \in OrderRow
  BY DEF TypeOK, JournalTypeOK
<1>3. \A other \in Orders : journal'[other].run = journal[other].run
  BY <1>2 DEF WriteObservation, TypeOK, JournalTypeOK, OrderRow
<1> QED
  BY <1>1, <1>3 DEF Holding

LEMMA WriteOrderStep ==
    ASSUME TypeOK, Holding, NEW p \in Processes, WriteOrder(p)
    PROVE  TypeOK' /\ Holding'
<1>1. target[p] \in Orders /\ seen[p] \in Observations
  BY DEF WriteOrder, TypeOK, ProcessTypeOK, Holding, Answered, OrderRecording
<1>2. JournalTypeOK' /\ \A o \in Orders : journal'[o].run \in Owners
  BY <1>1, OrderWritten DEF WriteOrder
<1>3. updatedAt' \in [Orders -> Nat]
  BY DEF WriteOrder, TypeOK, CancelJournalTypeOK, ProcessTypeOK
<1>4. ProcessTypeOK' /\ \A q \in Processes : Held(q)'
  <2>1. CASE pc[p] = "watching"
    BY <2>1, LeaveHeld DEF WriteOrder
  <2>2. CASE pc[p] # "watching"
    <3>1. p \in Cancellers
      BY <2>2 DEF WriteOrder, TypeOK, ProcessTypeOK, Processes, OrderRecording,
                  ReconcilerPhases, WatcherPhases
    <3>2. \E phase \in {"recorded", "outcome", "fallback outcome"} :
             Recorded(p, phase)
      BY <2>2 DEF WriteOrder, OrderRecording
    <3> QED
      BY <3>1, <3>2, RecordedTypes DEF WriteOrder
  <2> QED
    BY <2>1, <2>2
<1>5. cancels' \in [Orders -> CancelRow]
  BY DEF WriteOrder, TypeOK, CancelJournalTypeOK
<1> QED
  BY <1>2, <1>3, <1>4, <1>5
  DEF WriteOrder, TypeOK, Holding, Held, LeaseTypeOK, ControlTypeOK,
      CancelJournalTypeOK, leaseVars, controlVars

LEMMA WriteCancelStep ==
    ASSUME TypeOK, Holding, NEW c \in Cancellers, WriteCancel(c)
    PROVE  TypeOK' /\ Holding'
<1>1. c \in Processes
  BY DEF Processes
<1>2. target[c] \in Orders /\ seen[c] \in Observations
  BY <1>1 DEF WriteCancel, TypeOK, ProcessTypeOK, Holding, Answered,
              CancelRecording
<1>3. invokedAt[c] \in Nat /\ at[c] \in Nat
  BY <1>1 DEF TypeOK, ProcessTypeOK
<1>4. cancels' \in [Orders -> CancelRow]
  BY <1>2, <1>3, RecordTypes DEF WriteCancel
<1>5. ProcessTypeOK' /\ \A q \in Processes : Held(q)'
  BY <1>1, LeaveHeld, RecordedTypes DEF WriteCancel
<1> QED
  BY <1>4, <1>5
  DEF WriteCancel, TypeOK, Holding, Held, LeaseTypeOK, ControlTypeOK,
      JournalTypeOK, CancelJournalTypeOK, leaseVars, controlVars

LEMMA ReserveIntentStep ==
    ASSUME TypeOK, Holding, NEW c \in Cancellers, ReserveIntent(c)
    PROVE  TypeOK' /\ Holding'
<1>1. c \in Processes /\ ProcessTypeOK /\ now \in Nat
  BY DEF Processes, TypeOK, LeaseTypeOK
<1>2. cancels' \in [Orders -> CancelRow]
  BY <1>1, ReserveCancelTypes
  DEF ReserveIntent, TypeOK, Holding, ProcessTypeOK
<1>3. ProcessTypeOK'
  BY <1>1, GotoTypes, CancelAssumption
  DEF ReserveIntent, ProcessTypeOK, CancellerPhases
<1>4. \A q \in Processes : Held(q)'
  BY <1>1 DEF ReserveIntent, Goto, ProcessTypeOK, Holding, Held, Answered,
              OrderRecording, CancelRecording
<1> QED
  BY <1>2, <1>3, <1>4
  DEF ReserveIntent, TypeOK, Holding, Held, LeaseTypeOK, ControlTypeOK,
      JournalTypeOK, CancelJournalTypeOK, leaseVars, controlVars

LEMMA AcquireCancelLeaseStep ==
    ASSUME TypeOK, Holding, NEW c \in Cancellers, AcquireCancelLease(c)
    PROVE  TypeOK' /\ Holding'
<1> DEFINE owner == journal[target[c]].run
<1>1. c \in Processes /\ ProcessTypeOK /\ invokedAt[c] \in Nat
  BY DEF Processes, TypeOK, ProcessTypeOK
<1>2. owner \in Owners
  BY <1>1 DEF AcquireCancelLease, Holding
<1>3. /\ TakeLease(owner, invokedAt[c])
      /\ cred' = [cred EXCEPT ![c] = NextCredentials(owner)]
  BY DEF AcquireCancelLease
<1> HIDE DEF owner
<1>4. /\ lease' \in LeaseRow /\ issued' \in Nat
      /\ NextCredentials(owner) \in Credentials
  BY <1>1, <1>2, <1>3, TakeLeaseTypes DEF TypeOK
<1>5. cred' \in [Processes -> Credentials]
  BY <1>1, <1>3, <1>4 DEF ProcessTypeOK
<1>6. ProcessTypeOK'
  BY <1>1, <1>5, GotoTypes, CancelAssumption
  DEF AcquireCancelLease, ProcessTypeOK, CancellerPhases
<1>7. \A q \in Processes : Held(q)'
  BY <1>1 DEF AcquireCancelLease, Goto, ProcessTypeOK, Holding, Held, Answered,
              OrderRecording, CancelRecording
<1> QED
  BY <1>4, <1>6, <1>7
  DEF AcquireCancelLease, TypeOK, Holding, Held, LeaseTypeOK, ControlTypeOK,
      JournalTypeOK, CancelJournalTypeOK, controlVars, tableVars

LEMMA ClaimIntentStep ==
    ASSUME TypeOK, Holding, NEW c \in Cancellers, ClaimIntent(c)
    PROVE  TypeOK' /\ Holding'
<1>1. c \in Processes /\ ProcessTypeOK /\ invokedAt[c] \in Nat
  BY DEF Processes, TypeOK, ProcessTypeOK
<1>2. target[c] \in Orders /\ CancelJournalTypeOK
  BY <1>1 DEF ClaimIntent, Holding, TypeOK
<1>3. "cancel_attempted" \in AttemptedCancelStates
  BY DEF AttemptedCancelStates
<1>4. ClaimCancel(target[c], invokedAt[c]) => cancels' \in [Orders -> CancelRow]
  BY <1>1, <1>2, <1>3, CancelStateWritten DEF ClaimCancel
<1>5. cancels' \in [Orders -> CancelRow]
  BY <1>2, <1>4 DEF ClaimIntent, CancelJournalTypeOK
<1>6. Goto(c, "claimed") \/ Goto(c, "releasing")
  BY DEF ClaimIntent
<1>7. ProcessTypeOK'
  BY <1>1, <1>6, GotoTypes, CancelAssumption
  DEF ClaimIntent, ProcessTypeOK, plannedVars, CancellerPhases
<1>8. \A q \in Processes : Held(q)'
  BY <1>1, <1>2, <1>6
  DEF ClaimIntent, Goto, ProcessTypeOK, Holding, Held, Answered,
      OrderRecording, CancelRecording
<1> QED
  BY <1>5, <1>7, <1>8
  DEF ClaimIntent, TypeOK, Holding, Held, LeaseTypeOK, ControlTypeOK,
      JournalTypeOK, CancelJournalTypeOK, leaseVars, controlVars

LEMMA BrokerTypes ==
    ASSUME TypeOK, Holding, NEW o \in Orders, BrokerMoves(o)
    PROVE  /\ broker' \in [Orders -> Observations \cup {Absent}]
           /\ \A other \in Orders : broker'[other] # Absent
  BY BrokerAssumption DEF TypeOK, Holding, BrokerMoves

LEMMA CallCancelStep ==
    ASSUME TypeOK, Holding, NEW c \in Cancellers, CallCancel(c)
    PROVE  TypeOK' /\ Holding'
<1>1. c \in Processes /\ ProcessTypeOK
  BY DEF Processes, TypeOK
<1>2. target[c] \in Orders
  BY <1>1 DEF CallCancel, Holding
<1>3. /\ broker' \in [Orders -> Observations \cup {Absent}]
      /\ \A o \in Orders : broker'[o] # Absent
  BY <1>2, BrokerTypes DEF CallCancel, TypeOK, Holding
<1>4. calls' \in [Orders -> Nat]
  BY <1>2 DEF CallCancel, TypeOK
<1>5. Goto(c, "answered") \/ Goto(c, "raised")
  BY DEF CallCancel
<1>6. ProcessTypeOK'
  BY <1>1, <1>5, GotoTypes, CancelAssumption
  DEF CallCancel, ProcessTypeOK, plannedVars, CancellerPhases
<1>7. \A q \in Processes : Held(q)'
  BY <1>1, <1>2, <1>5
  DEF CallCancel, Goto, ProcessTypeOK, Holding, Held, Answered,
      OrderRecording, CancelRecording
<1> QED
  BY <1>3, <1>4, <1>6, <1>7
  DEF CallCancel, TypeOK, Holding, Held, LeaseTypeOK, ControlTypeOK,
      JournalTypeOK, CancelJournalTypeOK, leaseVars, controlVars, tableVars

LEMMA AmbiguousCancel ==
    ASSUME CancelJournalTypeOK, NEW o \in Orders, NEW t \in Nat,
           MarkCancelAmbiguous(o, t)
    PROVE  /\ cancels' \in [Orders -> CancelRow]
           /\ cancels[o].state \in AttemptedCancelStates
                => cancels'[o].state \in AttemptedCancelStates
           /\ \/ cancels'[o].state = cancels[o].state
              \/ /\ cancels[o].state \in {"cancel_attempted", "unknown"}
                 /\ cancels'[o].state = "unknown"
           /\ cancels'[o].updated \in {cancels[o].updated, t}
           /\ \A other \in Orders : other # o => cancels'[other] = cancels[other]
<1>1. "unknown" \in AttemptedCancelStates
  BY DEF AttemptedCancelStates
<1>2. CASE cancels[o].state \in {"cancel_attempted", "unknown"}
  BY <1>1, <1>2, CancelStateWritten DEF MarkCancelAmbiguous
<1>3. CASE cancels[o].state \notin {"cancel_attempted", "unknown"}
  BY <1>3 DEF MarkCancelAmbiguous, CancelJournalTypeOK
<1> QED
  BY <1>2, <1>3

LEMMA MarkAmbiguousStep ==
    ASSUME TypeOK, Holding, NEW c \in Cancellers, MarkAmbiguous(c)
    PROVE  TypeOK' /\ Holding'
<1>1. c \in Processes /\ ProcessTypeOK /\ invokedAt[c] \in Nat
  BY DEF Processes, TypeOK, ProcessTypeOK
<1>2. target[c] \in Orders /\ CancelJournalTypeOK
  BY <1>1 DEF MarkAmbiguous, Holding, TypeOK
<1>3. cancels' \in [Orders -> CancelRow]
  BY <1>1, <1>2, AmbiguousCancel DEF MarkAmbiguous, CancelJournalTypeOK
<1>4. Goto(c, "releasing unread") \/ Goto(c, "releasing")
  BY DEF MarkAmbiguous
<1>5. ProcessTypeOK'
  BY <1>1, <1>4, GotoTypes, CancelAssumption
  DEF MarkAmbiguous, ProcessTypeOK, plannedVars, CancellerPhases
<1>6. \A q \in Processes : Held(q)'
  BY <1>1, <1>2, <1>4
  DEF MarkAmbiguous, Goto, ProcessTypeOK, Holding, Held, Answered,
      OrderRecording, CancelRecording
<1> QED
  BY <1>3, <1>5, <1>6
  DEF MarkAmbiguous, TypeOK, Holding, Held, LeaseTypeOK, ControlTypeOK,
      JournalTypeOK, CancelJournalTypeOK, leaseVars, controlVars

LEMMA ReleaseCancelLeaseStep ==
    ASSUME TypeOK, Holding, NEW c \in Cancellers, ReleaseCancelLease(c)
    PROVE  TypeOK' /\ Holding'
<1>1. c \in Processes /\ ProcessTypeOK /\ cred[c] \in Credentials
  BY DEF Processes, TypeOK, ProcessTypeOK
<1>2. lease' \in LeaseRow /\ issued' \in Nat
  BY <1>1, ReleaseLeaseTypes
  DEF ReleaseCancelLease, ReleaseLease, TypeOK, LeaseTypeOK
<1>3. ProcessTypeOK' /\ \A q \in Processes : Held(q)'
  <2>1. CASE Leave(c)
    BY <1>1, <2>1, LeaveHeld
  <2>2. CASE /\ pc[c] = "releasing unread"
             /\ Goto(c, "unread")
             /\ UNCHANGED <<target, seen, at, checked, plannedVars>>
    <3>1. ProcessTypeOK'
      BY <1>1, <2>2, GotoTypes, CancelAssumption
      DEF ProcessTypeOK, plannedVars, CancellerPhases
    <3>2. \A q \in Processes : Held(q)'
      BY <1>1, <2>2 DEF Goto, ProcessTypeOK, Holding, Held, Answered,
                        OrderRecording, CancelRecording
    <3> QED
      BY <3>1, <3>2
  <2> QED
    BY <2>1, <2>2 DEF ReleaseCancelLease
<1> QED
  BY <1>2, <1>3
  DEF ReleaseCancelLease, TypeOK, Holding, Held, LeaseTypeOK, ControlTypeOK,
      JournalTypeOK, CancelJournalTypeOK, controlVars, tableVars

LEMMA ReconcileStep ==
    ASSUME TypeOK, Holding, NEW r \in Reconcilers, Reconcile(r)
    PROVE  TypeOK' /\ Holding'
<1>1. r \in Processes
  BY DEF Processes
<1>2. target[r] \in Orders /\ seen[r] \in Observations /\ at[r] \in Nat
  BY <1>1 DEF Reconcile, TypeOK, ProcessTypeOK, Holding, Answered
<1>3. ProcessTypeOK' /\ \A q \in Processes : Held(q)'
  BY <1>1, LeaveHeld DEF Reconcile
<1>4. /\ JournalTypeOK' /\ CancelJournalTypeOK'
      /\ \A o \in Orders : journal'[o].run \in Owners
  <2>1. CASE ReconcileCancel(target[r], seen[r], at[r])
    <3>1. cancels' \in [Orders -> CancelRow]
      BY <1>2, <2>1, RecordTypes DEF ReconcileCancel
    <3>2. updatedAt' \in [Orders -> Nat]
      BY <1>2, <2>1 DEF ReconcileCancel, TypeOK, CancelJournalTypeOK
    <3> QED
      BY <1>2, <2>1, <3>1, <3>2, OrderWritten
      DEF ReconcileCancel, CancelJournalTypeOK
  <2>2. CASE UNCHANGED tableVars
    BY <2>2 DEF tableVars, TypeOK, JournalTypeOK, CancelJournalTypeOK, Holding
  <2> QED
    BY <2>1, <2>2 DEF Reconcile
<1> QED
  BY <1>3, <1>4
  DEF Reconcile, TypeOK, Holding, Held, LeaseTypeOK, ControlTypeOK, leaseVars,
      controlVars

LEMMA BrokerEvolvesStep ==
    ASSUME TypeOK, Holding, NEW o \in Orders, BrokerEvolves(o)
    PROVE  TypeOK' /\ Holding'
  BY BrokerTypes
  DEF BrokerEvolves, TypeOK, Holding, LeaseTypeOK, ControlTypeOK, JournalTypeOK,
      CancelJournalTypeOK, ProcessTypeOK, leaseVars, controlVars, tableVars,
      processVars, plannedVars

LEMMA ControlChangesStep ==
    ASSUME TypeOK, Holding, ControlChanges
    PROVE  TypeOK' /\ Holding'
<1>1. ControlTypeOK'
  BY ControlTypes DEF ControlChanges, TypeOK
<1> QED
  BY <1>1
  DEF ControlChanges, TypeOK, Holding, LeaseTypeOK, JournalTypeOK,
      CancelJournalTypeOK, ProcessTypeOK, leaseVars, tableVars, processVars,
      plannedVars

LEMMA ClockTicksStep ==
    ASSUME TypeOK, Holding, ClockTicks
    PROVE  TypeOK' /\ Holding'
  BY DEF ClockTicks, Tick, TypeOK, Holding, LeaseTypeOK, ControlTypeOK,
         JournalTypeOK, CancelJournalTypeOK, ProcessTypeOK, controlVars,
         tableVars, processVars, plannedVars

LEMMA CancelTypeStep == TypeOK /\ Holding /\ [Next]_vars => TypeOK' /\ Holding'
<1> SUFFICES ASSUME TypeOK, Holding, [Next]_vars
             PROVE  TypeOK' /\ Holding'
  OBVIOUS
<1>1. CASE UNCHANGED vars
  BY <1>1 DEF vars, TypeOK, Holding, LeaseTypeOK, ControlTypeOK, JournalTypeOK,
              CancelJournalTypeOK, ProcessTypeOK, leaseVars, controlVars,
              tableVars, processVars, plannedVars
<1>2. ASSUME NEW c \in Cancellers, CancellerStep(c)
      PROVE  TypeOK' /\ Holding'
  <2>1. c \in Processes
    BY DEF Processes
  <2> QED
    BY <1>2, <2>1, CheckTargetStep, CheckSwitchesStep, ReadTargetStep, CheckOrderStep,
       WriteOrderStep, PlanStep, ReserveIntentStep, AcquireCancelLeaseStep,
       ClaimIntentStep, CallCancelStep, ObserveOutcomeStep, CheckCancelStep,
       WriteCancelStep, MarkAmbiguousStep, ReleaseCancelLeaseStep,
       FallbackReadStep, Zenon
    DEF CancellerStep
<1>3. ASSUME NEW r \in Reconcilers, ReconcilerStep(r)
      PROVE  TypeOK' /\ Holding'
  BY <1>3, CheckUnresolvedStep, ReadExactStep, StampObservationStep,
     ReconcileStep, Zenon
  DEF ReconcilerStep
<1>4. ASSUME NEW w \in Watchers, WatcherStep(w)
      PROVE  TypeOK' /\ Holding'
  <2>1. w \in Processes
    BY DEF Processes
  <2> QED
    BY <1>4, <2>1, StartWatchStep, ReadListedStep, CheckOrderStep,
       WriteOrderStep, Zenon
    DEF WatcherStep
<1>5. ASSUME NEW p \in Processes, RecordFails(p) \/ Stop(p)
      PROVE  TypeOK' /\ Holding'
  BY <1>5, RecordFailsStep, StopStep
<1>6. ASSUME NEW o \in Orders, BrokerEvolves(o)
      PROVE  TypeOK' /\ Holding'
  BY <1>6, BrokerEvolvesStep
<1> QED
  BY <1>1, <1>2, <1>3, <1>4, <1>5, <1>6, ControlChangesStep, ClockTicksStep,
     Zenon
  DEF Next

\* Rows, leases, answers and intents stay what the code says they are, and a
\* process that records always holds an order and an answer to record.
THEOREM CancelTyped == Spec => []TypeOK
<1>1. Init => TypeOK /\ Holding
  BY CancelTypeInit
<1>2. TypeOK /\ Holding /\ [Next]_vars => (TypeOK /\ Holding)'
  BY CancelTypeStep
<1> QED
  BY <1>1, <1>2, PTL DEF Spec

-----------------------------------------------------------------------------
(* At most one cancel call per order.                                      *)

\* A claim is exclusive and precedes the only call it allows: whoever stands
\* between its claim and its call is alone there, nobody called before, and the
\* row already says that the cancel was attempted.
Exclusive ==
    /\ AtMostOneCancel
    /\ CancelLeavesEvidence
    /\ \A c \in Cancellers : pc[c] = "claimed" =>
          /\ calls[target[c]] = 0
          /\ cancels[target[c]].state \in AttemptedCancelStates
    /\ \A c, d \in Cancellers :
          pc[c] = "claimed" /\ pc[d] = "claimed" /\ target[c] = target[d] => c = d

\* No step but a claim and a call disturbs that: no row forgets its attempt.
Quiet ==
    /\ UNCHANGED calls
    /\ \A o \in Orders : cancels[o].state \in AttemptedCancelStates =>
                            cancels'[o].state \in AttemptedCancelStates
    /\ \A c \in Cancellers : pc'[c] = "claimed" =>
                                pc[c] = "claimed" /\ target'[c] = target[c]

LEMMA RefuseQuiet ==
    ASSUME TypeOK, NEW p \in Processes, Refuse(p) \/ Leave(p), UNCHANGED <<cancels, calls>>
    PROVE  Quiet
<1>1. \A c \in Cancellers : c \in Processes
  BY DEF Processes
<1> QED
  BY <1>1 DEF Refuse, Leave, Goto, Quiet, TypeOK, ProcessTypeOK, plannedVars

LEMMA LocalQuiet ==
    ASSUME TypeOK, NEW p \in Processes, UNCHANGED <<cancels, calls>>,
           \/ CheckTarget(p) \/ CheckSwitches(p) \/ ReadTarget(p)
           \/ CheckOrder(p) \/ Plan(p)
           \/ ObserveOutcome(p) \/ CheckCancel(p) \/ FallbackRead(p)
           \/ CheckUnresolved(p) \/ ReadExact(p) \/ StampObservation(p)
           \/ StartWatch(p) \/ ReadListed(p) \/ RecordFails(p) \/ Stop(p)
    PROVE  Quiet
<1>1. \A c \in Cancellers : c \in Processes
  BY DEF Processes
<1>2. CASE \/ CheckOrder(p) \/ CheckCancel(p) \/ RecordFails(p) \/ Stop(p)
  <2>1. CASE Refuse(p) \/ Leave(p)
    BY <2>1, RefuseQuiet
  <2>2. CASE UNCHANGED <<pc, target>>
    BY <2>2 DEF Quiet
  <2> QED
    BY <1>2, <2>1, <2>2 DEF CheckOrder, CheckCancel, RecordFails, Stop
<1>3. CASE CheckTarget(p) \/ CheckSwitches(p) \/ ReadTarget(p) \/ Plan(p)
  BY <1>1, <1>3
  DEF CheckTarget, CheckSwitches, ReadTarget, Plan, Goto, Quiet, TypeOK, ProcessTypeOK
<1>4. CASE ObserveOutcome(p) \/ FallbackRead(p)
  BY <1>1, <1>4 DEF ObserveOutcome, FallbackRead, Goto, Quiet, TypeOK, ProcessTypeOK
<1>5. CASE CheckUnresolved(p) \/ ReadExact(p) \/ StampObservation(p)
  BY <1>1, <1>5
  DEF CheckUnresolved, ReadExact, StampObservation, Goto, Quiet, TypeOK, ProcessTypeOK
<1>6. CASE StartWatch(p) \/ ReadListed(p)
  BY <1>1, <1>6 DEF StartWatch, ReadListed, Goto, Quiet, TypeOK, ProcessTypeOK
<1> QED
  BY <1>2, <1>3, <1>4, <1>5, <1>6

LEMMA WriteOrderQuiet ==
    ASSUME TypeOK, NEW p \in Processes, WriteOrder(p)
    PROVE  Quiet
<1>1. \A c \in Cancellers : c \in Processes
  BY DEF Processes
<1>2. UNCHANGED <<cancels, calls>>
  BY DEF WriteOrder
<1>3. CASE Leave(p)
  BY <1>2, <1>3, RefuseQuiet
<1>4. CASE \E phase \in {"recorded", "outcome", "fallback outcome"} : Recorded(p, phase)
  BY <1>1, <1>2, <1>4 DEF Recorded, Goto, Quiet, TypeOK, ProcessTypeOK
<1> QED
  BY <1>3, <1>4 DEF WriteOrder, OrderRecording

LEMMA WriteCancelQuiet ==
    ASSUME TypeOK, Holding, NEW p \in Cancellers, WriteCancel(p)
    PROVE  Quiet
<1>1. p \in Processes /\ \A c \in Cancellers : c \in Processes
  BY DEF Processes
<1>2. target[p] \in Orders /\ seen[p] \in Observations
  BY <1>1 DEF WriteCancel, TypeOK, ProcessTypeOK, Holding, Answered, CancelRecording
<1>3. invokedAt[p] \in Nat /\ at[p] \in Nat
  BY <1>1 DEF TypeOK, ProcessTypeOK
<1>4. \A o \in Orders : cancels[o].state \in AttemptedCancelStates =>
                           cancels'[o].state \in AttemptedCancelStates
  BY <1>2, <1>3, RecordTypes DEF WriteCancel
<1>5. \A c \in Cancellers : pc'[c] = "claimed" =>
                               pc[c] = "claimed" /\ target'[c] = target[c]
  BY <1>1 DEF WriteCancel, Recorded, Leave, Goto, TypeOK, ProcessTypeOK
<1> QED
  BY <1>4, <1>5 DEF WriteCancel, Quiet

LEMMA ReserveIntentQuiet ==
    ASSUME TypeOK, Holding, NEW p \in Cancellers, ReserveIntent(p)
    PROVE  Quiet
<1>1. p \in Processes /\ \A c \in Cancellers : c \in Processes
  BY DEF Processes
<1>2. target[p] \in Orders
  BY <1>1 DEF ReserveIntent, Holding
<1>3. "none" \notin AttemptedCancelStates
  BY DEF AttemptedCancelStates, TerminalCancelStates
<1>4. \A o \in Orders : cancels[o].state \in AttemptedCancelStates =>
                           cancels'[o].state \in AttemptedCancelStates
  BY <1>2, <1>3 DEF ReserveIntent, ReserveCancel, TypeOK, CancelJournalTypeOK
<1>5. \A c \in Cancellers : pc'[c] = "claimed" =>
                               pc[c] = "claimed" /\ target'[c] = target[c]
  BY <1>1 DEF ReserveIntent, Goto, TypeOK, ProcessTypeOK
<1> QED
  BY <1>4, <1>5 DEF ReserveIntent, Quiet

LEMMA MarkAmbiguousQuiet ==
    ASSUME TypeOK, Holding, NEW p \in Cancellers, MarkAmbiguous(p)
    PROVE  Quiet
<1>1. p \in Processes /\ \A c \in Cancellers : c \in Processes
  BY DEF Processes
<1>2. target[p] \in Orders /\ invokedAt[p] \in Nat /\ CancelJournalTypeOK
  BY <1>1 DEF MarkAmbiguous, Holding, TypeOK, ProcessTypeOK
<1>3. \A o \in Orders : cancels[o].state \in AttemptedCancelStates =>
                           cancels'[o].state \in AttemptedCancelStates
  BY <1>2, AmbiguousCancel DEF MarkAmbiguous
<1>4. \A c \in Cancellers : pc'[c] = "claimed" =>
                               pc[c] = "claimed" /\ target'[c] = target[c]
  BY <1>1 DEF MarkAmbiguous, Goto, TypeOK, ProcessTypeOK
<1> QED
  BY <1>3, <1>4 DEF MarkAmbiguous, Quiet

LEMMA LeaseQuiet ==
    ASSUME TypeOK, NEW p \in Cancellers, AcquireCancelLease(p) \/ ReleaseCancelLease(p)
    PROVE  Quiet
<1>1. p \in Processes /\ \A c \in Cancellers : c \in Processes
  BY DEF Processes
<1>2. UNCHANGED <<cancels, calls>>
  BY DEF AcquireCancelLease, ReleaseCancelLease, tableVars
<1> QED
  BY <1>1, <1>2 DEF AcquireCancelLease, ReleaseCancelLease, Leave, Goto, Quiet,
                    TypeOK, ProcessTypeOK

LEMMA ReconcileQuiet ==
    ASSUME TypeOK, Holding, NEW p \in Reconcilers, Reconcile(p)
    PROVE  Quiet
<1>1. p \in Processes /\ \A c \in Cancellers : c \in Processes
  BY DEF Processes
<1>2. target[p] \in Orders /\ seen[p] \in Observations /\ at[p] \in Nat
  BY <1>1 DEF Reconcile, TypeOK, ProcessTypeOK, Holding, Answered
<1>3. ReconcileCancel(target[p], seen[p], at[p]) \/ UNCHANGED cancels
  BY DEF Reconcile, tableVars
<1>4. \A o \in Orders : cancels[o].state \in AttemptedCancelStates =>
                           cancels'[o].state \in AttemptedCancelStates
  BY <1>2, <1>3, RecordTypes DEF ReconcileCancel
<1>5. \A c \in Cancellers : pc'[c] = "claimed" =>
                               pc[c] = "claimed" /\ target'[c] = target[c]
  BY <1>1 DEF Reconcile, Leave, Goto, TypeOK, ProcessTypeOK
<1> QED
  BY <1>4, <1>5 DEF Reconcile, Quiet

LEMMA QuietStep ==
    ASSUME TypeOK, Holding, [Next]_vars,
           \A c \in Cancellers : ~ClaimIntent(c) /\ ~CallCancel(c)
    PROVE  Quiet
<1> USE DEF Processes
<1>1. CASE UNCHANGED vars
  BY <1>1 DEF vars, processVars, tableVars, Quiet
<1>2. ASSUME NEW c \in Cancellers, CancellerStep(c)
      PROVE  Quiet
  <2>1. CASE \/ CheckTarget(c) \/ CheckSwitches(c) \/ ReadTarget(c) \/ CheckOrder(c) \/ Plan(c)
             \/ ObserveOutcome(c) \/ CheckCancel(c) \/ FallbackRead(c)
    <3>1. UNCHANGED <<cancels, calls>>
      BY <2>1 DEF CheckTarget, CheckSwitches, ReadTarget, CheckOrder, Plan, ObserveOutcome,
                  CheckCancel, FallbackRead, tableVars
    <3> QED
      BY <2>1, <3>1, LocalQuiet, Zenon
  <2> QED
    BY <1>2, <2>1, WriteOrderQuiet, WriteCancelQuiet, ReserveIntentQuiet,
       MarkAmbiguousQuiet, LeaseQuiet
    DEF CancellerStep
<1>3. ASSUME NEW r \in Reconcilers, ReconcilerStep(r)
      PROVE  Quiet
  <2>1. CASE CheckUnresolved(r) \/ ReadExact(r) \/ StampObservation(r)
    <3>1. UNCHANGED <<cancels, calls>>
      BY <2>1 DEF CheckUnresolved, ReadExact, StampObservation, tableVars
    <3> QED
      BY <2>1, <3>1, LocalQuiet, Zenon
  <2> QED
    BY <1>3, <2>1, ReconcileQuiet DEF ReconcilerStep
<1>4. ASSUME NEW w \in Watchers, WatcherStep(w)
      PROVE  Quiet
  <2>1. CASE StartWatch(w) \/ ReadListed(w) \/ CheckOrder(w)
    <3>1. UNCHANGED <<cancels, calls>>
      BY <2>1 DEF StartWatch, ReadListed, CheckOrder, tableVars
    <3> QED
      BY <2>1, <3>1, LocalQuiet, Zenon
  <2> QED
    BY <1>4, <2>1, WriteOrderQuiet DEF WatcherStep
<1>5. ASSUME NEW p \in Processes, RecordFails(p) \/ Stop(p)
      PROVE  Quiet
  <2>1. UNCHANGED <<cancels, calls>>
    BY <1>5 DEF RecordFails, Stop, tableVars
  <2> QED
    BY <1>5, <2>1, LocalQuiet, Zenon
<1>6. CASE (\E o \in Orders : BrokerEvolves(o)) \/ ControlChanges \/ ClockTicks
  BY <1>6 DEF BrokerEvolves, ControlChanges, ClockTicks, processVars, tableVars,
              Quiet
<1> QED
  BY <1>1, <1>2, <1>3, <1>4, <1>5, <1>6 DEF Next

LEMMA ClaimExclusive ==
    ASSUME TypeOK, Holding, Exclusive, NEW c \in Cancellers, ClaimIntent(c)
    PROVE  Exclusive'
<1>1. c \in Processes /\ \A d \in Cancellers : d \in Processes
  BY DEF Processes
<1>2. target[c] \in Orders /\ CancelJournalTypeOK /\ invokedAt[c] \in Nat
  BY <1>1 DEF ClaimIntent, Holding, TypeOK, ProcessTypeOK
<1>3. \A d \in Cancellers : d # c => pc'[d] = pc[d]
  BY <1>1 DEF ClaimIntent, Goto, TypeOK, ProcessTypeOK
<1>4. UNCHANGED <<target, calls>>
  BY DEF ClaimIntent
<1>5. CASE /\ CancelClaimAdmitted(target[c], intent[c], cred[c], invokedAt[c])
           /\ ClaimCancel(target[c], invokedAt[c])
  <2>1. "cancel_attempted" \in AttemptedCancelStates
        /\ "reserved" \notin AttemptedCancelStates
    BY DEF AttemptedCancelStates, TerminalCancelStates
  <2>2. /\ cancels'[target[c]].state = "cancel_attempted"
        /\ \A o \in Orders : o # target[c] => cancels'[o] = cancels[o]
    <3>1. PICK o \in Orders, t \in Nat : o = target[c] /\ ClaimCancel(o, t)
      BY <1>2, <1>5
    <3>2. "cancel_attempted" \in AttemptedCancelStates /\ CancelJournalTypeOK
      BY <1>2, <2>1
    <3>3. cancels' = [cancels EXCEPT ![o].state = "cancel_attempted", ![o].updated = t]
      BY <3>1 DEF ClaimCancel
    <3>4. /\ cancels'[o].state = "cancel_attempted" /\ cancels'[o].updated = t
          /\ \A other \in Orders : other # o => cancels'[other] = cancels[other]
      BY <3>2, <3>3, CancelStateWritten, ZenonT(30)
    <3> QED
      BY <3>1, <3>4
  <2>3. cancels[target[c]].state \notin AttemptedCancelStates
    BY <1>5, <2>1 DEF CancelClaimAdmitted
  <2>4. calls[target[c]] = 0
    BY <1>2, <2>3 DEF Exclusive, CancelLeavesEvidence, TypeOK
  <2>5. \A d \in Cancellers : pc[d] = "claimed" => target[d] # target[c]
    BY <2>3 DEF Exclusive
  <2>6. \A d \in Cancellers : pc[d] = "claimed" => target[d] \in Orders
    BY <1>1 DEF Holding
  <2>7. \A d \in Cancellers : pc'[d] = "claimed" => d = c \/ pc[d] = "claimed"
    BY <1>3
  <2>8. (AtMostOneCancel /\ CancelLeavesEvidence)'
    BY <1>4, <2>1, <2>2
    DEF Exclusive, AtMostOneCancel, CancelLeavesEvidence
  <2> QED
    BY <1>4, <2>1, <2>2, <2>4, <2>5, <2>6, <2>7, <2>8 DEF Exclusive
<1>6. CASE UNCHANGED cancels /\ Goto(c, "releasing")
  <2>1. \A d \in Cancellers : pc'[d] = "claimed" => pc[d] = "claimed"
    BY <1>1, <1>6 DEF Goto, TypeOK, ProcessTypeOK
  <2> QED
    BY <1>4, <1>6, <2>1 DEF Exclusive, AtMostOneCancel, CancelLeavesEvidence
<1> QED
  BY <1>5, <1>6 DEF ClaimIntent

LEMMA CallExclusive ==
    ASSUME TypeOK, Holding, Exclusive, NEW c \in Cancellers, CallCancel(c)
    PROVE  Exclusive'
<1>1. c \in Processes /\ \A d \in Cancellers : d \in Processes
  BY DEF Processes
<1>2. target[c] \in Orders /\ pc[c] = "claimed"
  BY <1>1 DEF CallCancel, Holding
<1>3. UNCHANGED <<target, cancels>>
  BY DEF CallCancel, tableVars
<1>4. \A d \in Cancellers : pc'[d] = "claimed" => d # c /\ pc[d] = "claimed"
  BY <1>1 DEF CallCancel, Goto, TypeOK, ProcessTypeOK
<1>5. calls[target[c]] = 0 /\ cancels[target[c]].state \in AttemptedCancelStates
  BY <1>2 DEF Exclusive
<1>6. /\ calls'[target[c]] = 1
      /\ \A o \in Orders : o # target[c] => calls'[o] = calls[o]
  BY <1>2, <1>5 DEF CallCancel, TypeOK
<1>7. \A d \in Cancellers : pc'[d] = "claimed" => target[d] # target[c]
  BY <1>2, <1>4 DEF Exclusive
<1>8. \A d \in Cancellers : pc'[d] = "claimed" => target[d] \in Orders
  BY <1>1, <1>4 DEF Holding
<1>9. (AtMostOneCancel /\ CancelLeavesEvidence)'
  BY <1>3, <1>5, <1>6 DEF Exclusive, AtMostOneCancel, CancelLeavesEvidence
<1> QED
  BY <1>3, <1>4, <1>6, <1>7, <1>8, <1>9 DEF Exclusive

LEMMA ExclusiveStep == TypeOK /\ Holding /\ Exclusive /\ [Next]_vars => Exclusive'
<1> SUFFICES ASSUME TypeOK, Holding, Exclusive, [Next]_vars
             PROVE  Exclusive'
  OBVIOUS
<1>1. CASE \A c \in Cancellers : ~ClaimIntent(c) /\ ~CallCancel(c)
  <2>1. Quiet
    BY <1>1, QuietStep
  <2>2. \A c \in Cancellers : pc[c] = "claimed" => target[c] \in Orders
    BY DEF Holding, Processes
  <2> QED
    BY <2>1, <2>2 DEF Quiet, Exclusive, AtMostOneCancel, CancelLeavesEvidence
<1>2. CASE \E c \in Cancellers : ClaimIntent(c) \/ CallCancel(c)
  BY <1>2, ClaimExclusive, CallExclusive
<1> QED
  BY <1>1, <1>2

LEMMA ExclusiveInit == Init => Exclusive
  BY DEF Init, Exclusive, AtMostOneCancel, CancelLeavesEvidence, Processes

\* However many commands cancel an order, the broker's cancel is called at most
\* once for it, whatever crashes, expires or is retried.
THEOREM CancelOnce == Spec => []AtMostOneCancel
<1>1. Init => TypeOK /\ Holding /\ Exclusive
  BY CancelTypeInit, ExclusiveInit
<1>2. TypeOK /\ Holding /\ Exclusive /\ [Next]_vars => (TypeOK /\ Holding /\ Exclusive)'
  BY CancelTypeStep, ExclusiveStep
<1>3. Exclusive => AtMostOneCancel
  BY DEF Exclusive
<1> QED
  BY <1>1, <1>2, <1>3, PTL DEF Spec

\* No call without its row: the evidence is durable before the call and is never
\* lost after it.
THEOREM CancelEvidence == Spec => []CancelLeavesEvidence
<1>1. Init => TypeOK /\ Holding /\ Exclusive
  BY CancelTypeInit, ExclusiveInit
<1>2. TypeOK /\ Holding /\ Exclusive /\ [Next]_vars => (TypeOK /\ Holding /\ Exclusive)'
  BY CancelTypeStep, ExclusiveStep
<1>3. Exclusive => CancelLeavesEvidence
  BY DEF Exclusive
<1> QED
  BY <1>1, <1>2, <1>3, PTL DEF Spec

-----------------------------------------------------------------------------
(* A row that is over is right.                                            *)

\* A final answer is right for as long as a process holds it, because the broker
\* ends an order once; a process without a target holds none.
Truthful ==
    /\ TerminalRowsAreTrue
    /\ \A p \in Processes :
          /\ pc[p] = "idle" => seen[p] = Absent
          /\ seen[p] # Absent =>
                /\ target[p] \in Orders
                /\ IsFinal(seen[p]) => broker[target[p]] = seen[p]

LEMMA TerminalCancels ==
    ASSUME NEW obs \in ObservationRecord,
           CancelStateFromOrderStatus(obs.status) \in TerminalCancelStates
    PROVE  IsFinal(obs)
<1>1. obs.status \in BrokerStatuses
  BY DEF ObservationRecord
<1> QED
  BY <1>1 DEF BrokerStatuses, CancelStateFromOrderStatus, TerminalCancelStates,
              IsFinal, FinalStatuses

LEMMA BrokerKeepsEnds ==
    ASSUME TypeOK, NEW moved \in Orders, BrokerMoves(moved) \/ UNCHANGED broker
    PROVE  \A o \in Orders : IsFinal(broker[o]) => broker'[o] = broker[o]
  BY DEF BrokerMoves, CanBecome, TypeOK

\* A process that stays as it was, forgets what it saw, or asks the broker
\* keeps the answers true.
AnswersKept ==
    \A p \in Processes :
       \/ UNCHANGED <<target[p], seen[p]>> /\ (pc'[p] = "idle" => pc[p] = "idle")
       \/ seen'[p] = Absent
       \/ /\ target'[p] \in Orders
          /\ seen'[p] = broker[target'[p]]
          /\ pc'[p] # "idle"

\* A row that comes to its end was written from a true answer.
RowsKept ==
    \A o \in Orders :
       /\ \/ journal'[o].state = journal[o].state
          \/ journal'[o].state \notin TerminalStates
          \/ IsFinal(broker[o]) /\ journal'[o].state = StateFromBrokerStatus(broker[o])
       /\ \/ cancels'[o].state = cancels[o].state
          \/ cancels'[o].state \notin TerminalCancelStates
          \/ /\ IsFinal(broker[o])
             /\ cancels'[o].state = CancelStateFromOrderStatus(broker[o].status)

LEMMA TruthKept ==
    ASSUME Truthful, AnswersKept, RowsKept,
           \A o \in Orders : IsFinal(broker[o]) => broker'[o] = broker[o]
    PROVE  Truthful'
<1>1. TerminalRowsAreTrue'
  BY DEF Truthful, TerminalRowsAreTrue, RowsKept, IsFinal
<1> QED
  BY <1>1 DEF Truthful, AnswersKept, IsFinal

LEMMA MovesKeepAnswers ==
    ASSUME TypeOK, Truthful, NEW p \in Processes,
           \/ CheckTarget(p) \/ CheckUnresolved(p) \/ StartWatch(p)
           \/ ReadTarget(p) \/ ObserveOutcome(p) \/ FallbackRead(p) \/ CheckSwitches(p)
           \/ ReadExact(p) \/ ReadListed(p) \/ StampObservation(p)
           \/ Plan(p) \/ ReserveIntent(p) \/ AcquireCancelLease(p)
           \/ ClaimIntent(p) \/ CallCancel(p) \/ MarkAmbiguous(p),
           pc[p] # "idle" => target[p] \in Orders \/ pc[p] = "started"
    PROVE  AnswersKept
<1> USE DEF TypeOK, ProcessTypeOK, Goto, AnswersKept
<1>1. CASE CheckTarget(p) \/ CheckUnresolved(p) \/ StartWatch(p)
  BY <1>1 DEF CheckTarget, CheckUnresolved, StartWatch, Truthful
<1>2. CASE ReadTarget(p) \/ ObserveOutcome(p) \/ FallbackRead(p)
  BY <1>2 DEF ReadTarget, ObserveOutcome, FallbackRead
<1>3. CASE ReadExact(p) \/ ReadListed(p) \/ StampObservation(p)
  BY <1>3 DEF ReadExact, ReadListed, StampObservation
<1>4. CASE Plan(p) \/ ReserveIntent(p) \/ AcquireCancelLease(p) \/ CheckSwitches(p)
  BY <1>4 DEF CheckSwitches, Plan, ReserveIntent, AcquireCancelLease
<1>5. CASE ClaimIntent(p)
  BY <1>5 DEF ClaimIntent
<1>6. CASE CallCancel(p)
  BY <1>6 DEF CallCancel
<1>7. CASE MarkAmbiguous(p)
  BY <1>7 DEF MarkAmbiguous
<1> QED
  BY <1>1, <1>2, <1>3, <1>4, <1>5, <1>6, <1>7

LEMMA EndsKeepAnswers ==
    ASSUME TypeOK, NEW p \in Processes,
           \/ Leave(p)
           \/ /\ UNCHANGED <<target, seen>>
              /\ UNCHANGED pc \/ \E phase \in CancellerPhases \ {"idle"} : Goto(p, phase)
    PROVE  AnswersKept
  BY DEF TypeOK, ProcessTypeOK, Leave, Goto, AnswersKept

LEMMA RecordsKeepAnswers ==
    ASSUME TypeOK, NEW p \in Processes,
           \/ CheckOrder(p) \/ WriteOrder(p) \/ CheckCancel(p) \/ WriteCancel(p)
           \/ RecordFails(p) \/ ReleaseCancelLease(p) \/ Reconcile(p) \/ Stop(p)
    PROVE  AnswersKept
<1> USE DEF CancellerPhases
<1>1. CASE CheckOrder(p)
  BY <1>1, EndsKeepAnswers DEF CheckOrder, Refuse
<1>2. CASE CheckCancel(p)
  BY <1>2, EndsKeepAnswers DEF CheckCancel, Refuse
<1>3. CASE WriteOrder(p)
  BY <1>3, EndsKeepAnswers DEF WriteOrder, Recorded, OrderRecording
<1>4. CASE WriteCancel(p)
  BY <1>4, EndsKeepAnswers DEF WriteCancel, Recorded
<1>5. CASE RecordFails(p) \/ Stop(p)
  BY <1>5, EndsKeepAnswers DEF RecordFails, Stop, Refuse
<1>6. CASE ReleaseCancelLease(p) \/ Reconcile(p)
  BY <1>6, EndsKeepAnswers DEF ReleaseCancelLease, Reconcile
<1> QED
  BY <1>1, <1>2, <1>3, <1>4, <1>5, <1>6

LEMMA AnswersStep ==
    ASSUME TypeOK, Holding, Truthful, [Next]_vars
    PROVE  AnswersKept
<1> USE DEF Processes
<1>1. \A p \in Processes : pc[p] # "idle" =>
         target[p] \in Orders \/ pc[p] = "started" \/ pc[p] = "stopped"
  BY DEF Holding
<1>2. CASE UNCHANGED vars \/ (\E o \in Orders : BrokerEvolves(o)) \/ ControlChanges \/ ClockTicks
  BY <1>2 DEF vars, BrokerEvolves, ControlChanges, ClockTicks, processVars, AnswersKept
<1>3. ASSUME NEW c \in Cancellers, CancellerStep(c)
      PROVE  AnswersKept
  <2>1. pc[c] # "stopped"
    BY <1>3 DEF CancellerStep, CheckTarget, CheckSwitches, ReadTarget, CheckOrder, WriteOrder,
       Plan, ReserveIntent, AcquireCancelLease, ClaimIntent, CallCancel,
       ObserveOutcome, CheckCancel, WriteCancel, MarkAmbiguous,
       ReleaseCancelLease, FallbackRead, OrderRecording, CancelRecording
  <2> QED
    BY <1>1, <1>3, <2>1, MovesKeepAnswers, RecordsKeepAnswers DEF CancellerStep
<1>4. ASSUME NEW r \in Reconcilers, ReconcilerStep(r)
      PROVE  AnswersKept
  <2>1. pc[r] # "stopped"
    BY DEF TypeOK, ProcessTypeOK, ReconcilerPhases
  <2> QED
    BY <1>1, <1>4, <2>1, MovesKeepAnswers, RecordsKeepAnswers DEF ReconcilerStep
<1>5. ASSUME NEW w \in Watchers, WatcherStep(w)
      PROVE  AnswersKept
  <2>1. pc[w] # "stopped"
    BY DEF TypeOK, ProcessTypeOK, WatcherPhases
  <2> QED
    BY <1>1, <1>5, <2>1, MovesKeepAnswers, RecordsKeepAnswers DEF WatcherStep
<1>6. ASSUME NEW p \in Processes, RecordFails(p) \/ Stop(p)
      PROVE  AnswersKept
  BY <1>6, RecordsKeepAnswers
<1> QED
  BY <1>2, <1>3, <1>4, <1>5, <1>6 DEF Next

\* Both records write what the process saw of its order.
LEMMA OrderRecordTrue ==
    ASSUME TypeOK, Truthful, NEW p \in Processes, target[p] \in Orders,
           seen[p] \in Observations, WriteObservation(target[p], seen[p])
    PROVE  \A o \in Orders :
              \/ journal'[o].state = journal[o].state
              \/ journal'[o].state \notin TerminalStates
              \/ IsFinal(broker[o]) /\ journal'[o].state = StateFromBrokerStatus(broker[o])
<1> DEFINE t == target[p]
           state == StateFromBrokerStatus(seen[p])
<1>1. journal[t] \in OrderRow
  BY DEF TypeOK, JournalTypeOK
<1>2. state \in TerminalStates => IsFinal(broker[t]) /\ broker[t] = seen[p]
  BY StatusMapping, ObservationAssumption, BrokerAssumption DEF Truthful
<1>3. journal' = [journal EXCEPT ![t].state = state]
  BY DEF WriteObservation
<1>4. broker[t] = seen[p] => state = StateFromBrokerStatus(broker[t])
  OBVIOUS
<1> HIDE DEF t, state
<1>5. \A o \in Orders : journal'[o].state = IF o = t THEN state ELSE journal[o].state
  BY <1>1, <1>3 DEF TypeOK, JournalTypeOK, OrderRow
<1> QED
  BY <1>2, <1>4, <1>5

LEMMA CancelRecordTrue ==
    ASSUME TypeOK, Truthful, NEW p \in Processes, target[p] \in Orders,
           seen[p] \in Observations, NEW time \in Nat,
           WriteCancelObservation(target[p], seen[p].status, time)
    PROVE  \A o \in Orders :
              \/ cancels'[o].state = cancels[o].state
              \/ cancels'[o].state \notin TerminalCancelStates
              \/ /\ IsFinal(broker[o])
                 /\ cancels'[o].state = CancelStateFromOrderStatus(broker[o].status)
<1>1. CancelStateFromOrderStatus(seen[p].status) \in TerminalCancelStates
         => IsFinal(seen[p]) /\ broker[target[p]] = seen[p]
  BY TerminalCancels, ObservationAssumption, BrokerAssumption DEF Truthful
<1> QED
  BY <1>1, RecordTypes

LEMMA RowsStep ==
    ASSUME TypeOK, Holding, Truthful, [Next]_vars
    PROVE  RowsKept
<1> USE DEF Processes
<1>1. CASE UNCHANGED <<cancels, journal>>
  BY <1>1 DEF RowsKept
<1>2. ASSUME NEW p \in Processes, WriteOrder(p)
      PROVE  RowsKept
  <2>1. target[p] \in Orders /\ seen[p] \in Observations
    BY <1>2 DEF WriteOrder, TypeOK, ProcessTypeOK, Holding, Answered, OrderRecording
  <2>2. WriteObservation(target[p], seen[p]) /\ UNCHANGED cancels
    BY <1>2 DEF WriteOrder
  <2> QED
    BY <2>1, <2>2, OrderRecordTrue DEF RowsKept
<1>3. ASSUME NEW c \in Cancellers, WriteCancel(c)
      PROVE  RowsKept
  <2>1. target[c] \in Orders /\ seen[c] \in Observations
    BY <1>3 DEF WriteCancel, TypeOK, ProcessTypeOK, Holding, Answered, CancelRecording
  <2>2. PICK time \in Nat : WriteCancelObservation(target[c], seen[c].status, time)
    BY <1>3 DEF WriteCancel, TypeOK, ProcessTypeOK
  <2>3. UNCHANGED journal
    BY <1>3 DEF WriteCancel
  <2> QED
    BY <2>1, <2>2, <2>3, CancelRecordTrue DEF RowsKept
<1>4. ASSUME NEW c \in Cancellers,
             ReserveIntent(c) \/ ClaimIntent(c) \/ MarkAmbiguous(c)
      PROVE  RowsKept
  <2>1. target[c] \in Orders /\ invokedAt[c] \in Nat /\ CancelJournalTypeOK
    BY <1>4 DEF ReserveIntent, ClaimIntent, MarkAmbiguous, Holding, TypeOK, ProcessTypeOK
  <2>2. UNCHANGED journal
    BY <1>4 DEF ReserveIntent, ClaimIntent, MarkAmbiguous
  <2>3. CASE ReserveIntent(c)
    BY <2>1, <2>2, <2>3
    DEF ReserveIntent, ReserveCancel, CancelJournalTypeOK, CancelRow, RowsKept,
        TerminalCancelStates
  <2>4. CASE ClaimIntent(c)
    <3>1. \A o \in Orders : cancels'[o].state \in {cancels[o].state, "cancel_attempted"}
      BY <2>1, <2>4
      DEF ClaimIntent, ClaimCancel, CancelJournalTypeOK, CancelRow
    <3> QED
      BY <2>2, <3>1 DEF RowsKept, TerminalCancelStates
  <2>5. CASE MarkAmbiguous(c)
    BY <2>1, <2>2, <2>5, AmbiguousCancel
    DEF MarkAmbiguous, RowsKept, TerminalCancelStates
  <2> QED
    BY <1>4, <2>3, <2>4, <2>5
<1>5. ASSUME NEW r \in Reconcilers, Reconcile(r)
      PROVE  RowsKept
  <2>1. target[r] \in Orders /\ seen[r] \in Observations /\ at[r] \in Nat
    BY <1>5 DEF Reconcile, TypeOK, ProcessTypeOK, Holding, Answered
  <2>2. CASE ReconcileCancel(target[r], seen[r], at[r])
    BY <2>1, <2>2, OrderRecordTrue, CancelRecordTrue DEF ReconcileCancel, RowsKept
  <2> QED
    BY <1>1, <1>5, <2>2 DEF Reconcile, tableVars
<1>6. ASSUME NEW c \in Cancellers, CancellerStep(c)
      PROVE  RowsKept
  <2>1. CASE \/ CheckTarget(c) \/ CheckSwitches(c) \/ ReadTarget(c) \/ CheckOrder(c) \/ Plan(c)
             \/ AcquireCancelLease(c) \/ CallCancel(c) \/ ObserveOutcome(c)
             \/ CheckCancel(c) \/ ReleaseCancelLease(c) \/ FallbackRead(c)
    BY <1>1, <2>1 DEF CheckTarget, CheckSwitches, ReadTarget, CheckOrder, Plan,
       AcquireCancelLease, CallCancel, ObserveOutcome, CheckCancel,
       ReleaseCancelLease, FallbackRead, tableVars
  <2> QED
    BY <1>2, <1>3, <1>4, <1>6, <2>1 DEF CancellerStep
<1>7. ASSUME NEW r \in Reconcilers, ReconcilerStep(r)
      PROVE  RowsKept
  BY <1>1, <1>5, <1>7 DEF ReconcilerStep, CheckUnresolved, ReadExact,
     StampObservation, tableVars
<1>8. ASSUME NEW w \in Watchers, WatcherStep(w)
      PROVE  RowsKept
  BY <1>1, <1>2, <1>8 DEF WatcherStep, StartWatch, ReadListed, CheckOrder, tableVars
<1>9. CASE \/ UNCHANGED vars
           \/ \E p \in Processes : RecordFails(p) \/ Stop(p)
           \/ \E o \in Orders : BrokerEvolves(o)
           \/ ControlChanges
           \/ ClockTicks
  BY <1>1, <1>9 DEF vars, RecordFails, Stop, BrokerEvolves, ControlChanges,
     ClockTicks, tableVars
<1> QED
  BY <1>6, <1>7, <1>8, <1>9 DEF Next

LEMMA TruthfulStep == TypeOK /\ Holding /\ Truthful /\ [Next]_vars => Truthful'
<1> SUFFICES ASSUME TypeOK, Holding, Truthful, [Next]_vars
             PROVE  Truthful'
  OBVIOUS
<1>1. UNCHANGED broker \/ \E o \in Orders : BrokerMoves(o)
  <2>1. CASE \E c \in Cancellers : CallCancel(c)
    BY <2>1 DEF CallCancel, Holding, Processes
  <2>2. CASE \E o \in Orders : BrokerEvolves(o)
    BY <2>2 DEF BrokerEvolves
  <2>3. CASE /\ ~\E c \in Cancellers : CallCancel(c)
             /\ ~\E o \in Orders : BrokerEvolves(o)
    BY <2>3 DEF Next, vars, CancellerStep, ReconcilerStep, WatcherStep,
       CheckTarget, CheckSwitches, ReadTarget, CheckOrder, WriteOrder, Plan, ReserveIntent,
       AcquireCancelLease, ClaimIntent, ObserveOutcome, CheckCancel,
       WriteCancel, MarkAmbiguous, ReleaseCancelLease, FallbackRead,
       CheckUnresolved, ReadExact, StampObservation, Reconcile, StartWatch,
       ReadListed, RecordFails, Stop, ControlChanges, ClockTicks
  <2> QED
    BY <2>1, <2>2, <2>3
<1>2. \A o \in Orders : IsFinal(broker[o]) => broker'[o] = broker[o]
  BY <1>1, BrokerKeepsEnds
<1> QED
  BY <1>2, AnswersStep, RowsStep, TruthKept

LEMMA TruthfulInit == Init => Truthful
<1> SUFFICES ASSUME Init PROVE Truthful
  OBVIOUS
<1>1. \A o \in Orders : broker[o] \in Observations /\ ~IsFinal(broker[o])
  BY DEF Init
<1>2. \A o \in Orders : journal[o].state \notin TerminalStates
  <2>1. \A o \in Orders : StateFromBrokerStatus(broker[o]) \notin TerminalStates
    BY <1>1, StatusMapping, ObservationAssumption
  <2> QED
    BY <2>1, CancelAssumption DEF Init, OrderRow
<1>3. \A o \in Orders : cancels[o].state \notin TerminalCancelStates
  BY DEF Init, NoCancel, TerminalCancelStates
<1> QED
  BY <1>2, <1>3 DEF Init, Truthful, TerminalRowsAreTrue

LEMMA TruthfulInvariant == Spec => [](TypeOK /\ Holding /\ Truthful)
<1>1. Init => TypeOK /\ Holding /\ Truthful
  BY CancelTypeInit, TruthfulInit
<1>2. TypeOK /\ Holding /\ Truthful /\ [Next]_vars => (TypeOK /\ Holding /\ Truthful)'
  BY CancelTypeStep, TruthfulStep
<1> QED
  BY <1>1, <1>2, PTL DEF Spec

\* Whatever step an answer is read, stamped, checked and written in, an order row
\* or a cancel row that is over says how the broker ended the order: no pending
\* cancel that fills later on is ever booked as canceled.
THEOREM TerminalTrue == Spec => []TerminalRowsAreTrue
<1>1. Truthful => TerminalRowsAreTrue
  BY DEF Truthful
<1> QED
  BY <1>1, TruthfulInvariant, PTL

-----------------------------------------------------------------------------
(* What a step does to the cancel rows.                                    *)

\* The writes of a process p to the cancel row of its order o, but for the
\* reservation, which makes no row that was there another one.
Claims(p, o) == /\ p \in Cancellers /\ ClaimIntent(p)
                /\ cancels[o].state = "reserved"
                /\ cancels'[o].state = "cancel_attempted"

Blurs(p, o) == /\ cancels[o].state \in {"cancel_attempted", "unknown"}
               /\ cancels'[o].state = "unknown"

Observes(p, o) == /\ seen[p] \in Observations
                  /\ \/ p \in Cancellers /\ pc[p] \in CancelRecording
                     \/ cancels[o].state \in ReconcilableCancelStates
                  /\ cancels'[o].state = CancelStateFromOrderStatus(seen[p].status)

LEMMA CancelWrites ==
    ASSUME TypeOK, Holding, [Next]_vars
    PROVE  \/ UNCHANGED cancels
           \/ \E p \in Processes, o \in Orders :
                 /\ o = target[p]
                 /\ \A other \in Orders \ {o} : cancels'[other] = cancels[other]
                 /\ cancels'[o].updated \in {cancels[o].updated, now, at[p], invokedAt[p]}
                 /\ \/ cancels[o].state = "none" /\ cancels'[o].state = "reserved"
                    \/ cancels'[o].state = cancels[o].state
                    \/ Claims(p, o) \/ Blurs(p, o) \/ Observes(p, o)
<1> SUFFICES ASSUME cancels' # cancels
             PROVE  \E p \in Processes, o \in Orders :
                 /\ o = target[p]
                 /\ \A other \in Orders \ {o} : cancels'[other] = cancels[other]
                 /\ cancels'[o].updated \in {cancels[o].updated, now, at[p], invokedAt[p]}
                 /\ \/ cancels[o].state = "none" /\ cancels'[o].state = "reserved"
                    \/ cancels'[o].state = cancels[o].state
                    \/ Claims(p, o) \/ Blurs(p, o) \/ Observes(p, o)
  OBVIOUS
<1> DEFINE Writes(p, o) ==
               /\ o = target[p]
               /\ \A other \in Orders \ {o} : cancels'[other] = cancels[other]
               /\ cancels'[o].updated \in {cancels[o].updated, now, at[p], invokedAt[p]}
               /\ \/ cancels[o].state = "none" /\ cancels'[o].state = "reserved"
                  \/ cancels'[o].state = cancels[o].state
                  \/ Claims(p, o) \/ Blurs(p, o) \/ Observes(p, o)
<1> SUFFICES \E p \in Processes, o \in Orders : Writes(p, o)
  OBVIOUS
<1>a. Cancellers \subseteq Processes /\ Reconcilers \subseteq Processes
  BY DEF Processes
<1>b. CancelJournalTypeOK /\ \A p \in Processes : at[p] \in Nat /\ invokedAt[p] \in Nat
  BY DEF TypeOK, ProcessTypeOK
<1>c. \A o \in Orders : cancels[o] \in CancelRow
  BY <1>b DEF CancelJournalTypeOK
<1>1. ASSUME NEW c \in Cancellers, ReserveIntent(c)
      PROVE  \E o \in Orders : Writes(c, o)
  <2>1. PICK o \in Orders : o = target[c]
    BY <1>1, <1>a DEF ReserveIntent, Holding
  <2>2. cancels' = [cancels EXCEPT ![o] = [state   |-> "reserved",
                                           intent  |-> intent[c],
                                           updated |-> now]]
        /\ cancels[o].state = "none"
    BY <1>1, <2>1 DEF ReserveIntent, ReserveCancel
  <2> QED
    BY <2>1, <2>2, <1>b DEF CancelJournalTypeOK
<1>2. ASSUME NEW c \in Cancellers, ClaimIntent(c)
      PROVE  \E o \in Orders : Writes(c, o)
  <2>1. PICK o \in Orders : o = target[c]
    BY <1>2, <1>a DEF ClaimIntent, Holding
  <2>2. cancels[o].state = "reserved" /\ ClaimCancel(o, invokedAt[c])
    BY <1>2, <2>1 DEF ClaimIntent, CancelClaimAdmitted
  <2>3. "cancel_attempted" \in AttemptedCancelStates
    BY DEF AttemptedCancelStates
  <2>4. /\ cancels'[o].state = "cancel_attempted" /\ cancels'[o].updated = invokedAt[c]
        /\ \A other \in Orders : other # o => cancels'[other] = cancels[other]
    BY <2>2, <2>3, <1>a, <1>b, CancelStateWritten DEF ClaimCancel
  <2> QED
    BY <1>2, <2>1, <2>2, <2>4 DEF Claims
<1>3. ASSUME NEW c \in Cancellers, MarkAmbiguous(c)
      PROVE  \E o \in Orders : Writes(c, o)
  <2>1. PICK o \in Orders : o = target[c]
    BY <1>3, <1>a DEF MarkAmbiguous, Holding
  <2>2. MarkCancelAmbiguous(o, invokedAt[c])
    BY <1>3, <2>1 DEF MarkAmbiguous
  <2> QED
    BY <2>1, <2>2, <1>a, <1>b, AmbiguousCancel DEF Blurs
<1>4. ASSUME NEW c \in Cancellers, WriteCancel(c)
      PROVE  \E o \in Orders : Writes(c, o)
  <2>1. PICK o \in Orders : o = target[c] /\ seen[c] \in Observations
    BY <1>4, <1>a DEF WriteCancel, TypeOK, ProcessTypeOK, Holding, Answered, CancelRecording
  <2>2. PICK t \in {invokedAt[c], at[c]} : WriteCancelObservation(o, seen[c].status, t)
    BY <1>4, <2>1 DEF WriteCancel
  <2>3. t \in Nat
    BY <1>a, <1>b
  <2>4. /\ cancels'[o].state = CancelStateFromOrderStatus(seen[c].status)
        /\ cancels'[o].updated = t
        /\ \A other \in Orders : other # o => cancels'[other] = cancels[other]
    BY <2>1, <2>2, <2>3, RecordTypes
  <2>5. Observes(c, o)
    BY <1>4, <2>1, <2>4 DEF Observes, WriteCancel
  <2> QED
    BY <2>1, <2>2, <2>4, <2>5, <1>a
<1>5. ASSUME NEW r \in Reconcilers, Reconcile(r)
      PROVE  \E o \in Orders : Writes(r, o)
  <2>1. PICK o \in Orders : o = target[r] /\ seen[r] \in Observations
    BY <1>5, <1>a DEF Reconcile, TypeOK, ProcessTypeOK, Holding, Answered
  <2>2. /\ WriteCancelObservation(o, seen[r].status, at[r])
        /\ cancels[o].state \in ReconcilableCancelStates
    BY <1>5, <2>1 DEF Reconcile, ReconcileCancel, CancelReconcileAdmitted, tableVars
  <2> QED
    BY <2>1, <2>2, <1>a, <1>b, RecordTypes DEF Observes
<1>6. \A c \in Cancellers : CancellerStep(c) =>
         ReserveIntent(c) \/ ClaimIntent(c) \/ MarkAmbiguous(c) \/ WriteCancel(c)
  BY DEF CancellerStep, CheckTarget, CheckSwitches, ReadTarget, CheckOrder, WriteOrder,
         Plan, AcquireCancelLease, CallCancel, ObserveOutcome, CheckCancel,
         ReleaseCancelLease, FallbackRead, tableVars
<1>7. \A r : ReconcilerStep(r) => Reconcile(r)
  BY DEF ReconcilerStep, CheckUnresolved, ReadExact, StampObservation, tableVars
<1>8. \A w : ~WatcherStep(w)
  BY DEF WatcherStep, StartWatch, ReadListed, CheckOrder, WriteOrder, tableVars
<1>9. ~ (\/ UNCHANGED vars
         \/ \E p \in Processes : RecordFails(p) \/ Stop(p)
         \/ \E o \in Orders : BrokerEvolves(o)
         \/ ControlChanges
         \/ ClockTicks)
  BY DEF vars, RecordFails, Stop, BrokerEvolves, ControlChanges, ClockTicks, tableVars
<1> HIDE DEF Writes
<1> QED
  BY <1>1, <1>2, <1>3, <1>4, <1>5, <1>6, <1>7, <1>8, <1>9, <1>a DEF Next

-----------------------------------------------------------------------------
(* A cancel can be recorded to the end.                                    *)

\* No stamp is of the future, and every order keeps its row: a reconciliation
\* that looks now is never older than what it has to overwrite.
Stamped ==
    /\ \A p \in Processes : at[p] <= now /\ invokedAt[p] <= now
    /\ \A o \in Orders : /\ updatedAt[o] <= now
                         /\ cancels[o].updated <= now
                         /\ journal[o].state # "none"

\* A process that takes a step stamps with the clock or forgets its stamp.
Stamps(p) == /\ at'[p] \in {at[p], now, 0}
             /\ invokedAt'[p] \in {invokedAt[p], now, 0}

LEMMA LeaveStamps ==
    ASSUME TypeOK, NEW p \in Processes, Leave(p) \/ Refuse(p)
    PROVE  \A q \in Processes : Stamps(q)
<1>1. CASE Leave(p)
  BY <1>1 DEF Leave, Stamps, TypeOK, ProcessTypeOK
<1>2. CASE UNCHANGED <<at, plannedVars>>
  BY <1>2 DEF Stamps, plannedVars
<1> QED
  BY <1>1, <1>2 DEF Refuse

LEMMA CancellerStamps ==
    ASSUME TypeOK, NEW c \in Cancellers, CancellerStep(c)
    PROVE  \A q \in Processes : Stamps(q)
<1> USE DEF Stamps, TypeOK, ProcessTypeOK, plannedVars
<1>1. c \in Processes
  BY DEF Processes
<1>2. CASE CheckTarget(c) \/ CheckSwitches(c) \/ ReadTarget(c) \/ Plan(c)
  BY <1>1, <1>2 DEF CheckTarget, CheckSwitches, ReadTarget, Plan
<1>3. CASE CheckOrder(c) \/ CheckCancel(c)
  <2>1. \/ Refuse(c)
        \/ UNCHANGED <<at, plannedVars>>
        \/ at' = [at EXCEPT ![c] = StampOf(c)] /\ UNCHANGED plannedVars
    BY <1>3 DEF CheckOrder, CheckCancel
  <2>2. StampOf(c) \in {at[c], now}
    BY DEF StampOf
  <2> QED
    BY <1>1, <2>1, <2>2, LeaveStamps
<1>4. CASE WriteOrder(c) \/ WriteCancel(c)
  BY <1>1, <1>4, LeaveStamps DEF WriteOrder, WriteCancel, Recorded, OrderRecording
<1>5. CASE ReserveIntent(c) \/ AcquireCancelLease(c) \/ ClaimIntent(c)
  BY <1>1, <1>5 DEF ReserveIntent, AcquireCancelLease, ClaimIntent
<1>6. CASE CallCancel(c) \/ ObserveOutcome(c) \/ MarkAmbiguous(c)
  BY <1>1, <1>6 DEF CallCancel, ObserveOutcome, MarkAmbiguous
<1>7. CASE ReleaseCancelLease(c) \/ FallbackRead(c)
  BY <1>1, <1>7, LeaveStamps DEF ReleaseCancelLease, FallbackRead
<1> QED
  BY <1>2, <1>3, <1>4, <1>5, <1>6, <1>7 DEF CancellerStep

LEMMA ProcessStamps ==
    ASSUME TypeOK, [Next]_vars
    PROVE  \A q \in Processes : Stamps(q)
<1> USE DEF Processes
<1>1. ASSUME NEW r \in Reconcilers, ReconcilerStep(r)
      PROVE  \A q \in Processes : Stamps(q)
  <2>1. CASE Reconcile(r)
    BY <2>1, LeaveStamps DEF Reconcile
  <2> QED
    BY <1>1, <2>1 DEF ReconcilerStep, CheckUnresolved, ReadExact, StampObservation,
       Stamps, TypeOK, ProcessTypeOK, plannedVars
<1>2. ASSUME NEW w \in Watchers, WatcherStep(w)
      PROVE  \A q \in Processes : Stamps(q)
  <2>1. CASE CheckOrder(w) \/ WriteOrder(w)
    BY <2>1, LeaveStamps
    DEF CheckOrder, WriteOrder, Recorded, OrderRecording, StampOf, Stamps, TypeOK,
        ProcessTypeOK, plannedVars
  <2> QED
    BY <1>2, <2>1 DEF WatcherStep, StartWatch, ReadListed, Stamps, TypeOK,
       ProcessTypeOK, plannedVars
<1>3. ASSUME NEW p \in Processes, RecordFails(p) \/ Stop(p)
      PROVE  \A q \in Processes : Stamps(q)
  BY <1>3, LeaveStamps DEF RecordFails, Stop
<1>4. CASE \/ UNCHANGED vars
           \/ \E o \in Orders : BrokerEvolves(o)
           \/ ControlChanges
           \/ ClockTicks
  BY <1>4 DEF vars, BrokerEvolves, ControlChanges, ClockTicks, processVars,
     plannedVars, Stamps
<1> QED
  BY <1>1, <1>2, <1>3, <1>4, CancellerStamps DEF Next

\* A step that writes an order row stamps it with its process's time and keeps
\* the row.
LEMMA RowWrites ==
    ASSUME TypeOK, Holding, [Next]_vars
    PROVE  \/ UNCHANGED <<journal, updatedAt>>
           \/ \E p \in Processes, o \in Orders :
                 /\ updatedAt' = [updatedAt EXCEPT ![o] = at[p]]
                 /\ seen[p] \in Observations
                 /\ WriteObservation(o, seen[p])
<1> USE DEF Processes
<1>1. ASSUME NEW p \in Processes, WriteOrder(p)
      PROVE  \E o \in Orders : /\ updatedAt' = [updatedAt EXCEPT ![o] = at[p]]
                               /\ seen[p] \in Observations
                               /\ WriteObservation(o, seen[p])
  <2>1. target[p] \in Orders /\ seen[p] \in Observations
    BY <1>1 DEF WriteOrder, TypeOK, ProcessTypeOK, Holding, Answered, OrderRecording
  <2> QED
    BY <1>1, <2>1 DEF WriteOrder
<1>2. ASSUME NEW r \in Reconcilers, Reconcile(r)
      PROVE  \/ UNCHANGED <<journal, updatedAt>>
             \/ \E o \in Orders : /\ updatedAt' = [updatedAt EXCEPT ![o] = at[r]]
                                  /\ seen[r] \in Observations
                                  /\ WriteObservation(o, seen[r])
  <2>1. target[r] \in Orders /\ seen[r] \in Observations
    BY <1>2 DEF Reconcile, TypeOK, ProcessTypeOK, Holding, Answered
  <2> QED
    BY <1>2, <2>1 DEF Reconcile, ReconcileCancel, tableVars
<1>3. ASSUME NEW c \in Cancellers, CancellerStep(c), ~WriteOrder(c)
      PROVE  UNCHANGED <<journal, updatedAt>>
  BY <1>3 DEF CancellerStep, CheckTarget, CheckSwitches, ReadTarget, CheckOrder,
     Plan, ReserveIntent, AcquireCancelLease, ClaimIntent, CallCancel,
     ObserveOutcome, CheckCancel, WriteCancel, MarkAmbiguous,
     ReleaseCancelLease, FallbackRead, tableVars
<1>4. ASSUME NEW r \in Reconcilers, ReconcilerStep(r), ~Reconcile(r)
      PROVE  UNCHANGED <<journal, updatedAt>>
  BY <1>4 DEF ReconcilerStep, CheckUnresolved, ReadExact, StampObservation, tableVars
<1>5. ASSUME NEW w \in Watchers, WatcherStep(w), ~WriteOrder(w)
      PROVE  UNCHANGED <<journal, updatedAt>>
  BY <1>5 DEF WatcherStep, StartWatch, ReadListed, CheckOrder, tableVars
<1>6. CASE \/ UNCHANGED vars
           \/ \E p \in Processes : RecordFails(p) \/ Stop(p)
           \/ \E o \in Orders : BrokerEvolves(o)
           \/ ControlChanges
           \/ ClockTicks
  BY <1>6 DEF vars, RecordFails, Stop, BrokerEvolves, ControlChanges, ClockTicks,
     tableVars
<1> QED
  BY <1>1, <1>2, <1>3, <1>4, <1>5, <1>6 DEF Next

LEMMA ClockForward ==
    ASSUME TypeOK, [Next]_vars
    PROVE  now \in Nat /\ now' \in Nat /\ now <= now'
<1>1. now \in Nat
  BY DEF TypeOK, LeaseTypeOK
<1>2. UNCHANGED now \/ ClockTicks
  BY DEF Next, vars, CancellerStep, ReconcilerStep, WatcherStep,
     CheckTarget, CheckSwitches, ReadTarget, CheckOrder, WriteOrder, Plan,
     ReserveIntent, AcquireCancelLease, TakeLease, ClaimIntent, CallCancel,
     ObserveOutcome, CheckCancel, WriteCancel, MarkAmbiguous,
     ReleaseCancelLease, FallbackRead, CheckUnresolved, ReadExact,
     StampObservation, Reconcile, StartWatch, ReadListed, RecordFails, Stop,
     BrokerEvolves, ControlChanges, leaseVars
<1> QED
  BY <1>1, <1>2 DEF ClockTicks, Tick

LEMMA StampedStep == TypeOK /\ Holding /\ Stamped /\ [Next]_vars => Stamped'
<1> SUFFICES ASSUME TypeOK, Holding, Stamped, [Next]_vars
             PROVE  Stamped'
  OBVIOUS
<1>1. now \in Nat /\ now' \in Nat /\ now <= now'
  BY ClockForward
<1>2. \A p \in Processes : at[p] \in Nat /\ invokedAt[p] \in Nat
  BY DEF TypeOK, ProcessTypeOK
<1>3. \A p \in Processes : at'[p] <= now' /\ invokedAt'[p] <= now'
  BY <1>1, <1>2, ProcessStamps DEF Stamps, Stamped
<1>4. \A o \in Orders : updatedAt'[o] <= now' /\ journal'[o].state # "none"
  <2>1. \A o \in Orders : updatedAt[o] \in Nat /\ journal[o] \in OrderRow
    BY DEF TypeOK, CancelJournalTypeOK, JournalTypeOK
  <2>2. CASE UNCHANGED <<journal, updatedAt>>
    BY <1>1, <2>1, <2>2 DEF Stamped
  <2>3. ASSUME NEW p \in Processes, NEW o \in Orders,
               updatedAt' = [updatedAt EXCEPT ![o] = at[p]],
               seen[p] \in Observations, WriteObservation(o, seen[p])
        PROVE  \A q \in Orders : updatedAt'[q] <= now' /\ journal'[q].state # "none"
    <3>1. \A q \in Orders : updatedAt'[q] <= now'
      BY <1>1, <1>2, <2>1, <2>3 DEF Stamped, TypeOK, CancelJournalTypeOK
    <3>2. StateFromBrokerStatus(seen[p]) # "none"
      BY <2>3, StatusMapping, ObservationAssumption
      DEF AttemptedStates, TerminalStates
    <3>3. \A q \in Orders : journal'[q].state # "none"
      BY <2>1, <2>3, <3>2 DEF WriteObservation, Stamped, TypeOK, JournalTypeOK, OrderRow
    <3> QED
      BY <3>1, <3>3
  <2>4. \/ UNCHANGED <<journal, updatedAt>>
        \/ \E p \in Processes, o \in Orders :
              /\ updatedAt' = [updatedAt EXCEPT ![o] = at[p]]
              /\ seen[p] \in Observations
              /\ WriteObservation(o, seen[p])
    BY RowWrites
  <2> QED
    BY <2>2, <2>3, <2>4
<1>5. \A o \in Orders : cancels'[o].updated <= now'
  <2>1. \A o \in Orders : cancels[o].updated \in Nat
    BY DEF TypeOK, CancelJournalTypeOK, CancelRow
  <2>2. CASE UNCHANGED cancels
    BY <1>1, <2>1, <2>2 DEF Stamped
  <2>3. ASSUME NEW p \in Processes, NEW o \in Orders,
               \A other \in Orders \ {o} : cancels'[other] = cancels[other],
               cancels'[o].updated \in {cancels[o].updated, now, at[p], invokedAt[p]}
        PROVE  \A q \in Orders : cancels'[q].updated <= now'
    BY <1>1, <1>2, <2>1, <2>3 DEF Stamped
  <2> QED
    BY <2>2, <2>3, CancelWrites
<1> QED
  BY <1>3, <1>4, <1>5 DEF Stamped

LEMMA StampedInit == Init => Stamped
<1> SUFFICES ASSUME Init PROVE Stamped
  OBVIOUS
<1>1. \A o \in Orders : StateFromBrokerStatus(broker[o]) # "none"
  BY StatusMapping, ObservationAssumption DEF Init, AttemptedStates, TerminalStates
<1>2. \A o \in Orders : journal[o].state # "none"
  BY <1>1, CancelAssumption DEF Init, OrderRow
<1>3. now = 0 /\ \A p \in Processes : at[p] = 0 /\ invokedAt[p] = 0
  BY DEF Init, LeaseInit
<1>4. \A o \in Orders : updatedAt[o] = 0 /\ cancels[o].updated = 0
  BY DEF Init, NoCancel
<1> QED
  BY <1>2, <1>3, <1>4 DEF Stamped

LEMMA RecordableNow ==
    ASSUME TypeOK, Truthful, Stamped
    PROVE  CanceledIsRecordable
<1> SUFFICES ASSUME NEW o \in Orders,
                    cancels[o].state \in AttemptedCancelStates, CanceledAtBroker(o)
             PROVE  /\ ObservationAdmitted(o, broker[o])
                    /\ \/ cancels[o].state = "canceled"
                       \/ CancelReconcileAdmitted(o, broker[o], now)
  BY DEF CanceledIsRecordable
<1>1. journal[o].state \in TerminalStates =>
         journal[o].state = StateFromBrokerStatus(broker[o])
  BY DEF Truthful, TerminalRowsAreTrue
<1>2. cancels[o].state \in TerminalCancelStates => cancels[o].state = "canceled"
  BY DEF Truthful, TerminalRowsAreTrue, CanceledAtBroker, CancelStateFromOrderStatus
<1>3. /\ journal[o].state # "none" /\ now >= updatedAt[o] /\ now >= cancels[o].updated
  BY DEF Stamped, TypeOK, LeaseTypeOK, CancelJournalTypeOK, CancelRow
<1>4. cancels[o].state \in ReconcilableCancelStates \/ cancels[o].state = "canceled"
  BY <1>2 DEF AttemptedCancelStates, ReconcilableCancelStates
<1> QED
  BY <1>1, <1>3, <1>4 DEF ObservationAdmitted, CancelReconcileAdmitted

\* No dead end: whatever was recorded, stamped and overwritten on the way, an
\* order that the broker canceled after its cancel was attempted can be brought to
\* its end in both tables by a command that looks at it now.
THEOREM CanceledRecordable == Spec => []CanceledIsRecordable
<1>1. Init => Stamped
  BY StampedInit
<1>2. TypeOK /\ Holding /\ Truthful /\ Stamped /\ [Next]_vars => Stamped'
  BY StampedStep
<1>3. TypeOK /\ Truthful /\ Stamped => CanceledIsRecordable
  BY RecordableNow
<1> QED
  BY <1>1, <1>2, <1>3, TruthfulInvariant, PTL DEF Spec

-----------------------------------------------------------------------------
(* Refinement of OneShotCancel.                                            *)

\* What a canceller does after its call, up to the release of its lease.
AfterCall == {"answered", "raised", "no outcome", "after", "outcome",
              "releasing unread", "unread", "fallback", "fallback outcome"}

\* Whoever records the outcome of a cancel has called the broker.
Called == \A c \in Cancellers : pc[c] \in AfterCall => calls[target[c]] > 0

\* No process but the caller gets past its call.
FollowsItsCall ==
    \A c \in Cancellers : pc'[c] \in AfterCall =>
                             pc[c] \in AfterCall /\ target'[c] = target[c]

LEMMA LeaveFollows ==
    ASSUME TypeOK, NEW p \in Processes,
           Leave(p) \/ (pc[p] \in OrderRecording \cup CancelRecording /\ Refuse(p))
    PROVE  FollowsItsCall
<1>1. \A c \in Cancellers : c \in Processes
  BY DEF Processes
<1>2. ASSUME Leave(p)
      PROVE  FollowsItsCall
  BY <1>1, <1>2 DEF Leave, Goto, FollowsItsCall, AfterCall, TypeOK, ProcessTypeOK
<1>3. ASSUME pc[p] \in {"after", "outcome"}, Goto(p, "no outcome"), UNCHANGED target
      PROVE  FollowsItsCall
  BY <1>1, <1>3 DEF Goto, FollowsItsCall, AfterCall, TypeOK, ProcessTypeOK
<1> QED
  BY <1>2, <1>3 DEF Refuse

LEMMA CancellerFollows ==
    ASSUME TypeOK, NEW p \in Cancellers, CancellerStep(p), ~CallCancel(p)
    PROVE  FollowsItsCall
<1> USE DEF TypeOK, ProcessTypeOK, Goto, FollowsItsCall
<1>1. p \in Processes /\ \A c \in Cancellers : c \in Processes
  BY DEF Processes
<1>2. CASE \/ CheckTarget(p) \/ CheckSwitches(p) \/ ReadTarget(p) \/ Plan(p)
           \/ ReserveIntent(p) \/ AcquireCancelLease(p) \/ ClaimIntent(p)
  BY <1>1, <1>2 DEF CheckTarget, CheckSwitches, ReadTarget, Plan, ReserveIntent,
                    AcquireCancelLease, ClaimIntent, AfterCall
<1>3. CASE ObserveOutcome(p) \/ MarkAmbiguous(p) \/ FallbackRead(p)
  BY <1>1, <1>3 DEF ObserveOutcome, MarkAmbiguous, FallbackRead, AfterCall
<1>4. CASE CheckOrder(p) \/ CheckCancel(p)
  <2>1. UNCHANGED <<pc, target>>
        \/ (pc[p] \in OrderRecording \cup CancelRecording /\ Refuse(p))
    BY <1>4 DEF CheckOrder, CheckCancel
  <2> QED
    BY <1>1, <2>1, LeaveFollows
<1>5. CASE WriteOrder(p) \/ WriteCancel(p)
  <2>1. \/ Leave(p)
        \/ /\ UNCHANGED target
           /\ \/ pc' = [pc EXCEPT ![p] = "recorded"]
              \/ pc' = [pc EXCEPT ![p] = "releasing"]
              \/ pc[p] = "after" /\ pc' = [pc EXCEPT ![p] = "outcome"]
              \/ pc[p] = "fallback" /\ pc' = [pc EXCEPT ![p] = "fallback outcome"]
    BY <1>5 DEF WriteOrder, WriteCancel, Recorded, OrderRecording
  <2>2. CASE Leave(p)
    BY <1>1, <2>2, LeaveFollows
  <2> QED
    BY <1>1, <2>1, <2>2 DEF AfterCall
<1>6. CASE ReleaseCancelLease(p)
  <2>1. CASE Leave(p)
    BY <1>1, <2>1, LeaveFollows
  <2> QED
    BY <1>1, <1>6, <2>1 DEF ReleaseCancelLease, AfterCall
<1> QED
  BY <1>2, <1>3, <1>4, <1>5, <1>6 DEF CancellerStep

LEMMA OthersFollow ==
    ASSUME TypeOK, NEW p \in Processes,
           p \in Reconcilers \cup Watchers, ReconcilerStep(p) \/ WatcherStep(p)
    PROVE  FollowsItsCall
<1>1. \A c \in Cancellers : c \in Processes /\ c # p
  BY CancelAssumption DEF Processes
<1>2. \A q \in Processes : q # p => pc'[q] = pc[q] /\ target'[q] = target[q]
  BY DEF ReconcilerStep, WatcherStep, CheckUnresolved, ReadExact, StampObservation,
     Reconcile, StartWatch, ReadListed, CheckOrder, WriteOrder, Recorded, Refuse,
     Leave, Goto, OrderRecording, TypeOK, ProcessTypeOK
<1> QED
  BY <1>1, <1>2 DEF FollowsItsCall

LEMMA CalledStep ==
    ASSUME TypeOK, Holding, Exclusive, Called, [Next]_vars
    PROVE  Called'
<1> USE DEF Processes
<1>1. \A c \in Cancellers : pc[c] \in AfterCall => target[c] \in Orders
  BY DEF Holding, AfterCall
<1>2. ASSUME NEW c \in Cancellers, CallCancel(c)
      PROVE  Called'
  <2>1. target[c] \in Orders /\ UNCHANGED target
    BY <1>2 DEF CallCancel, Holding
  <2>2. calls'[target[c]] > 0
        /\ \A o \in Orders : calls[o] > 0 => calls'[o] > 0
    BY <1>2, <2>1 DEF CallCancel, TypeOK
  <2>3. \A d \in Cancellers : d # c => pc'[d] = pc[d]
    BY <1>2 DEF CallCancel, Goto, TypeOK, ProcessTypeOK
  <2> QED
    BY <1>1, <2>1, <2>2, <2>3 DEF Called
<1>3. CASE \A c \in Cancellers : ~CallCancel(c)
  <2>1. UNCHANGED calls
    BY <1>3 DEF Next, vars, CancellerStep, ReconcilerStep, WatcherStep,
       CheckTarget, CheckSwitches, ReadTarget, CheckOrder, WriteOrder, Plan,
       ReserveIntent, AcquireCancelLease, ClaimIntent, ObserveOutcome, CheckCancel,
       WriteCancel, MarkAmbiguous, ReleaseCancelLease, FallbackRead,
       CheckUnresolved, ReadExact, StampObservation, Reconcile, StartWatch,
       ReadListed, RecordFails, Stop, BrokerEvolves, ControlChanges, ClockTicks
  <2>2. FollowsItsCall
    <3>1. ASSUME NEW p \in Processes, RecordFails(p) \/ Stop(p)
          PROVE  FollowsItsCall
      BY <3>1, LeaveFollows DEF RecordFails, Stop
    <3>2. CASE \/ UNCHANGED vars
               \/ \E o \in Orders : BrokerEvolves(o)
               \/ ControlChanges
               \/ ClockTicks
      <4>1. UNCHANGED <<pc, target>>
        BY <3>2 DEF vars, BrokerEvolves, ControlChanges, ClockTicks, processVars
      <4> QED
        BY <4>1 DEF FollowsItsCall
    <3>3. ASSUME NEW c \in Cancellers, CancellerStep(c)
          PROVE  FollowsItsCall
      BY <1>3, <3>3, CancellerFollows
    <3>4. ASSUME NEW r \in Reconcilers, ReconcilerStep(r)
          PROVE  FollowsItsCall
      BY <3>4, OthersFollow
    <3>5. ASSUME NEW w \in Watchers, WatcherStep(w)
          PROVE  FollowsItsCall
      BY <3>5, OthersFollow
    <3> QED
      BY <3>1, <3>2, <3>3, <3>4, <3>5 DEF Next
  <2> QED
    BY <2>1, <2>2 DEF FollowsItsCall, Called
<1> QED
  BY <1>2, <1>3

\* What the refinement rests on: once attempted, always on record as attempted.
CancelInv == TypeOK /\ Holding /\ Truthful /\ Exclusive /\ Called

LEMMA CancelInvariant == Spec => []CancelInv
<1>1. Init => CancelInv
  <2>1. Init => Called
    BY DEF Init, Called, AfterCall, Processes
  <2> QED
    BY <2>1, CancelTypeInit, TruthfulInit, ExclusiveInit DEF CancelInv
<1>2. CancelInv /\ [Next]_vars => CancelInv'
  BY CancelTypeStep, TruthfulStep, ExclusiveStep, CalledStep DEF CancelInv
<1> QED
  BY <1>1, <1>2, PTL DEF Spec

\* A step that cancels at the broker, or may, is a call or the broker's own.
LEMMA BrokerSteps ==
    ASSUME [Next]_vars
    PROVE  \/ UNCHANGED <<broker, calls>>
           \/ UNCHANGED cancels /\ \E c \in Cancellers : CallCancel(c)
           \/ UNCHANGED cancels /\ \E o \in Orders : BrokerEvolves(o)
<1>1. ASSUME NEW c \in Cancellers, CancellerStep(c)
      PROVE  UNCHANGED <<broker, calls>> \/ (CallCancel(c) /\ UNCHANGED cancels)
  BY <1>1 DEF CancellerStep, CheckTarget, CheckSwitches, ReadTarget, CheckOrder,
     WriteOrder, Plan, ReserveIntent, AcquireCancelLease, ClaimIntent, CallCancel,
     ObserveOutcome, CheckCancel, WriteCancel, MarkAmbiguous, ReleaseCancelLease,
     FallbackRead, tableVars
<1>2. ASSUME NEW p, ReconcilerStep(p) \/ WatcherStep(p) \/ RecordFails(p) \/ Stop(p)
      PROVE  UNCHANGED <<broker, calls>>
  BY <1>2 DEF ReconcilerStep, WatcherStep, CheckOrder, WriteOrder, CheckUnresolved,
     ReadExact, StampObservation, Reconcile, StartWatch, ReadListed, RecordFails, Stop
<1>3. ASSUME NEW o \in Orders, BrokerEvolves(o)
      PROVE  UNCHANGED cancels
  BY <1>3 DEF BrokerEvolves, tableVars
<1>4. CASE UNCHANGED vars \/ ControlChanges \/ ClockTicks
  BY <1>4 DEF vars, ControlChanges, ClockTicks
<1> QED
  BY <1>1, <1>2, <1>3, <1>4 DEF Next

\* The broker cancels at most the order that moves.
LEMMA CanceledStep ==
    ASSUME TypeOK, NEW o \in Orders, BrokerMoves(o) \/ UNCHANGED broker
    PROVE  Canceled' \in {Canceled, Canceled \cup {o}}
<1>1. \A other \in Orders : IsFinal(broker[other]) => broker'[other] = broker[other]
  BY BrokerKeepsEnds
<1>2. \A other \in Orders \ {o} : broker'[other] = broker[other]
  BY DEF BrokerMoves, TypeOK
<1>3. \A other : CanceledAtBroker(other) => IsFinal(broker[other])
  BY DEF CanceledAtBroker, IsFinal, FinalStatuses
<1>4. Canceled \subseteq Canceled'
  BY <1>1, <1>3 DEF Canceled, CanceledAtBroker
<1>5. Canceled' \subseteq Canceled \cup {o}
  BY <1>2 DEF Canceled, CanceledAtBroker
<1> QED
  BY <1>4, <1>5

\* What is known comes and goes only with what was attempted, and is learned from
\* a broker that did cancel.
LEMMA WriteRefines ==
    ASSUME CancelInv, UNCHANGED <<broker, calls>>, NEW p \in Processes, NEW o \in Orders,
           o = target[p],
           \A other \in Orders \ {o} : cancels'[other] = cancels[other],
           \/ cancels[o].state = "none" /\ cancels'[o].state = "reserved"
           \/ cancels'[o].state = cancels[o].state
           \/ Claims(p, o) \/ Blurs(p, o) \/ Observes(p, o)
    PROVE  [OneShot!Next]_OneShot!vars
<1> USE DEF OneShot!Next, OneShot!vars
<1>1. UNCHANGED Canceled
  BY DEF Canceled, CanceledAtBroker
<1>2. ASSUME cancels[o].state \in AttemptedCancelStates <=>
                 cancels'[o].state \in AttemptedCancelStates,
             cancels[o].state = "canceled" <=> cancels'[o].state = "canceled"
      PROVE  [OneShot!Next]_OneShot!vars
  <2>1. UNCHANGED <<Attempted, Known>>
    BY <1>2 DEF Attempted, Known
  <2> QED
    BY <1>1, <2>1
<1>3. CASE Claims(p, o)
  <2>1. "cancel_attempted" \in AttemptedCancelStates
        /\ "reserved" \notin AttemptedCancelStates
    BY DEF AttemptedCancelStates, TerminalCancelStates
  <2>2. o \notin Attempted /\ Attempted' = Attempted \cup {o} /\ UNCHANGED Known
    BY <1>3, <2>1 DEF Claims, Attempted, Known
  <2> QED
    BY <1>1, <2>2 DEF OneShot!Attempt
<1>4. CASE Blurs(p, o)
  BY <1>2, <1>4 DEF Blurs, AttemptedCancelStates
<1>5. CASE Observes(p, o)
  <2>1. cancels[o].state \in AttemptedCancelStates
    <3>1. CASE p \in Cancellers /\ pc[p] \in CancelRecording
      BY <3>1 DEF CancelInv, Called, AfterCall, CancelRecording, Exclusive,
                  CancelLeavesEvidence
    <3>2. CASE cancels[o].state \in ReconcilableCancelStates
      BY <3>2 DEF ReconcilableCancelStates, AttemptedCancelStates
    <3> QED
      BY <1>5, <3>1, <3>2 DEF Observes
  <2>2. cancels'[o].state \in AttemptedCancelStates
    BY <1>5, CancelStateTypes, ObservationAssumption DEF Observes
  <2>3. UNCHANGED Attempted
    BY <2>1, <2>2 DEF Attempted
  <2>4. CASE cancels'[o].state = "canceled"
    <3>1. CancelStateFromOrderStatus(seen[p].status) \in TerminalCancelStates
      BY <1>5, <2>4 DEF Observes, TerminalCancelStates
    <3>2. seen[p] \in Observations /\ IsFinal(seen[p])
      BY <1>5, <3>1, TerminalCancels, ObservationAssumption DEF Observes
    <3>3. broker[o] = seen[p]
      BY <3>2, BrokerAssumption DEF CancelInv, Truthful
    <3>4. CanceledAtBroker(o)
      BY <1>5, <2>4, <3>3 DEF Observes, CancelStateFromOrderStatus, CanceledAtBroker
    <3>5. o \in Attempted \cap Canceled /\ Known' = Known \cup {o}
      BY <2>1, <2>4, <3>4 DEF Attempted, Canceled, Known
    <3> QED
      BY <1>1, <2>3, <3>5 DEF OneShot!Learn
  <2>5. CASE cancels'[o].state # "canceled"
    <3>1. Known' = Known \ {o}
      BY <2>5 DEF Known
    <3> QED
      BY <1>1, <2>3, <3>1 DEF OneShot!Unlearn
  <2> QED
    BY <2>4, <2>5
<1>6. CASE cancels[o].state = "none" /\ cancels'[o].state = "reserved"
  BY <1>2, <1>6 DEF AttemptedCancelStates, TerminalCancelStates
<1> QED
  BY <1>2, <1>3, <1>4, <1>5, <1>6

LEMMA OneShotInit == Init => OneShot!Init
<1> SUFFICES ASSUME Init PROVE OneShot!Init
  OBVIOUS
<1>1. Attempted = {} /\ Known = {}
  BY DEF Init, NoCancel, Attempted, Known, AttemptedCancelStates, TerminalCancelStates
<1>2. Canceled = {}
  BY DEF Init, Canceled, CanceledAtBroker, IsFinal, FinalStatuses
<1> QED
  BY <1>1, <1>2 DEF Init, OneShot!Init

\* A claim that commits is the abstract Attempt, the broker's call Call, an order
\* the broker ends Cancel, and the records and the reconciliation are Learn or
\* Unlearn; every other step changes nothing abstract.
LEMMA OneShotStep == CancelInv /\ [Next]_vars => [OneShot!Next]_OneShot!vars
<1> SUFFICES ASSUME CancelInv, [Next]_vars
             PROVE  [OneShot!Next]_OneShot!vars
  OBVIOUS
<1> USE DEF OneShot!Next, OneShot!vars
<1>1. CASE UNCHANGED <<broker, calls>>
  <2>1. CASE UNCHANGED cancels
    BY <1>1, <2>1 DEF Attempted, Canceled, Known, CanceledAtBroker
  <2> QED
    BY <1>1, <2>1, WriteRefines, CancelWrites DEF CancelInv
<1>2. ASSUME NEW c \in Cancellers, CallCancel(c), UNCHANGED cancels
      PROVE  OneShot!Next
  <2>1. PICK o \in Orders : o = target[c]
    BY <1>2 DEF CancelInv, Holding, Processes, CallCancel
  <2>2. o \in Attempted /\ calls[o] = 0
    BY <1>2, <2>1 DEF CancelInv, Exclusive, CallCancel, Attempted
  <2>3. calls' = [calls EXCEPT ![o] = 1]
    BY <1>2, <2>1, <2>2 DEF CallCancel
  <2>4. Canceled' \in {Canceled, Canceled \cup {o}}
    BY <1>2, <2>1, CanceledStep DEF CallCancel, CancelInv
  <2>5. UNCHANGED <<Attempted, Known>>
    BY <1>2 DEF Attempted, Known
  <2> QED
    BY <2>2, <2>3, <2>4, <2>5 DEF OneShot!Call
<1>3. ASSUME NEW o \in Orders, BrokerEvolves(o), UNCHANGED cancels
      PROVE  [OneShot!Next]_OneShot!vars
  <2>1. Canceled' \in {Canceled, Canceled \cup {o}}
    BY <1>3, CanceledStep DEF BrokerEvolves, CancelInv
  <2>2. UNCHANGED <<Attempted, Known, calls>>
    BY <1>3 DEF BrokerEvolves, Attempted, Known
  <2> QED
    BY <2>1, <2>2 DEF OneShot!Cancel
<1> QED
  BY <1>1, <1>2, <1>3, BrokerSteps

\* The commands, the reconciliation and the trading cycles together, with their
\* journal, lease, clock and crashes, do what OneShotCancel says and nothing else.
THEOREM CancelRefinement == Spec => ImplementsOneShotCancel
  BY OneShotInit, OneShotStep, CancelInvariant, PTL
  DEF Spec, ImplementsOneShotCancel, OneShot!Spec
=============================================================================
