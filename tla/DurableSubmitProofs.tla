------------------------ MODULE DurableSubmitProofs ------------------------
(***************************************************************************)
(* Theorems about DurableSubmit, for any orders, plans, runs, operators,   *)
(* lease times and broker answers.                                         *)
(***************************************************************************)
EXTENDS DurableSubmit, JournalTypes, TLAPS

-----------------------------------------------------------------------------
(* Type correctness.                                                       *)

\* The phases that only a run with a plan reaches.
Planned == {"reserving", "reserved", "claimed", "response", "raised", "called",
            "post"}

\* What each process holds between its steps: a run past planning has a plan,
\* and nobody records an order its own snapshot does not show.
Discipline ==
    /\ \A r \in Runs : pc[r] \in Planned => plan[r] # NoPlan
    /\ \A r \in Runs : pc[r] = "response" => todo[r] \subseteq {OrderOf[plan[r]]}
    /\ \A p \in Processes : pc[p] \notin Recording => todo[p] = {}
    /\ \A p \in Processes : checked[p] # NoOrder => checked[p] \in todo[p]
    /\ \A p \in Processes : \A o \in todo[p] : snap[p][o] # Absent

LEMMA TypeInit == Init => TypeOK
  BY ProcessAssumption, BrokerAssumption, PlanAssumption
  DEF Init, TypeOK, LeaseInit, ControlInit, JournalInit, LeaseTypeOK,
      ControlTypeOK, JournalTypeOK, NoLease, LeaseRow, DefaultControl,
      ControlRow, NoRow, OrderRow, RowStates, NoCredentials, Credentials,
      NothingSeen, RunPhases, OperatorPhases, Processes, Runs

\* A process takes in one order of the broker's answer.
LEMMA OneAnswerTypes ==
    ASSUME TypeOK, NEW p \in Processes, NEW o \in Orders, NEW obs \in Observations,
           snap' = [snap EXCEPT ![p][o] = obs],
           todo' = [todo EXCEPT ![p] = {o}]
    PROVE  /\ snap' \in [Processes -> [Orders -> Observations \cup {Absent}]]
           /\ todo' \in [Processes -> SUBSET Orders]
<1>1. snap[p] \in [Orders -> Observations \cup {Absent}]
  BY DEF TypeOK
<1>2. [snap[p] EXCEPT ![o] = obs] \in [Orders -> Observations \cup {Absent}]
  BY <1>1
<1>3. snap' = [snap EXCEPT ![p] = [snap[p] EXCEPT ![o] = obs]]
  BY DEF TypeOK
<1>4. snap' \in [Processes -> [Orders -> Observations \cup {Absent}]]
  BY <1>2, <1>3 DEF TypeOK
<1>5. todo' \in [Processes -> SUBSET Orders]
  BY DEF TypeOK
<1> QED
  BY <1>4, <1>5

\* The phases a step can lead to.
LEMMA PhaseTypes ==
    ASSUME TypeOK, NEW p \in Processes, NEW phase \in RunPhases \cup OperatorPhases,
           p \in Runs => phase \in RunPhases,
           p \in Operators => phase \in OperatorPhases,
           Goto(p, phase)
    PROVE  /\ pc' \in [Processes -> RunPhases \cup OperatorPhases]
           /\ \A r \in Runs : pc'[r] \in RunPhases
           /\ \A c \in Operators : pc'[c] \in OperatorPhases
  BY DEF TypeOK, Goto, Processes

LEMMA ForgetTypes ==
    ASSUME TypeOK, NEW r \in Runs, Forget(r)
    PROVE  /\ pc' \in [Processes -> RunPhases \cup OperatorPhases]
           /\ \A q \in Runs : pc'[q] \in RunPhases
           /\ \A c \in Operators : pc'[c] \in OperatorPhases
           /\ ts' \in [Runs -> Nat]
           /\ cred' \in [Runs -> Credentials]
           /\ plan' \in [Runs -> Plans \cup {NoPlan}]
           /\ snap' \in [Processes -> [Orders -> Observations \cup {Absent}]]
           /\ todo' \in [Processes -> SUBSET Orders]
           /\ checked' \in [Processes -> Orders \cup {NoOrder}]
<1>1. /\ pc' \in [Processes -> RunPhases \cup OperatorPhases]
      /\ \A q \in Runs : pc'[q] \in RunPhases
      /\ \A c \in Operators : pc'[c] \in OperatorPhases
  BY PhaseTypes, ProcessAssumption, BrokerAssumption DEF Forget, RunPhases, Processes
<1>2. NoCredentials \in Credentials
      /\ NothingSeen \in [Orders -> Observations \cup {Absent}]
  BY DEF NoCredentials, Credentials, NothingSeen
<1> QED
  BY <1>1, <1>2 DEF Forget, TypeOK

LEMMA TypeStep == TypeOK /\ Discipline /\ [Next]_vars => TypeOK'
<1> SUFFICES ASSUME TypeOK, Discipline, [Next]_vars
             PROVE  TypeOK'
  OBVIOUS
<1> USE DEF leaseVars, controlVars, runVars, recordVars, brokerVars
<1>a. \A r \in Runs : /\ r \in Owners /\ r \in Processes
                      /\ ts[r] \in Nat /\ cred[r] \in Credentials
                      /\ pc[r] \in Planned => /\ plan[r] \in Plans
                                              /\ OrderOf[plan[r]] \in Orders
  BY PlanAssumption DEF TypeOK, Discipline, Runs, Processes
<1>b. Operators \subseteq Processes /\ Runs \subseteq Processes
  BY DEF Processes
<1>c. /\ LeaseTypeOK /\ UNCHANGED leaseVars => LeaseTypeOK'
      /\ ControlTypeOK /\ UNCHANGED controlVars => ControlTypeOK'
      /\ JournalTypeOK /\ UNCHANGED journal => JournalTypeOK'
  BY DEF LeaseTypeOK, ControlTypeOK, JournalTypeOK
<1> USE <1>a, <1>b, <1>c, ProcessAssumption, BrokerAssumption
<1>1. ASSUME NEW r \in Runs, Start(r)
      PROVE  TypeOK'
  BY <1>1, PhaseTypes DEF Start, TypeOK, LeaseTypeOK, RunPhases
<1>2. ASSUME NEW r \in Runs, AcquireLease(r)
      PROVE  TypeOK'
  <2>1. CASE TakeLease(r, ts[r]) /\ cred' = [cred EXCEPT ![r] = NextCredentials(r)]
    <3>1. LeaseTypeOK' /\ NextCredentials(r) \in Credentials
      BY <1>2, <2>1, TakeLeaseTypes DEF TypeOK, AcquireLease, LeaseTypeOK
    <3> QED
      BY <1>2, <2>1, <3>1, PhaseTypes DEF AcquireLease, TypeOK, RunPhases
  <2>2. CASE LeaseRefused(NoCredentials, ts[r]) /\ UNCHANGED cred
    BY <1>2, <2>2, PhaseTypes DEF AcquireLease, LeaseRefused, TypeOK, RunPhases
  <2> QED
    BY <1>2, <2>1, <2>2 DEF AcquireLease
<1>3. ASSUME NEW r \in Runs, ObserveAndPlan(r)
      PROVE  TypeOK'
  BY <1>3, PhaseTypes DEF ObserveAndPlan, TypeOK, RunPhases
<1>4. ASSUME NEW r \in Runs, ListUnresolved(r)
      PROVE  TypeOK'
  BY <1>4, PhaseTypes DEF ListUnresolved, TypeOK, RunPhases
<1>5. ASSUME NEW p \in Processes, CheckObservation(p)
      PROVE  TypeOK'
  <2>1. PICK o \in todo[p] :
           \/ checked' = [checked EXCEPT ![p] = o] /\ UNCHANGED <<todo, pc>>
           \/ ObservationRefused(p, o) /\ UNCHANGED checked
    BY <1>5 DEF CheckObservation
  <2>2. o \in Orders
    BY DEF TypeOK
  <2>3. UNCHANGED <<leaseVars, controlVars, journal, ts, cred, plan, snap,
                    brokerVars>>
    BY <1>5 DEF CheckObservation
  <2>4. CASE checked' = [checked EXCEPT ![p] = o] /\ UNCHANGED <<todo, pc>>
    BY <2>2, <2>3, <2>4 DEF TypeOK
  <2>5. CASE ObservationRefused(p, o) /\ UNCHANGED checked
    BY <2>3, <2>5 DEF TypeOK, ObservationRefused, RunPhases, OperatorPhases
  <2> QED
    BY <2>1, <2>4, <2>5
<1>6. ASSUME NEW p \in Processes, WriteChecked(p)
      PROVE  TypeOK'
  <2>1. /\ checked[p] \in Orders
        /\ snap[p][checked[p]] \in Observations
    BY <1>6 DEF WriteChecked, TypeOK, Discipline
  <2>2. JournalTypeOK'
    BY <1>6, <2>1, WriteTypes DEF WriteChecked, TypeOK
  <2> QED
    BY <1>6, <2>1, <2>2 DEF WriteChecked, TypeOK
<1>7. ASSUME NEW r \in Runs, WriteFails(r)
      PROVE  TypeOK'
  BY <1>7 DEF WriteFails, ObservationRefused, TypeOK, RunPhases
<1>8. ASSUME NEW p \in Processes, FinishRecording(p)
      PROVE  TypeOK'
  BY <1>8, PhaseTypes DEF FinishRecording, TypeOK, RunPhases, OperatorPhases,
                          Recording
<1>9. ASSUME NEW r \in Runs, Prepare(r)
      PROVE  TypeOK'
  BY <1>9, PhaseTypes DEF Prepare, TypeOK, RunPhases
<1>10. ASSUME NEW r \in Runs, ReserveOrder(r)
       PROVE  TypeOK'
  BY <1>10, PhaseTypes, ReserveTypes DEF ReserveOrder, TypeOK, RunPhases, Planned
<1>11. ASSUME NEW r \in Runs, BlockCycle(r)
       PROVE  TypeOK'
  BY <1>11, PhaseTypes DEF BlockCycle, TypeOK, RunPhases
<1>12. ASSUME NEW r \in Runs, ClaimOrder(r)
       PROVE  TypeOK'
  BY <1>12, PhaseTypes, ClaimTypes DEF ClaimOrder, TypeOK, RunPhases, Planned
<1>13. ASSUME NEW r \in Runs, CallBroker(r)
       PROVE  TypeOK'
  <2> DEFINE o == OrderOf[plan[r]]
  <2>1. o \in Orders
    BY <1>13 DEF CallBroker, Planned
  <2>2. /\ LeaseTypeOK' /\ ControlTypeOK' /\ JournalTypeOK'
        /\ calls' \in [Orders -> Nat] /\ haltedCalls' \in Nat
        /\ UNCHANGED <<ts, cred, plan, checked>>
    BY <1>13, <2>1 DEF CallBroker, TypeOK
  <2>3. PICK phase \in {"response", "raised"} : Goto(r, phase)
    BY <1>13 DEF CallBroker
  <2>4. /\ pc' \in [Processes -> RunPhases \cup OperatorPhases]
        /\ \A q \in Runs : pc'[q] \in RunPhases
        /\ \A c \in Operators : pc'[c] \in OperatorPhases
    BY <2>3, PhaseTypes DEF RunPhases
  <2>5. CASE UNCHANGED <<broker, snap, todo>>
    BY <2>5, <2>2, <2>4 DEF TypeOK
  <2>6. ASSUME NEW obs \in Observations,
               broker' = [broker EXCEPT ![o] = obs],
               \/ snap' = [snap EXCEPT ![r][o] = obs] /\ todo' = [todo EXCEPT ![r] = {o}]
               \/ UNCHANGED <<snap, todo>>
        PROVE  TypeOK'
    <3>1. broker' \in [Orders -> Observations \cup {Absent}]
      BY <2>1, <2>6 DEF TypeOK
    <3>2. snap' \in [Processes -> [Orders -> Observations \cup {Absent}]]
          /\ todo' \in [Processes -> SUBSET Orders]
      BY <2>1, <2>6, OneAnswerTypes, Zenon DEF TypeOK
    <3> QED
      BY <2>2, <2>4, <3>1, <3>2 DEF TypeOK
  <2> QED
    BY <1>13, <2>5, <2>6 DEF CallBroker
<1>14. ASSUME NEW r \in Runs, MarkAmbiguous(r)
       PROVE  TypeOK'
  BY <1>14, PhaseTypes, AmbiguousTypes DEF MarkAmbiguous, TypeOK, RunPhases, Planned
<1>15. ASSUME NEW r \in Runs, ObserveAgain(r)
       PROVE  TypeOK'
  <2>1. OrderOf[plan[r]] \in Orders
    BY <1>15 DEF ObserveAgain, Planned
  <2>2. PICK phase \in {"post", "releasing"} : Goto(r, phase)
    BY <1>15 DEF ObserveAgain
  <2>3. /\ pc' \in [Processes -> RunPhases \cup OperatorPhases]
        /\ \A q \in Runs : pc'[q] \in RunPhases
        /\ \A c \in Operators : pc'[c] \in OperatorPhases
    BY <2>2, PhaseTypes DEF RunPhases
  <2>4. /\ snap' \in [Processes -> [Orders -> Observations \cup {Absent}]]
        /\ todo' \in [Processes -> SUBSET Orders]
    <3>1. CASE UNCHANGED <<snap, todo>>
      BY <3>1 DEF TypeOK
    <3>2. CASE /\ broker[OrderOf[plan[r]]] # Absent
               /\ snap' = [snap EXCEPT ![r][OrderOf[plan[r]]] = broker[OrderOf[plan[r]]]]
               /\ todo' = [todo EXCEPT ![r] = {OrderOf[plan[r]]}]
      <4>1. broker[OrderOf[plan[r]]] \in Observations
        BY <2>1, <3>2 DEF TypeOK
      <4> QED
        BY <2>1, <3>2, <4>1, OneAnswerTypes, Zenon
    <3> QED
      BY <1>15, <3>1, <3>2 DEF ObserveAgain
  <2> QED
    BY <1>15, <2>3, <2>4 DEF ObserveAgain, TypeOK
<1>16. ASSUME NEW r \in Runs, Release(r)
       PROVE  TypeOK'
  <2>1. LeaseTypeOK'
    BY <1>16, ReleaseLeaseTypes DEF Release, ReleaseLease, TypeOK, LeaseTypeOK
  <2> QED
    BY <1>16, <2>1, ForgetTypes DEF Release, TypeOK
<1>17. ASSUME NEW r \in Runs, Crash(r)
       PROVE  TypeOK'
  BY <1>17, ForgetTypes DEF Crash, TypeOK
<1>18. ASSUME NEW c \in Operators, LoadSnapshot(c)
       PROVE  TypeOK'
  BY <1>18, PhaseTypes DEF LoadSnapshot, TypeOK, OperatorPhases
<1>19. ASSUME NEW c \in Operators, ReadRecords(c)
       PROVE  TypeOK'
  BY <1>19, PhaseTypes DEF ReadRecords, TypeOK, OperatorPhases
<1>20. ASSUME NEW o \in Orders, BrokerEvolves(o)
       PROVE  TypeOK'
  BY <1>20 DEF BrokerEvolves, BrokerMoves, TypeOK
<1>21. CASE ControlChanges
  BY <1>21, ControlTypes DEF ControlChanges, TypeOK
<1>22. CASE ClockTicks
  BY <1>22 DEF ClockTicks, Tick, TypeOK, LeaseTypeOK
<1>23. CASE UNCHANGED vars
  BY <1>23 DEF vars, TypeOK
<1> QED
  BY <1>1, <1>2, <1>3, <1>4, <1>5, <1>6, <1>7, <1>8, <1>9, <1>10, <1>11, <1>12,
     <1>13, <1>14, <1>15, <1>16, <1>17, <1>18, <1>19, <1>20, <1>21, <1>22, <1>23
  DEF Next, RunStep, OperatorStep, Record

-----------------------------------------------------------------------------
(* Discipline is kept, so every reachable state is type correct.           *)

LEMMA DisciplineInit == Init => Discipline
  BY ProcessAssumption, BrokerAssumption
  DEF Init, Discipline, NothingSeen, Planned, Recording, Processes, Runs

\* Only what the moving process did to its own fields matters.
LEMMA DisciplineOfMover ==
    ASSUME Discipline, NEW p \in Processes,
           \A q \in Processes \ {p} : /\ pc'[q] = pc[q] /\ snap'[q] = snap[q]
                                       /\ todo'[q] = todo[q]
                                       /\ checked'[q] = checked[q],
           \A q \in Runs \ {p} : plan'[q] = plan[q],
           p \in Runs => /\ pc'[p] \in Planned => plan'[p] # NoPlan
                         /\ pc'[p] = "response" => todo'[p] \subseteq {OrderOf[plan'[p]]},
           pc'[p] \notin Recording => todo'[p] = {},
           checked'[p] # NoOrder => checked'[p] \in todo'[p],
           \A o \in todo'[p] : snap'[p][o] # Absent
    PROVE  Discipline'
<1>1. Runs \subseteq Processes
  BY DEF Processes
<1> QED
  BY <1>1 DEF Discipline

LEMMA DisciplineStep == TypeOK /\ Discipline /\ [Next]_vars => Discipline'
<1> SUFFICES ASSUME TypeOK, Discipline, [Next]_vars
             PROVE  Discipline'
  OBVIOUS
<1> USE DEF leaseVars, controlVars, runVars, recordVars, brokerVars, Goto,
            Recording, Planned
<1>a. Operators \subseteq Processes /\ Runs \subseteq Processes
  BY DEF Processes
<1> USE <1>a, ProcessAssumption, BrokerAssumption
<1>1. ASSUME NEW r \in Runs,
             \/ Start(r) \/ AcquireLease(r) \/ Prepare(r) \/ ReserveOrder(r)
             \/ BlockCycle(r) \/ ClaimOrder(r) \/ MarkAmbiguous(r)
      PROVE  Discipline'
  <2>1. /\ pc[r] \notin Recording
        /\ UNCHANGED <<snap, todo, checked, plan>>
        /\ \E phase \in RunPhases : /\ Goto(r, phase) /\ phase \notin Recording
                                    /\ phase \in Planned => plan[r] # NoPlan
    <3>1. CASE Start(r) \/ AcquireLease(r) \/ BlockCycle(r)
      BY <3>1 DEF Start, AcquireLease, BlockCycle, RunPhases
    <3>2. CASE Prepare(r)
      BY <3>2 DEF Prepare, RunPhases
    <3>3. CASE ReserveOrder(r) \/ ClaimOrder(r) \/ MarkAmbiguous(r)
      BY <3>3 DEF ReserveOrder, ClaimOrder, MarkAmbiguous, RunPhases, Discipline
    <3> QED
      BY <1>1, <3>1, <3>2, <3>3
  <2>2. PICK phase \in RunPhases : /\ Goto(r, phase) /\ phase \notin Recording
                                   /\ phase \in Planned => plan[r] # NoPlan
    BY <2>1
  <2>3. /\ pc'[r] = phase
        /\ \A q \in Processes \ {r} : pc'[q] = pc[q]
    BY <2>2 DEF TypeOK
  <2>4. todo'[r] = {} /\ checked'[r] = NoOrder
    BY <2>1 DEF Discipline
  <2> QED
    BY <2>1, <2>2, <2>3, <2>4, DisciplineOfMover
<1>2. ASSUME NEW r \in Runs, ObserveAndPlan(r)
      PROVE  Discipline'
  BY <1>2, DisciplineOfMover DEF ObserveAndPlan, TypeOK, Discipline
<1>3. ASSUME NEW r \in Runs, ListUnresolved(r)
      PROVE  Discipline'
  BY <1>3, DisciplineOfMover DEF ListUnresolved, TypeOK, Discipline
<1>4. ASSUME NEW p \in Processes, CheckObservation(p)
      PROVE  Discipline'
  <2>1. PICK o \in todo[p] :
           \/ checked' = [checked EXCEPT ![p] = o] /\ UNCHANGED <<todo, pc>>
           \/ ObservationRefused(p, o) /\ UNCHANGED checked
    BY <1>4 DEF CheckObservation
  <2>2. pc[p] \in Recording /\ checked[p] = NoOrder /\ UNCHANGED <<snap, plan>>
    BY <1>4 DEF CheckObservation
  <2>3. CASE checked' = [checked EXCEPT ![p] = o] /\ UNCHANGED <<todo, pc>>
    BY <2>2, <2>3, DisciplineOfMover DEF TypeOK, Discipline
  <2>4. CASE ObservationRefused(p, o) /\ UNCHANGED checked
    <3>1. /\ todo'[p] \subseteq todo[p] /\ (pc[p] = "response" => o \notin todo'[p])
          /\ \A q \in Processes \ {p} : todo'[q] = todo[q] /\ pc'[q] = pc[q]
      BY <2>4 DEF ObservationRefused, TypeOK
    <3>2. pc'[p] = pc[p] \/ (p \in Runs /\ pc[p] = "response" /\ pc'[p] = "raised")
      BY <2>4 DEF ObservationRefused, TypeOK, OperatorPhases, Processes
    <3>3. p \in Runs /\ pc[p] = "response" => todo'[p] = {}
      BY <3>1 DEF Discipline
    <3>4. /\ p \in Runs => (pc'[p] \in Planned => plan'[p] # NoPlan)
          /\ pc'[p] = "response" => pc[p] = "response"
      BY <2>2, <3>2 DEF Discipline
    <3> QED
      BY <2>2, <2>4, <3>1, <3>2, <3>3, <3>4, DisciplineOfMover DEF Discipline
  <2> QED
    BY <2>1, <2>3, <2>4
<1>5. ASSUME NEW p \in Processes, WriteChecked(p)
      PROVE  Discipline'
  BY <1>5, DisciplineOfMover DEF WriteChecked, TypeOK, Discipline
<1>6. ASSUME NEW r \in Runs, WriteFails(r)
      PROVE  Discipline'
  BY <1>6, DisciplineOfMover
  DEF WriteFails, ObservationRefused, TypeOK, Discipline, RunPhases
<1>7. ASSUME NEW p \in Processes, FinishRecording(p)
      PROVE  Discipline'
  BY <1>7, DisciplineOfMover DEF FinishRecording, TypeOK, Discipline
<1>8. ASSUME NEW r \in Runs, CallBroker(r)
      PROVE  Discipline'
  <2>1. /\ pc[r] = "claimed" /\ plan[r] # NoPlan /\ todo[r] = {}
        /\ checked[r] = NoOrder /\ UNCHANGED <<plan, checked>>
    BY <1>8 DEF CallBroker, Discipline
  <2>2. CASE Goto(r, "raised") /\ UNCHANGED <<snap, todo>>
    BY <2>1, <2>2, DisciplineOfMover DEF TypeOK, Discipline
  <2>3. CASE /\ Goto(r, "response")
             /\ \E obs \in Observations :
                   /\ snap' = [snap EXCEPT ![r][OrderOf[plan[r]]] = obs]
                   /\ todo' = [todo EXCEPT ![r] = {OrderOf[plan[r]]}]
    <3>1. PICK obs \in Observations :
             /\ snap' = [snap EXCEPT ![r][OrderOf[plan[r]]] = obs]
             /\ todo' = [todo EXCEPT ![r] = {OrderOf[plan[r]]}]
      BY <2>3
    <3>2. OrderOf[plan[r]] \in Orders
      BY <2>1, PlanAssumption DEF TypeOK
    <3>3. /\ snap'[r][OrderOf[plan[r]]] = obs /\ obs # Absent
          /\ \A q \in Processes \ {r} : snap'[q] = snap[q]
      BY <3>1, <3>2 DEF TypeOK
    <3>4. /\ todo'[r] = {OrderOf[plan[r]]} /\ pc'[r] = "response"
          /\ \A q \in Processes \ {r} : todo'[q] = todo[q] /\ pc'[q] = pc[q]
      BY <2>3, <3>1 DEF TypeOK
    <3> QED
      BY <2>1, <3>3, <3>4, DisciplineOfMover
  <2> QED
    BY <1>8, <2>2, <2>3 DEF CallBroker
<1>9. ASSUME NEW r \in Runs, ObserveAgain(r)
      PROVE  Discipline'
  <2>1. /\ pc[r] = "called" /\ plan[r] # NoPlan /\ todo[r] = {}
        /\ checked[r] = NoOrder /\ UNCHANGED <<plan, checked>>
    BY <1>9 DEF ObserveAgain, Discipline
  <2>2. CASE Goto(r, "releasing") /\ UNCHANGED <<snap, todo>>
    BY <2>1, <2>2, DisciplineOfMover DEF TypeOK, Discipline
  <2>3. CASE /\ Goto(r, "post")
             /\ \E obs \in Observations :
                   /\ snap' = [snap EXCEPT ![r][OrderOf[plan[r]]] = obs]
                   /\ todo' = [todo EXCEPT ![r] = {OrderOf[plan[r]]}]
    <3>1. PICK obs \in Observations :
             /\ snap' = [snap EXCEPT ![r][OrderOf[plan[r]]] = obs]
             /\ todo' = [todo EXCEPT ![r] = {OrderOf[plan[r]]}]
      BY <2>3
    <3>2. OrderOf[plan[r]] \in Orders
      BY <2>1, PlanAssumption DEF TypeOK
    <3>3. /\ snap'[r][OrderOf[plan[r]]] = obs /\ obs # Absent
          /\ \A q \in Processes \ {r} : snap'[q] = snap[q]
      BY <3>1, <3>2 DEF TypeOK
    <3>4. /\ todo'[r] = {OrderOf[plan[r]]} /\ pc'[r] = "post"
          /\ \A q \in Processes \ {r} : todo'[q] = todo[q] /\ pc'[q] = pc[q]
      BY <2>3, <3>1 DEF TypeOK
    <3> QED
      BY <2>1, <3>3, <3>4, DisciplineOfMover
  <2>4. broker[OrderOf[plan[r]]] # Absent => broker[OrderOf[plan[r]]] \in Observations
    BY <2>1, PlanAssumption DEF TypeOK
  <2> QED
    BY <1>9, <2>2, <2>3, <2>4 DEF ObserveAgain
<1>10. ASSUME NEW r \in Runs, Release(r) \/ Crash(r)
       PROVE  Discipline'
  BY <1>10, DisciplineOfMover DEF Release, Crash, Forget, TypeOK, Discipline
<1>11. ASSUME NEW c \in Operators, LoadSnapshot(c) \/ ReadRecords(c)
       PROVE  Discipline'
  <2>1. c \notin Runs /\ pc[c] \notin Recording /\ todo[c] = {} /\ checked[c] = NoOrder
    BY <1>11 DEF LoadSnapshot, ReadRecords, Discipline
  <2>2. CASE LoadSnapshot(c)
    BY <2>1, <2>2, DisciplineOfMover DEF LoadSnapshot, TypeOK, Discipline
  <2>3. CASE ReadRecords(c)
    BY <2>1, <2>3, DisciplineOfMover
    DEF ReadRecords, Reconcilable, TypeOK, Discipline
  <2> QED
    BY <1>11, <2>2, <2>3
<1>12. CASE \/ \E o \in Orders : BrokerEvolves(o)
            \/ ControlChanges
            \/ ClockTicks
            \/ UNCHANGED vars
  BY <1>12 DEF BrokerEvolves, BrokerMoves, ControlChanges, ClockTicks, vars, Discipline
<1> QED
  BY <1>1, <1>2, <1>3, <1>4, <1>5, <1>6, <1>7, <1>8, <1>9, <1>10, <1>11, <1>12
  DEF Next, RunStep, OperatorStep, Record

\* Every reachable state is type correct and disciplined.
THEOREM AlwaysDisciplined == Spec => [](TypeOK /\ Discipline)
<1>1. Init => TypeOK /\ Discipline
  BY TypeInit, DisciplineInit
<1>2. TypeOK /\ Discipline /\ [Next]_vars => (TypeOK /\ Discipline)'
  BY TypeStep, DisciplineStep
<1> QED
  BY <1>1, <1>2, PTL DEF Spec

\* Every reachable state has the types declared for it: in particular every
\* state that record_broker_observation stores is one that OrderJournalState
\* names, whatever word the broker used.
THEOREM TypeCorrect == Spec => []TypeOK
  BY AlwaysDisciplined, PTL
=============================================================================
