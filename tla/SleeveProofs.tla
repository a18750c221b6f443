---------------------------- MODULE SleeveProofs ----------------------------
(***************************************************************************)
(* Theorems about SleeveCycle, for any orders, runs, answers and bounds.   *)
(*                                                                         *)
(* The invariant that makes them go through says four things.  Only one    *)
(* intent is pending, and only a pending intent's order can have fills     *)
(* that the ledger does not show.  What a row, a listing or a found end    *)
(* says of an order that is over is what the broker says.  A row stands    *)
(* between two runs that plan the same order.  And nothing is bought or    *)
(* sold beside a position that no strategy has adopted.                    *)
(***************************************************************************)
EXTENDS SleeveCycle, FiniteSetTheorems, TLAPS

Working == {"reserving", "reserved", "owned", "claimed", "response", "called",
            "post", "closing"}

Told == {"counted", "listed", "settling", "settled"}

\* A run past its preparation has an order; one that settles has found an end.
Plans == \A r \in Runs :
            /\ pc[r] \in Working => plan[r] # NoOrder
            /\ pc[r] = "settling" => /\ found[r].order \in Orders
                                     /\ found[r].answer \in FinalAnswers

-----------------------------------------------------------------------------
(* Type correctness.                                                       *)

LEMMA AnswerTypes ==
    /\ \A a \in Answers : /\ a.status \in FinalStatuses \cup {"open"}
                         /\ a.quantity \in Nat
    /\ \A a \in FinalAnswers : a \in Answers /\ a.status \in FinalStatuses
    /\ Absent \notin FinalAnswers
    /\ FinalAnswers \subseteq Answers
  BY CycleAssumption DEF FinalAnswers

LEMMA InitTyped == Init => TypeOK /\ Plans
<1> SUFFICES ASSUME Init PROVE TypeOK /\ Plans
  OBVIOUS
<1>1. StoreTypeOK
  BY DEF Init, StoreTypeOK, LedgerInit, LedgerTypeOK, NoIntent, IntentRow, RowOf,
         NoStatus
<1>2. BrokerTypeOK
  BY DEF Init, BrokerTypeOK, NothingSeen
<1>3. RunTypeOK
  BY DEF Init, RunTypeOK, NothingSeen, NoFind, Phases, Strategies
<1>4. Plans
  BY DEF Init, Plans, Working
<1> QED
  BY <1>1, <1>2, <1>3, <1>4 DEF Init, TypeOK

LEMMA GotoTypes ==
    ASSUME RunTypeOK, NEW r \in Runs, NEW phase \in Phases, Goto(r, phase)
    PROVE  /\ pc' \in [Runs -> Phases]
           /\ pc'[r] = phase
           /\ \A q \in Runs : q # r => pc'[q] = pc[q]
  BY DEF RunTypeOK, Goto

LEMMA ForgetTypes ==
    ASSUME RunTypeOK, NEW r \in Runs, NEW phase \in Phases, Forget(r, phase)
    PROVE  /\ RunTypeOK'
           /\ pc'[r] = phase /\ plan'[r] = NoOrder /\ todo'[r] = {}
           /\ seen'[r] = NothingSeen
           /\ \A q \in Runs : q # r =>
                 /\ pc'[q] = pc[q] /\ plan'[q] = plan[q] /\ todo'[q] = todo[q]
                 /\ seen'[q] = seen[q] /\ found'[q] = found[q]
                 /\ position'[q] = position[q]
<1>1. /\ pc' \in [Runs -> Phases]
      /\ pc'[r] = phase
      /\ \A q \in Runs : q # r => pc'[q] = pc[q]
  BY GotoTypes DEF Forget
<1>2. /\ NothingSeen \in [Orders -> Answers \cup {Absent}]
      /\ NoFind \in [order : Orders \cup {NoOrder}, answer : Answers \cup {Absent}]
      /\ "sma" \in Strategies
  BY DEF NothingSeen, NoFind, Strategies
<1>3. /\ day' \in [Runs -> Nat] /\ active' \in [Runs -> Strategies]
      /\ position' \in [Runs -> Int] /\ quantity' \in [Runs -> Nat]
  BY <1>2 DEF RunTypeOK, Forget
<1>4. seen' \in [Runs -> [Orders -> Answers \cup {Absent}]]
  BY <1>2 DEF RunTypeOK, Forget
<1>5. /\ plan' \in [Runs -> Orders \cup {NoOrder}]
      /\ todo' \in [Runs -> SUBSET Orders]
  BY DEF RunTypeOK, Forget
<1>6. found' \in [Runs -> [order : Orders \cup {NoOrder},
                          answer : Answers \cup {Absent}]]
  BY <1>2 DEF RunTypeOK, Forget
<1>7. plan'[r] = NoOrder /\ todo'[r] = {} /\ seen'[r] = NothingSeen
  BY DEF RunTypeOK, Forget
<1>8. \A q \in Runs : q # r =>
         /\ plan'[q] = plan[q] /\ todo'[q] = todo[q] /\ seen'[q] = seen[q]
         /\ found'[q] = found[q] /\ position'[q] = position[q]
  BY DEF RunTypeOK, Forget
<1> QED
  BY <1>1, <1>3, <1>4, <1>5, <1>6, <1>7, <1>8 DEF RunTypeOK

LEMMA AnsweredTypes ==
    ASSUME BrokerTypeOK, NEW o \in Orders, NEW a \in Answers, Answered(o, a)
    PROVE  /\ broker' \in [Orders -> Answers \cup {Absent}]
           /\ net' \in [Strategies -> Int]
<1>1. a.quantity \in Nat /\ FilledAt(o) \in Nat /\ StrategyOf[o] \in Strategies
  BY AnswerTypes, SleeveAssumption DEF BrokerTypeOK, FilledAt
<1>2. net[StrategyOf[o]] \in Int
  BY <1>1 DEF BrokerTypeOK
<1> DEFINE n == IF SideOf[o] = "buy" THEN net[StrategyOf[o]] + (a.quantity - FilledAt(o))
                                     ELSE net[StrategyOf[o]] - (a.quantity - FilledAt(o))
<1>3. n \in Int
  BY <1>1, <1>2
<1>4. net' = [net EXCEPT ![StrategyOf[o]] = n]
  BY DEF Answered
<1> HIDE DEF n
<1> QED
  BY <1>1, <1>3, <1>4 DEF Answered, BrokerTypeOK

\* What a settlement writes; an id without an intent changes nothing.
LEMMA SettleTypes ==
    ASSUME LedgerTypeOK, NEW o, NEW status, NEW filled,
           o \in Orders => status \in FinalStatuses /\ filled \in Nat,
           SettleAdmitted(o, status, filled), SettleIntent(o, status, filled)
    PROVE  LedgerTypeOK'
<1>1. CASE o \notin Pending
  BY <1>1 DEF SettleIntent, LedgerTypeOK
<1>2. CASE o \in Pending
  <2>1. /\ o \in Orders /\ filled \in Nat /\ status \in FinalStatuses
        /\ intents[o].state = "reserved" /\ intents[o] \in IntentRow
    BY <1>2 DEF Pending, LedgerTypeOK
  <2>2. StrategyOf[o] \in Strategies /\ Sleeve(o) \in Nat
    BY <2>1, SleeveAssumption DEF Sleeve, LedgerTypeOK
  <2>3. SideOf[o] = "sell" => filled <= Sleeve(o)
    BY <2>1 DEF SettleAdmitted
  <2>4. SideOf[o] \in {"buy", "sell"}
    BY <2>1, SleeveAssumption
  <2>5. SleeveAfter(o, filled) \in Nat
    <3>1. CASE SideOf[o] = "buy"
      BY <2>1, <2>2, <3>1 DEF SleeveAfter
    <3>2. CASE SideOf[o] = "sell"
      BY <2>1, <2>2, <2>3, <3>2 DEF SleeveAfter
    <3> QED
      BY <2>4, <3>1, <3>2
  <2>6. sleeves' \in [Strategies -> Nat] /\ generation' \in Nat
    BY <2>2, <2>5 DEF SettleIntent, LedgerTypeOK
  <2> DEFINE row == [intents[o] EXCEPT !.filled = filled, !.status = status,
                       !.state = IF filled > 0 THEN "applied" ELSE "terminal_no_fill"]
  <2>7. row \in IntentRow
    BY <2>1 DEF IntentRow
  <2>8. intents' = [intents EXCEPT ![o] = row]
    BY <1>2, <2>1, Zenon DEF SettleIntent, LedgerTypeOK
  <2> HIDE DEF row
  <2> QED
    BY <2>1, <2>6, <2>7, <2>8 DEF LedgerTypeOK
<1> QED
  BY <1>1, <1>2

LEMMA SameTypes ==
    ASSUME TypeOK
    PROVE  /\ UNCHANGED storeVars => StoreTypeOK'
           /\ UNCHANGED brokerVars => BrokerTypeOK'
           /\ UNCHANGED runVars => RunTypeOK'
  BY DEF TypeOK, StoreTypeOK, BrokerTypeOK, RunTypeOK, storeVars, brokerVars,
         runVars, ledgerVars, planVars, toldVars, LedgerTypeOK

\* A cycle's own steps, up to its plan.
LEMMA CountingTyped ==
    ASSUME TypeOK, Plans, NEW r \in Runs,
           Start(r) \/ CountPosition(r) \/ ListOrders(r) \/ FindPending(r)
    PROVE  TypeOK' /\ Plans'
<1>0. StoreTypeOK /\ BrokerTypeOK /\ RunTypeOK
  BY DEF TypeOK
<1>1. CASE Start(r)
  <2>1. /\ pc' \in [Runs -> Phases] /\ pc'[r] = "leased"
        /\ \A q \in Runs : q # r => pc'[q] = pc[q]
    BY <1>0, <1>1, GotoTypes DEF Start, Phases
  <2>2. day' \in [Runs -> Nat] /\ active' \in [Runs -> Strategies]
    BY <1>1 DEF Start, TypeOK, RunTypeOK
  <2>3. RunTypeOK'
    BY <1>0, <1>1, <2>1, <2>2 DEF Start, RunTypeOK, toldVars
  <2>4. Plans'
    BY <1>1, <2>1 DEF Start, Plans, Working
  <2> QED
    BY <1>1, <2>3, <2>4, SameTypes DEF Start, TypeOK
<1>2. CASE CountPosition(r)
  <2>1. /\ pc' \in [Runs -> Phases] /\ pc'[r] = "counted"
        /\ \A q \in Runs : q # r => pc'[q] = pc[q]
    BY <1>0, <1>2, GotoTypes DEF CountPosition, Phases
  <2>2. Position \in Int
    BY <1>0, CycleAssumption DEF Position, BrokerTypeOK, Strategies
  <2>3. RunTypeOK'
    BY <1>0, <1>2, <2>1, <2>2 DEF CountPosition, RunTypeOK, planVars
  <2>4. Plans'
    BY <1>2, <2>1 DEF CountPosition, Plans, Working, planVars
  <2> QED
    BY <1>2, <2>3, <2>4, SameTypes DEF CountPosition, TypeOK
<1>3. CASE ListOrders(r)
  <2>1. /\ pc' \in [Runs -> Phases] /\ pc'[r] = "listed"
        /\ \A q \in Runs : q # r => pc'[q] = pc[q]
    BY <1>0, <1>3, GotoTypes DEF ListOrders, Phases
  <2>2. PICK listed \in SUBSET Orders :
           seen' = [seen EXCEPT ![r] =
              [o \in Orders |-> IF o \in listed THEN broker[o] ELSE Absent]]
    BY <1>3 DEF ListOrders
  <2>3. [o \in Orders |-> IF o \in listed THEN broker[o] ELSE Absent]
           \in [Orders -> Answers \cup {Absent}]
    BY <1>0 DEF BrokerTypeOK
  <2>4. seen' \in [Runs -> [Orders -> Answers \cup {Absent}]]
    BY <1>0, <2>2, <2>3 DEF RunTypeOK
  <2>5. RunTypeOK'
    BY <1>0, <1>3, <2>1, <2>4 DEF ListOrders, RunTypeOK, planVars
  <2>6. Plans'
    BY <1>3, <2>1 DEF ListOrders, Plans, Working, planVars
  <2> QED
    BY <1>3, <2>5, <2>6, SameTypes DEF ListOrders, TypeOK
<1>4. CASE FindPending(r)
  <2>1. /\ pc' \in [Runs -> Phases] /\ pc'[r] \in {"settling", "settled"}
        /\ \A q \in Runs : q # r => pc'[q] = pc[q]
    BY <1>0, <1>4, GotoTypes DEF FindPending, Phases
  <2>2. \A o \in Orders : EndOf(r, o) \in Answers \cup {Absent}
    <3>1. \A o \in Orders : rows[o].answer \in Answers \cup {Absent}
      BY <1>0 DEF StoreTypeOK, RowOf
    <3>2. \A o \in Orders : seen[r][o] \in Answers \cup {Absent}
      BY <1>0 DEF RunTypeOK
    <3> QED
      BY <3>1, <3>2 DEF EndOf
  <2>3. found' \in [Runs -> [order : Orders \cup {NoOrder},
                            answer : Answers \cup {Absent}]]
    <3>1. \A o \in Ended(r) : [order |-> o, answer |-> EndOf(r, o)]
             \in [order : Orders \cup {NoOrder}, answer : Answers \cup {Absent}]
      BY <2>2 DEF Ended, Pending
    <3> QED
      BY <1>0, <1>4, <3>1 DEF FindPending, RunTypeOK
  <2>4. RunTypeOK'
    BY <1>0, <1>4, <2>1, <2>3 DEF FindPending, RunTypeOK, planVars, toldVars
  <2>5. Plans'
    <3>1. pc'[r] = "settling" => /\ found'[r].order \in Orders
                                 /\ found'[r].answer \in FinalAnswers
      <4>1. CASE pc'[r] = "settled"
        BY <4>1
      <4>2. CASE \E o \in Ended(r) :
                    found' = [found EXCEPT ![r] = [order |-> o, answer |-> EndOf(r, o)]]
        BY <1>0, <4>2 DEF Ended, Pending, RunTypeOK
      <4> QED
        BY <1>4, <2>1, <4>1, <4>2 DEF FindPending, Goto
    <3>2. \A q \in Runs : q # r => found'[q] = found[q]
      BY <1>0, <1>4 DEF FindPending, RunTypeOK
    <3>3. plan' = plan
      BY <1>4 DEF FindPending, planVars
    <3> QED
      BY <2>1, <3>1, <3>2, <3>3 DEF Plans, Working
  <2> QED
    BY <1>4, <2>4, <2>5, SameTypes DEF FindPending, TypeOK
<1> QED
  BY <1>1, <1>2, <1>3, <1>4

LEMMA ComparedTypes ==
    ASSUME RunTypeOK, NEW r \in Runs, Compared(r)
    PROVE  /\ pc' \in [Runs -> Phases] /\ pc'[r] = "planned"
           /\ \A q \in Runs : q # r => pc'[q] = pc[q]
           /\ position' \in [Runs -> Int] /\ active' \in [Runs -> Strategies]
           /\ \A q \in Runs : q # r => position'[q] = position[q]
<1>1. /\ pc' \in [Runs -> Phases] /\ pc'[r] = "planned"
      /\ \A q \in Runs : q # r => pc'[q] = pc[q]
  BY GotoTypes DEF Compared, Phases
<1>2. position' \in [Runs -> Int] /\ active' \in [Runs -> Strategies]
  BY DEF Compared, RunTypeOK, Strategies
<1>3. \A q \in Runs : q # r => position'[q] = position[q]
  BY DEF Compared, RunTypeOK
<1> QED
  BY <1>1, <1>2, <1>3

LEMMA PlanningTyped ==
    ASSUME TypeOK, Plans, NEW r \in Runs,
           \/ SettleFound(r) \/ CompareSleeves(r) \/ AdoptPosition(r)
           \/ LedgerFails(r) \/ ListUnresolved(r)
    PROVE  TypeOK' /\ Plans'
<1>0. StoreTypeOK /\ BrokerTypeOK /\ RunTypeOK /\ LedgerTypeOK
  BY DEF TypeOK, StoreTypeOK
<1>n. NoFind \in [order : Orders \cup {NoOrder}, answer : Answers \cup {Absent}]
  BY DEF NoFind
<1>1. CASE SettleFound(r)
  <2>1. /\ pc' \in [Runs -> Phases] /\ pc'[r] = "settled"
        /\ \A q \in Runs : q # r => pc'[q] = pc[q]
    BY <1>0, <1>1, GotoTypes DEF SettleFound, Phases
  <2>2. RunTypeOK'
    BY <1>0, <1>n, <1>1, <2>1 DEF SettleFound, RunTypeOK, planVars, toldVars
  <2>3. \A q \in Runs : q # r => found'[q] = found[q]
    BY <1>0, <1>1 DEF SettleFound, RunTypeOK
  <2>4. Plans'
    BY <1>1, <2>1, <2>3 DEF SettleFound, Plans, Working, planVars
  <2> DEFINE end == found[r].answer
  <2>5. /\ SettleAdmitted(found[r].order, end.status, end.quantity)
        /\ SettleIntent(found[r].order, end.status, end.quantity)
    BY <1>1 DEF SettleFound
  <2>6. end.status \in FinalStatuses /\ end.quantity \in Nat
    BY <1>1, AnswerTypes DEF SettleFound, Plans
  <2> HIDE DEF end
  <2>7. LedgerTypeOK'
    BY <1>0, <2>5, <2>6, SettleTypes
  <2>8. StoreTypeOK'
    BY <1>0, <1>1, <2>7 DEF SettleFound, StoreTypeOK
  <2> QED
    BY <1>1, <2>2, <2>4, <2>8, SameTypes DEF SettleFound, TypeOK
<1>2. CASE CompareSleeves(r)
  <2>1. /\ pc' \in [Runs -> Phases] /\ pc'[r] = "planned"
        /\ \A q \in Runs : q # r => pc'[q] = pc[q]
        /\ position' \in [Runs -> Int] /\ active' \in [Runs -> Strategies]
    BY <1>0, <1>2, ComparedTypes DEF CompareSleeves
  <2>2. \A o \in Orders : Sleeve(o) \in Nat
    BY <1>0, SleeveAssumption DEF Sleeve, LedgerTypeOK
  <2>3. /\ plan' \in [Runs -> Orders \cup {NoOrder}]
        /\ quantity' \in [Runs -> Nat]
        /\ \A q \in Runs : q # r => plan'[q] = plan[q]
    BY <1>0, <1>2, <2>2 DEF CompareSleeves, RunTypeOK
  <2>4. RunTypeOK'
    BY <1>0, <1>2, <2>1, <2>3 DEF CompareSleeves, RunTypeOK
  <2>5. Plans'
    BY <1>2, <2>1, <2>3 DEF CompareSleeves, Plans, Working
  <2> QED
    BY <1>2, <2>4, <2>5, SameTypes DEF CompareSleeves, TypeOK
<1>3. CASE AdoptPosition(r)
  <2>1. /\ pc' \in [Runs -> Phases] /\ pc'[r] = "planned"
        /\ \A q \in Runs : q # r => pc'[q] = pc[q]
        /\ position' \in [Runs -> Int] /\ active' \in [Runs -> Strategies]
    BY <1>0, <1>3, ComparedTypes DEF AdoptPosition
  <2>2. active[r] \in Strategies /\ position[r] \in Nat
    BY <1>0, <1>3 DEF AdoptPosition, RunTypeOK
  <2>3. StoreTypeOK'
    BY <1>0, <1>3, <2>2 DEF AdoptPosition, Adopt, StoreTypeOK, LedgerTypeOK
  <2>4. RunTypeOK'
    BY <1>0, <1>3, <2>1 DEF AdoptPosition, RunTypeOK
  <2>5. Plans'
    BY <1>3, <2>1 DEF AdoptPosition, Plans, Working
  <2> QED
    BY <1>3, <2>3, <2>4, <2>5, SameTypes DEF AdoptPosition, TypeOK
<1>4. CASE LedgerFails(r)
  <2>1. /\ pc' \in [Runs -> Phases] /\ pc'[r] = "planned"
        /\ \A q \in Runs : q # r => pc'[q] = pc[q]
        /\ position' \in [Runs -> Int] /\ active' \in [Runs -> Strategies]
    BY <1>0, <1>4, ComparedTypes DEF LedgerFails
  <2>2. /\ found' \in [Runs -> [order : Orders \cup {NoOrder},
                               answer : Answers \cup {Absent}]]
        /\ \A q \in Runs : q # r => found'[q] = found[q]
    BY <1>0, <1>n, <1>4 DEF LedgerFails, RunTypeOK
  <2>3. RunTypeOK'
    BY <1>0, <1>4, <2>1, <2>2 DEF LedgerFails, RunTypeOK
  <2>4. Plans'
    BY <1>4, <2>1, <2>2 DEF LedgerFails, Plans, Working
  <2> QED
    BY <1>4, <2>3, <2>4, SameTypes DEF LedgerFails, TypeOK
<1>5. CASE ListUnresolved(r)
  <2>1. /\ pc' \in [Runs -> Phases] /\ pc'[r] = "startup"
        /\ \A q \in Runs : q # r => pc'[q] = pc[q]
    BY <1>0, <1>5, GotoTypes DEF ListUnresolved, Phases
  <2>2. todo' \in [Runs -> SUBSET Orders]
    BY <1>0, <1>5 DEF ListUnresolved, RunTypeOK
  <2>3. RunTypeOK'
    BY <1>0, <1>5, <2>1, <2>2 DEF ListUnresolved, RunTypeOK, planVars, toldVars
  <2>4. Plans'
    BY <1>5, <2>1 DEF ListUnresolved, Plans, Working, planVars
  <2> QED
    BY <1>5, <2>3, <2>4, SameTypes DEF ListUnresolved, TypeOK
<1> QED
  BY <1>1, <1>2, <1>3, <1>4, <1>5

LEMMA RecordingTyped ==
    ASSUME TypeOK, Plans, NEW r \in Runs,
           Record(r) \/ RecordFails(r) \/ FinishRecording(r)
    PROVE  TypeOK' /\ Plans'
<1>0. StoreTypeOK /\ BrokerTypeOK /\ RunTypeOK
  BY DEF TypeOK, StoreTypeOK
<1>1. CASE Record(r)
  <2>1. PICK o \in todo[r] :
           /\ rows' = [rows EXCEPT ![o] = [state |-> "observed", answer |-> seen[r][o]]]
           /\ todo' = [todo EXCEPT ![r] = @ \ {o}]
    BY <1>1 DEF Record
  <2>2. o \in Orders /\ seen[r][o] \in Answers \cup {Absent}
    BY <1>0 DEF RunTypeOK
  <2>3. [state |-> "observed", answer |-> seen[r][o]] \in RowOf
    BY <2>2 DEF RowOf
  <2>4. StoreTypeOK'
    BY <1>0, <1>1, <2>1, <2>3 DEF Record, StoreTypeOK, LedgerTypeOK, ledgerVars
  <2>5. todo' \in [Runs -> SUBSET Orders]
    BY <1>0, <2>1 DEF RunTypeOK
  <2>6. RunTypeOK'
    BY <1>0, <1>1, <2>5 DEF Record, RunTypeOK, planVars, toldVars
  <2>7. Plans'
    BY <1>1 DEF Record, Plans, Working, planVars
  <2> QED
    BY <1>1, <2>4, <2>6, <2>7, SameTypes DEF Record, TypeOK
<1>2. CASE RecordFails(r)
  <2>1. CASE pc[r] = "post"
    <3>1. Forget(r, "releasing")
      BY <1>2, <2>1 DEF RecordFails
    <3>2. /\ RunTypeOK' /\ pc'[r] = "releasing"
          /\ \A q \in Runs : q # r => /\ pc'[q] = pc[q] /\ plan'[q] = plan[q]
                                      /\ found'[q] = found[q]
      BY <1>0, <3>1, ForgetTypes DEF Phases
    <3> QED
      BY <1>2, <3>2, SameTypes DEF RecordFails, TypeOK, Plans, Working
  <2>2. CASE pc[r] # "post"
    <3>1. todo' \in [Runs -> SUBSET Orders]
      <4>1. PICK o \in todo[r] : todo' = [todo EXCEPT ![r] = @ \ {o}]
        BY <1>2, <2>2 DEF RecordFails
      <4> QED
        BY <1>0, <4>1 DEF RunTypeOK
    <3>2. RunTypeOK'
      BY <1>0, <1>2, <2>2, <3>1 DEF RecordFails, RunTypeOK, planVars, toldVars
    <3>3. Plans'
      BY <1>2, <2>2 DEF RecordFails, Plans, Working, planVars
    <3> QED
      BY <1>2, <3>2, <3>3, SameTypes DEF RecordFails, TypeOK
  <2> QED
    BY <2>1, <2>2
<1>3. CASE FinishRecording(r)
  <2>1. /\ pc' \in [Runs -> Phases] /\ pc'[r] \in {"preparing", "called", "closing"}
        /\ pc'[r] \in Working => pc[r] \in Working
        /\ \A q \in Runs : q # r => pc'[q] = pc[q]
    <3>1. pc[r] \in {"startup", "response", "post"}
      BY <1>3 DEF FinishRecording
    <3>2. CASE pc[r] = "startup"
      BY <1>0, <1>3, <3>2, GotoTypes DEF FinishRecording, Phases, Working
    <3>3. CASE pc[r] = "response"
      BY <1>0, <1>3, <3>3, GotoTypes DEF FinishRecording, Phases, Working
    <3>4. CASE pc[r] = "post"
      BY <1>0, <1>3, <3>4, GotoTypes DEF FinishRecording, Phases, Working
    <3> QED
      BY <3>1, <3>2, <3>3, <3>4
  <2>2. NothingSeen \in [Orders -> Answers \cup {Absent}]
    BY DEF NothingSeen
  <2>3. seen' \in [Runs -> [Orders -> Answers \cup {Absent}]]
    BY <1>0, <1>3, <2>2 DEF FinishRecording, RunTypeOK
  <2>4. RunTypeOK'
    BY <1>0, <1>3, <2>1, <2>3 DEF FinishRecording, RunTypeOK, planVars
  <2>5. Plans'
    BY <1>3, <2>1 DEF FinishRecording, Plans, planVars
  <2> QED
    BY <1>3, <2>4, <2>5, SameTypes DEF FinishRecording, TypeOK
<1> QED
  BY <1>1, <1>2, <1>3

\* The end of a cycle, wherever it comes.
LEMMA LeavingTyped ==
    ASSUME TypeOK, Plans, NEW r \in Runs,
           Block(r) \/ SettleOwn(r) \/ Release(r) \/ Crash(r)
    PROVE  TypeOK' /\ Plans'
<1>0. StoreTypeOK /\ BrokerTypeOK /\ RunTypeOK /\ LedgerTypeOK
  BY DEF TypeOK, StoreTypeOK
<1>1. Forget(r, "releasing") \/ Forget(r, "idle")
  BY DEF Block, SettleOwn, Release, Crash
<1>2. /\ RunTypeOK' /\ pc'[r] \in {"releasing", "idle"}
      /\ \A q \in Runs : q # r => /\ pc'[q] = pc[q] /\ plan'[q] = plan[q]
                                  /\ found'[q] = found[q]
  BY <1>0, <1>1, ForgetTypes DEF Phases
<1>3. Plans'
  BY <1>2 DEF Plans, Working
<1>4. UNCHANGED brokerVars /\ today' \in Nat /\ holder' \in Runs \cup {NoRun}
  BY DEF Block, SettleOwn, Release, Crash, TypeOK
<1>5. StoreTypeOK'
  <2>1. CASE SettleOwn(r)
    <3> DEFINE o == plan[r]
               a == seen[r][o]
    <3>1. /\ pc[r] = "closing" /\ a \in FinalAnswers
          /\ SettleAdmitted(o, a.status, a.quantity)
          /\ SettleIntent(o, a.status, a.quantity)
      BY <2>1 DEF SettleOwn
    <3>2. a.status \in FinalStatuses /\ a.quantity \in Nat
      BY <3>1, AnswerTypes
    <3> HIDE DEF o, a
    <3>3. LedgerTypeOK'
      BY <1>0, <3>1, <3>2, SettleTypes
    <3> QED
      BY <1>0, <2>1, <3>3 DEF SettleOwn, StoreTypeOK
  <2>2. CASE ~SettleOwn(r)
    BY <2>2, SameTypes DEF Block, Release, Crash
  <2> QED
    BY <2>1, <2>2
<1> QED
  BY <1>2, <1>3, <1>4, <1>5, SameTypes DEF TypeOK

LEMMA SubmittingTyped ==
    ASSUME TypeOK, Plans, NEW r \in Runs,
           \/ Prepare(r) \/ ReserveRow(r) \/ ReserveOwnership(r) \/ Claim(r)
           \/ CallBroker(r) \/ ListAgain(r)
    PROVE  TypeOK' /\ Plans'
<1>0. StoreTypeOK /\ BrokerTypeOK /\ RunTypeOK /\ LedgerTypeOK
  BY DEF TypeOK, StoreTypeOK
<1>1. CASE Prepare(r)
  <2>1. /\ pc' \in [Runs -> Phases] /\ pc'[r] = "reserving"
        /\ \A q \in Runs : q # r => pc'[q] = pc[q]
    BY <1>0, <1>1, GotoTypes DEF Prepare, Phases
  <2>2. RunTypeOK'
    BY <1>0, <1>1, <2>1 DEF Prepare, RunTypeOK, planVars, toldVars
  <2>3. Plans'
    BY <1>1, <2>1 DEF Prepare, Plans, Working, planVars
  <2> QED
    BY <1>1, <2>2, <2>3, SameTypes DEF Prepare, TypeOK
<1>2. CASE \/ ReserveRow(r) \/ ReserveOwnership(r) \/ Claim(r)
           \/ CallBroker(r) \/ ListAgain(r)
  <2> DEFINE o == plan[r]
  <2>1. pc[r] \in Working /\ o \in Orders
    BY <1>0, <1>2 DEF ReserveRow, ReserveOwnership, Claim, CallBroker, ListAgain,
                      Working, Plans, RunTypeOK
  <2>2. rows[o] \in RowOf /\ intents[o] \in IntentRow /\ calls[o] \in Nat
    BY <1>0, <2>1 DEF StoreTypeOK, LedgerTypeOK, BrokerTypeOK
  <2>3. /\ pc' \in [Runs -> Phases]
        /\ pc'[r] \in {"reserved", "owned", "claimed", "response", "called", "post"}
        /\ \A q \in Runs : q # r => pc'[q] = pc[q]
    BY <1>0, <1>2, GotoTypes DEF ReserveRow, ReserveOwnership, Claim, CallBroker,
                                 ListAgain, Phases
  <2>4. plan' = plan /\ found' = found
    BY <1>2 DEF ReserveRow, ReserveOwnership, Claim, CallBroker, ListAgain, planVars
  <2>5. Plans'
    BY <2>1, <2>3, <2>4 DEF Plans, Working
  <2>6. CASE ReserveRow(r) \/ Claim(r)
    <3>1. PICK state \in {"reserved", "submit_attempted"} :
             rows' = [rows EXCEPT ![o].state = state]
      BY <2>6 DEF ReserveRow, Claim
    <3> DEFINE row == [rows[o] EXCEPT !.state = state]
    <3>2. row \in RowOf
      BY <2>2 DEF RowOf
    <3>3. rows' = [rows EXCEPT ![o] = row]
      BY <3>1, Zenon
    <3> HIDE DEF row
    <3>4. StoreTypeOK'
      BY <1>0, <2>1, <2>6, <3>2, <3>3
      DEF ReserveRow, Claim, StoreTypeOK, LedgerTypeOK, ledgerVars
    <3>5. RunTypeOK'
      BY <1>0, <2>3, <2>6 DEF ReserveRow, Claim, RunTypeOK, planVars, toldVars
    <3> QED
      BY <2>5, <2>6, <3>4, <3>5, SameTypes DEF ReserveRow, Claim, TypeOK
  <2>7. CASE ReserveOwnership(r)
    <3>1. quantity[r] \in Nat /\ day[r] \in Nat /\ Requested(r) \in Nat
      BY <1>0 DEF RunTypeOK, Requested
    <3> DEFINE row == [state |-> "reserved", requested |-> Requested(r),
                       before |-> quantity[r], filled |-> 0, status |-> NoStatus,
                       session |-> day[r]]
    <3>2. row \in IntentRow
      BY <3>1 DEF IntentRow
    <3>3. intents' = intents \/ intents' = [intents EXCEPT ![o] = row]
      BY <2>7 DEF ReserveOwnership, ReserveIntent
    <3> HIDE DEF row
    <3>4. StoreTypeOK'
      BY <1>0, <2>1, <2>7, <3>2, <3>3
      DEF ReserveOwnership, StoreTypeOK, LedgerTypeOK
    <3>5. quantity' \in [Runs -> Nat]
      BY <1>0, <2>7 DEF ReserveOwnership, RunTypeOK
    <3>6. RunTypeOK'
      BY <1>0, <2>3, <2>7, <3>5 DEF ReserveOwnership, RunTypeOK, planVars, toldVars
    <3> QED
      BY <2>5, <2>7, <3>4, <3>6, SameTypes DEF ReserveOwnership, TypeOK
  <2>8. CASE CallBroker(r)
    <3> DEFINE n == calls[o] + 1
    <3>0. calls' = [calls EXCEPT ![o] = n] /\ n \in Nat
      BY <2>2, <2>8 DEF CallBroker
    <3> HIDE DEF n
    <3>1. calls' \in [Orders -> Nat]
      BY <1>0, <3>0 DEF BrokerTypeOK
    <3>2. /\ broker' \in [Orders -> Answers \cup {Absent}]
          /\ net' \in [Strategies -> Int]
      BY <1>0, <2>1, <2>8, AnsweredTypes DEF CallBroker, BrokerTypeOK
    <3>3. seen' = seen \/ \E a \in Answers : seen' = [seen EXCEPT ![r][o] = a]
      BY <2>8 DEF CallBroker
    <3>4. seen' \in [Runs -> [Orders -> Answers \cup {Absent}]]
      <4>1. CASE seen' = seen
        BY <1>0, <4>1 DEF RunTypeOK
      <4>2. ASSUME NEW a \in Answers, seen' = [seen EXCEPT ![r][o] = a]
            PROVE  seen' \in [Runs -> [Orders -> Answers \cup {Absent}]]
        BY <1>0, <2>1, <4>2 DEF RunTypeOK
      <4> QED
        BY <3>3, <4>1, <4>2
    <3>5. todo' \in [Runs -> SUBSET Orders]
      <4>1. todo' = todo \/ todo' = [todo EXCEPT ![r] = {o}]
        BY <2>8 DEF CallBroker
      <4> HIDE DEF o
      <4> QED
        BY <1>0, <2>1, <4>1 DEF RunTypeOK
    <3>6. RunTypeOK'
      BY <1>0, <2>3, <2>8, <3>4, <3>5 DEF CallBroker, RunTypeOK, planVars
    <3> QED
      BY <2>5, <2>8, <3>1, <3>2, <3>6, SameTypes
      DEF CallBroker, TypeOK, BrokerTypeOK
  <2>9. CASE ListAgain(r)
    <3>1. broker[o] \in Answers \cup {Absent}
      BY <1>0, <2>1 DEF BrokerTypeOK
    <3>2. seen' \in [Runs -> [Orders -> Answers \cup {Absent}]]
      BY <1>0, <2>1, <2>9, <3>1 DEF ListAgain, RunTypeOK
    <3>3. todo' \in [Runs -> SUBSET Orders]
      BY <1>0, <2>1, <2>9 DEF ListAgain, RunTypeOK
    <3>4. RunTypeOK'
      BY <1>0, <2>3, <2>9, <3>2, <3>3 DEF ListAgain, RunTypeOK, planVars
    <3> QED
      BY <2>5, <2>9, <3>4, SameTypes DEF ListAgain, TypeOK
  <2> QED
    BY <1>2, <2>6, <2>7, <2>8, <2>9
<1> QED
  BY <1>1, <1>2

LEMMA BrokerTyped ==
    ASSUME TypeOK, Plans, NEW o \in Orders, BrokerMoves(o)
    PROVE  TypeOK' /\ Plans'
<1>1. BrokerTypeOK'
  BY AnsweredTypes DEF BrokerMoves, TypeOK, BrokerTypeOK
<1>2. Plans'
  BY DEF BrokerMoves, Plans, runVars, planVars
<1> QED
  BY <1>1, <1>2, SameTypes DEF BrokerMoves, TypeOK

LEMMA StepTyped == TypeOK /\ Plans /\ [Next]_vars => TypeOK' /\ Plans'
<1> SUFFICES ASSUME TypeOK, Plans, [Next]_vars PROVE TypeOK' /\ Plans'
  OBVIOUS
<1>1. ASSUME NEW r \in Runs, CycleStep(r) PROVE TypeOK' /\ Plans'
  BY <1>1, CountingTyped, PlanningTyped, RecordingTyped, LeavingTyped, SubmittingTyped
  DEF CycleStep
<1>2. CASE NextDay
  <2>1. today' \in Nat
    BY <1>2 DEF NextDay, TypeOK
  <2>2. Plans'
    BY <1>2 DEF NextDay, Plans, runVars, planVars
  <2> QED
    BY <1>2, <2>1, <2>2, SameTypes DEF NextDay, TypeOK
<1>3. CASE UNCHANGED vars
  <2>1. Plans'
    BY <1>3 DEF vars, Plans, runVars, planVars
  <2> QED
    BY <1>3, <2>1, SameTypes DEF vars, TypeOK
<1> QED
  BY <1>1, <1>2, <1>3, BrokerTyped DEF Next

\* Whatever overlaps, crashes or is lost: no table ever holds what it should
\* not, and in particular no sleeve goes below zero.
THEOREM SleevesTyped == Spec => [](TypeOK /\ Plans)
  BY InitTyped, StepTyped, PTL DEF Spec

-----------------------------------------------------------------------------
(* The invariant.                                                          *)

\* The row comes before the intent, and the claim before the call.
RowsInOrder ==
    \A o \in Orders :
        /\ rows[o].state = "none" => intents[o].state = "none"
        /\ rows[o].state \in {"none", "reserved"} => broker[o] = Absent
        /\ rows[o].answer \in FinalAnswers => broker[o] = rows[o].answer

\* No order is at the broker without an intent; a settled one is over there.
IntentsFirst ==
    \A o \in Orders :
        /\ broker[o] # Absent \/ calls[o] > 0 => intents[o].state # "none"
        /\ Settled(o) => /\ broker[o] \in FinalAnswers
                         /\ intents[o].status = broker[o].status
                         /\ intents[o].filled = broker[o].quantity
        /\ SideOf[o] = "sell" => FilledAt(o) <= intents[o].requested

\* What a run was told of an order that is over is still so.
ToldTrue ==
    \A r \in Runs :
        /\ \A o \in Orders :
              /\ seen[r][o] # Absent => broker[o] # Absent
              /\ seen[r][o] \in FinalAnswers => broker[o] = seen[r][o]
              /\ o \in todo[r] => seen[r][o] # Absent
        /\ pc[r] \in {"idle", "leased", "counted"} => todo[r] = {}
        /\ pc[r] = "settling" => broker[found[r].order] = found[r].answer

\* What a run has made of its order.
Progress ==
    \A r \in Runs :
        /\ pc[r] = "reserved" => /\ rows[plan[r]].state = "reserved"
                                 /\ intents[plan[r]].state = "none"
        /\ pc[r] = "owned" => /\ rows[plan[r]].state = "reserved"
                              /\ plan[r] \in Pending
        /\ pc[r] = "claimed" => /\ rows[plan[r]].state = "submit_attempted"
                                /\ plan[r] \in Pending
                                /\ broker[plan[r]] = Absent

\* No two runs are at work on one order before it is at the broker.
Alone ==
    \A r, q \in Runs :
        /\ r # q
        /\ pc[r] \in {"reserved", "owned", "claimed"}
        /\ pc[q] \in {"reserved", "owned", "claimed"}
        => plan[r] # plan[q]

OnePending == \A o, p \in Pending : o = p

Moved(o) == IF SideOf[o] = "buy" THEN FilledAt(o) ELSE 0 - FilledAt(o)

\* A sleeve shows all fills but those of the pending intent's order.
Books ==
    /\ SleevesAreTrue
    /\ \A o \in Pending :
          /\ Sleeve(o) = intents[o].before
          /\ adopted[StrategyOf[o]] + net[StrategyOf[o]]
                = intents[o].before + Moved(o)
          /\ SideOf[o] = "sell" => intents[o].requested \in 1 .. intents[o].before

\* A position that nobody owns is adopted once, whole, and before any order.
Adoption ==
    /\ generation = 0 => \A s \in Strategies : adopted[s] = 0 /\ sleeves[s] = 0
    /\ generation > 0 => adopted["sma"] + adopted["rsi"] = Held
    /\ generation = 0 /\ Held > 0 =>
          /\ \A o \in Orders : intents[o].state = "none"
          /\ \A r \in Runs : /\ plan[r] = NoOrder
                             /\ pc[r] \in Told => position[r] = Held
    /\ generation = 0 /\ Held = 0 =>
          \A r \in Runs : pc[r] \in Told /\ position[r] > 0 =>
              \E o \in Pending : FilledAt(o) > 0

WithinCap == \A d \in Nat : Cardinality(Reserved(d)) <= SessionCap

-----------------------------------------------------------------------------
(* What a step can do, to the stores and to the runs.                      *)

\* A settlement by what the broker says of an order that is over.
Settles(o) ==
    /\ broker[o] \in FinalAnswers
    /\ SettleAdmitted(o, broker[o].status, broker[o].quantity)
    /\ SettleIntent(o, broker[o].status, broker[o].quantity)
    /\ UNCHANGED <<rows, adopted, brokerVars>>

LEMMA StoreSteps ==
    ASSUME TypeOK, Plans, ToldTrue, [Next]_vars
    PROVE  \/ UNCHANGED <<storeVars, brokerVars>>
           \/ \E o \in Orders : Settles(o) \/ BrokerMoves(o)
           \/ \E r \in Runs :
                 \/ Record(r) \/ ReserveRow(r) \/ ReserveOwnership(r) \/ Claim(r)
                 \/ CallBroker(r) \/ AdoptPosition(r)
<1>1. ASSUME NEW r \in Runs, SettleFound(r)
      PROVE  \E o \in Orders : Settles(o)
  <2>1. /\ found[r].order \in Orders
        /\ found[r].answer \in FinalAnswers
        /\ broker[found[r].order] = found[r].answer
    BY <1>1 DEF SettleFound, Plans, ToldTrue
  <2> QED
    BY <1>1, <2>1 DEF SettleFound, Settles
<1>2. ASSUME NEW r \in Runs, SettleOwn(r)
      PROVE  \E o \in Orders : Settles(o)
  <2>1. plan[r] \in Orders
    BY <1>2 DEF SettleOwn, Plans, Working, TypeOK, RunTypeOK
  <2>2. broker[plan[r]] = seen[r][plan[r]]
    BY <1>2, <2>1 DEF SettleOwn, ToldTrue
  <2> QED
    BY <1>2, <2>1, <2>2 DEF SettleOwn, Settles
<1>3. ASSUME NEW r \in Runs, CycleStep(r)
      PROVE  \/ UNCHANGED <<storeVars, brokerVars>>
             \/ Record(r) \/ ReserveRow(r) \/ ReserveOwnership(r) \/ Claim(r)
             \/ CallBroker(r) \/ AdoptPosition(r)
             \/ \E o \in Orders : Settles(o)
  BY <1>1, <1>2, <1>3
  DEF CycleStep, Start, CountPosition, ListOrders, FindPending, CompareSleeves,
      LedgerFails, ListUnresolved, RecordFails, FinishRecording, Block, Prepare,
      ListAgain, Release, Crash
<1>4. NextDay \/ UNCHANGED vars => UNCHANGED <<storeVars, brokerVars>>
  BY DEF NextDay, vars
<1> QED
  BY <1>3, <1>4 DEF Next

\* The broker forgets no order, and what is over there stays as it is.
LEMMA BrokerGrows ==
    ASSUME TypeOK, Plans, ToldTrue, [Next]_vars, NEW o \in Orders
    PROVE  /\ broker[o] # Absent => broker'[o] # Absent
           /\ broker[o] \in FinalAnswers => broker'[o] = broker[o]
<1>0. broker \in [Orders -> Answers \cup {Absent}] /\ Absent \notin Answers
  BY CycleAssumption DEF TypeOK, BrokerTypeOK
<1>1. CASE broker' = broker
  BY <1>1
<1>2. ASSUME NEW p \in Orders, BrokerMoves(p)
      PROVE  /\ broker[p] \notin FinalAnswers
             /\ \E a \in Answers : broker' = [broker EXCEPT ![p] = a]
  BY <1>2 DEF BrokerMoves, Answered
<1>3. ASSUME NEW r \in Runs, CallBroker(r), broker' # broker
      PROVE  \E p \in Orders : /\ broker[p] = Absent
                               /\ \E a \in Answers : broker' = [broker EXCEPT ![p] = a]
  <2>1. plan[r] \in Orders
    BY <1>3 DEF CallBroker, Plans, Working, TypeOK, RunTypeOK
  <2> QED
    BY <1>3, <2>1 DEF CallBroker, Answered
<1>4. \/ broker' = broker
      \/ \E p \in Orders : /\ broker[p] \notin FinalAnswers
                           /\ \E a \in Answers : broker' = [broker EXCEPT ![p] = a]
  <2>1. CASE \E p \in Orders : BrokerMoves(p)
    BY <1>2, <2>1
  <2>2. CASE \E r \in Runs : CallBroker(r)
    BY <1>3, <2>2, AnswerTypes
  <2>3. CASE \/ UNCHANGED <<storeVars, brokerVars>>
             \/ \E p \in Orders : Settles(p)
             \/ \E r \in Runs : \/ Record(r) \/ ReserveRow(r) \/ ReserveOwnership(r)
                                \/ Claim(r) \/ AdoptPosition(r)
    BY <2>3 DEF brokerVars, Settles, Record, ReserveRow, ReserveOwnership, Claim,
                AdoptPosition
  <2> QED
    BY <2>1, <2>2, <2>3, StoreSteps
<1> QED
  BY <1>0, <1>1, <1>4

Early == {"reserved", "owned", "claimed"}

\* What a run is and was told.
Same(q) == /\ pc'[q] = pc[q] /\ plan'[q] = plan[q] /\ seen'[q] = seen[q]
           /\ todo'[q] = todo[q] /\ found'[q] = found[q]
           /\ position'[q] = position[q]

LEMMA OthersSame ==
    ASSUME TypeOK, NEW r \in Runs, CycleStep(r), NEW q \in Runs, q # r
    PROVE  Same(q)
<1>0. RunTypeOK
  BY DEF TypeOK
<1>1. CASE \E phase \in Phases : Forget(r, phase)
  BY <1>0, <1>1, ForgetTypes DEF Same
<1>2. CASE \/ Start(r) \/ CountPosition(r) \/ ListOrders(r) \/ FindPending(r)
           \/ SettleFound(r)
  BY <1>0, <1>2 DEF Start, CountPosition, ListOrders, FindPending, SettleFound, Goto,
                    Same, RunTypeOK, planVars, toldVars
<1>3. CASE \/ CompareSleeves(r) \/ AdoptPosition(r) \/ LedgerFails(r)
  BY <1>0, <1>3 DEF CompareSleeves, AdoptPosition, LedgerFails, Compared, Goto, Same,
                    RunTypeOK
<1>4. CASE \/ ListUnresolved(r) \/ Record(r) \/ FinishRecording(r)
           \/ RecordFails(r) /\ pc[r] # "post"
  BY <1>0, <1>4 DEF ListUnresolved, Record, RecordFails, FinishRecording, Goto, Same,
                    RunTypeOK, planVars, toldVars
<1>5. CASE \/ Prepare(r) \/ ReserveRow(r) \/ ReserveOwnership(r) \/ Claim(r)
           \/ ListAgain(r)
  BY <1>0, <1>5 DEF Prepare, ReserveRow, ReserveOwnership, Claim, ListAgain, Goto,
                    Same, RunTypeOK, planVars, toldVars
<1>6. CASE CallBroker(r)
  <2>1. \/ seen' = seen
        \/ \E a \in Answers : seen' = [seen EXCEPT ![r][plan[r]] = a]
    BY <1>6 DEF CallBroker
  <2>2. seen'[q] = seen[q]
    BY <1>0, <2>1 DEF RunTypeOK
  <2> QED
    BY <1>0, <1>6, <2>2 DEF CallBroker, Goto, Same, RunTypeOK, planVars
<1>7. CASE \/ Block(r) \/ SettleOwn(r) \/ Release(r) \/ Crash(r)
           \/ RecordFails(r) /\ pc[r] = "post"
  <2>1. Forget(r, "releasing") \/ Forget(r, "idle")
    BY <1>7 DEF Block, SettleOwn, Release, Crash, RecordFails
  <2> QED
    BY <1>1, <2>1 DEF Phases
<1> QED
  BY <1>2, <1>3, <1>4, <1>5, <1>6, <1>7 DEF CycleStep

LEMMA RunSteps ==
    ASSUME TypeOK, [Next]_vars, NEW q \in Runs
    PROVE  Same(q) \/ CycleStep(q)
<1>1. CASE \E r \in Runs : CycleStep(r)
  BY <1>1, OthersSame
<1>2. CASE \/ \E o \in Orders : BrokerMoves(o)
           \/ NextDay \/ UNCHANGED vars
  BY <1>2 DEF BrokerMoves, NextDay, vars, runVars, planVars, toldVars, Same
<1> QED
  BY <1>1, <1>2 DEF Next

\* How a run comes to be at work on an order.
LEMMA EarlySteps ==
    ASSUME TypeOK, NEW r \in Runs, CycleStep(r), pc'[r] \in Early
    PROVE  /\ plan'[r] = plan[r]
           /\ \/ ReserveRow(r) /\ pc'[r] = "reserved"
              \/ ReserveOwnership(r) /\ pc'[r] = "owned"
              \/ Claim(r) /\ pc'[r] = "claimed"
<1>0. RunTypeOK
  BY DEF TypeOK
<1>1. CASE ReserveRow(r) \/ ReserveOwnership(r) \/ Claim(r)
  BY <1>0, <1>1 DEF ReserveRow, ReserveOwnership, Claim, Goto, RunTypeOK, planVars
<1>2. CASE \/ Block(r) \/ SettleOwn(r) \/ Release(r) \/ Crash(r)
           \/ RecordFails(r) /\ pc[r] = "post"
  <2>1. Forget(r, "releasing") \/ Forget(r, "idle")
    BY <1>2 DEF Block, SettleOwn, Release, Crash, RecordFails
  <2>2. pc'[r] \in {"releasing", "idle"}
    BY <1>0, <2>1 DEF Forget, Goto, RunTypeOK
  <2> QED
    BY <2>2 DEF Early
<1>3. CASE \/ Start(r) \/ CountPosition(r) \/ ListOrders(r) \/ FindPending(r)
           \/ SettleFound(r) \/ CompareSleeves(r) \/ AdoptPosition(r)
           \/ LedgerFails(r) \/ ListUnresolved(r)
  BY <1>0, <1>3 DEF Start, CountPosition, ListOrders, FindPending, SettleFound,
     CompareSleeves, AdoptPosition, LedgerFails, ListUnresolved, Compared, Goto,
     RunTypeOK, Early
<1>4. CASE Record(r) \/ (RecordFails(r) /\ pc[r] # "post")
  BY <1>4 DEF Record, RecordFails, Early
<1>5. CASE FinishRecording(r)
  <2>1. pc'[r] \in {"preparing", "called", "closing"}
    BY <1>0, <1>5 DEF FinishRecording, Goto, RunTypeOK
  <2> QED
    BY <2>1 DEF Early
<1>6. CASE Prepare(r) \/ CallBroker(r) \/ ListAgain(r)
  BY <1>0, <1>6 DEF Prepare, CallBroker, ListAgain, Goto, RunTypeOK, Early
<1>7. CASE RecordFails(r)
  BY <1>2, <1>4, <1>7
<1>8. CASE Block(r) \/ SettleOwn(r) \/ Release(r) \/ Crash(r)
  BY <1>2, <1>8
<1> QED
  BY <1>1, <1>3, <1>4, <1>5, <1>6, <1>7, <1>8 DEF CycleStep

\* What a settlement changes: a pending intent, or nothing.
LEMMA SettleEffect ==
    ASSUME TypeOK, NEW o \in Orders, Settles(o)
    PROVE  /\ o \in Pending =>
                 /\ intents'[o].state \in {"applied", "terminal_no_fill"}
                 /\ intents'[o].status = broker[o].status
                 /\ intents'[o].filled = broker[o].quantity
           /\ o \notin Pending => UNCHANGED ledgerVars
           /\ intents'[o].requested = intents[o].requested
           /\ intents'[o].session = intents[o].session
           /\ intents[o].state = "none" => intents'[o].state = "none"
           /\ intents[o].state # "none" => intents'[o].state # "none"
           /\ \A p \in Orders : p # o => intents'[p] = intents[p]
           /\ Pending' = Pending \ {o}
<1>0. intents \in [Orders -> IntentRow] /\ intents[o] \in IntentRow
  BY DEF TypeOK, StoreTypeOK, LedgerTypeOK
<1>1. CASE o \notin Pending
  <2>1. UNCHANGED ledgerVars
    BY <1>1 DEF Settles, SettleIntent, ledgerVars
  <2> QED
    BY <1>1, <2>1 DEF Pending, ledgerVars
<1>2. CASE o \in Pending
  <2> DEFINE row == [intents[o] EXCEPT !.filled = broker[o].quantity,
                       !.status = broker[o].status,
                       !.state = IF broker[o].quantity > 0 THEN "applied"
                                                           ELSE "terminal_no_fill"]
  <2>1. intents' = [intents EXCEPT ![o] = row]
    BY <1>0, <1>2, Zenon DEF Settles, SettleIntent
  <2>2. /\ row.state \in {"applied", "terminal_no_fill"}
        /\ row.status = broker[o].status /\ row.filled = broker[o].quantity
        /\ row.requested = intents[o].requested /\ row.session = intents[o].session
    BY <1>0 DEF IntentRow
  <2>3. intents[o].state = "reserved"
    BY <1>2 DEF Pending
  <2> HIDE DEF row
  <2>4. intents'[o] = row /\ \A p \in Orders : p # o => intents'[p] = intents[p]
    BY <1>0, <2>1
  <2>5. Pending' = Pending \ {o}
    BY <2>2, <2>4 DEF Pending
  <2> QED
    BY <1>2, <2>2, <2>3, <2>4, <2>5
<1> QED
  BY <1>1, <1>2

LEMMA OwnershipEffect ==
    ASSUME TypeOK, Plans, Progress, NEW r \in Runs, ReserveOwnership(r)
    PROVE  /\ plan[r] \in Orders /\ intents[plan[r]].state = "none"
           /\ intents' = [intents EXCEPT ![plan[r]] =
                 [state |-> "reserved", requested |-> Requested(r),
                  before |-> quantity[r], filled |-> 0, status |-> NoStatus,
                  session |-> day[r]]]
           /\ Pending = {} /\ Pending' = {plan[r]}
           /\ Requested(r) \in Nat /\ quantity[r] \in Nat /\ day[r] \in Nat
           /\ UNCHANGED <<sleeves, generation, rows, adopted, brokerVars>>
<1>1. plan[r] \in Orders
  BY DEF ReserveOwnership, Plans, Working, TypeOK, RunTypeOK
<1>2. intents[plan[r]].state = "none"
  BY DEF ReserveOwnership, Progress
<1>3. Requested(r) \in Nat /\ quantity[r] \in Nat /\ day[r] \in Nat
  BY DEF TypeOK, RunTypeOK, Requested
<1> DEFINE row == [state |-> "reserved", requested |-> Requested(r),
                   before |-> quantity[r], filled |-> 0, status |-> NoStatus,
                   session |-> day[r]]
<1>4. intents' = [intents EXCEPT ![plan[r]] = row] /\ row.state = "reserved"
  BY <1>2 DEF ReserveOwnership, ReserveIntent
<1>5. Pending = {}
  BY DEF ReserveOwnership, IntentAdmitted
<1> HIDE DEF row
<1>6. Pending' = {plan[r]}
  BY <1>1, <1>4, <1>5 DEF Pending, TypeOK, StoreTypeOK, LedgerTypeOK
<1> QED
  BY <1>1, <1>2, <1>3, <1>4, <1>5, <1>6 DEF ReserveOwnership, row

\* The call, and what the broker may do of it.
LEMMA CallEffect ==
    ASSUME TypeOK, Plans, Progress, NEW r \in Runs, CallBroker(r)
    PROVE  /\ plan[r] \in Pending
           /\ rows[plan[r]].state = "submit_attempted"
           /\ broker[plan[r]] = Absent
           /\ \A p \in Orders : p # plan[r] => calls'[p] = calls[p]
           /\ UNCHANGED storeVars
           /\ \/ UNCHANGED <<broker, net>>
              \/ \E a \in Answers : Answered(plan[r], a)
<1>1. /\ plan[r] \in Pending
      /\ rows[plan[r]].state = "submit_attempted"
      /\ broker[plan[r]] = Absent
  BY DEF CallBroker, Progress
<1>2. \A p \in Orders : p # plan[r] => calls'[p] = calls[p]
  BY DEF CallBroker, TypeOK, BrokerTypeOK
<1> QED
  BY <1>1, <1>2 DEF CallBroker

LEMMA AnsweredEffect ==
    ASSUME TypeOK, NEW o \in Orders, NEW a \in Answers, Answered(o, a)
    PROVE  /\ broker'[o] = a
           /\ \A p \in Orders : p # o => broker'[p] = broker[p]
           /\ FilledAt(o)' = a.quantity
           /\ \A p \in Orders : p # o => FilledAt(p)' = FilledAt(p)
           /\ a.quantity \in Nat /\ FilledAt(o) \in Nat
           /\ a # Absent
           /\ SideOf[o] = "sell" => a.quantity <= intents[o].requested
<1>1. a.quantity \in Nat /\ a # Absent
  BY AnswerTypes, CycleAssumption
<1>2. FilledAt(o) \in Nat
  BY AnswerTypes DEF FilledAt, TypeOK, BrokerTypeOK
<1>3. broker'[o] = a /\ \A p \in Orders : p # o => broker'[p] = broker[p]
  BY DEF Answered, TypeOK, BrokerTypeOK
<1>4. SideOf[o] = "sell" => a.quantity <= intents[o].requested
  BY DEF Answered, MayAnswer
<1> QED
  BY <1>1, <1>2, <1>3, <1>4 DEF FilledAt

-----------------------------------------------------------------------------
(* Each part of the invariant.                                             *)

LEMMA RowsStep ==
    ASSUME TypeOK, Plans, RowsInOrder, ToldTrue, Progress, [Next]_vars
    PROVE  RowsInOrder'
<1>0. /\ rows \in [Orders -> RowOf] /\ intents \in [Orders -> IntentRow]
      /\ broker \in [Orders -> Answers \cup {Absent}]
  BY DEF TypeOK, StoreTypeOK, LedgerTypeOK, BrokerTypeOK
<1>1. CASE UNCHANGED <<storeVars, brokerVars>>
  BY <1>1 DEF RowsInOrder, storeVars, brokerVars, ledgerVars
<1>2. ASSUME NEW o \in Orders, Settles(o)
      PROVE  RowsInOrder'
  <2>1. rows' = rows /\ broker' = broker
    BY <1>2 DEF Settles, brokerVars
  <2>2. \A p \in Orders : intents[p].state = "none" => intents'[p].state = "none"
    BY <1>2, SettleEffect
  <2> QED
    BY <2>1, <2>2 DEF RowsInOrder
<1>3. ASSUME NEW o \in Orders, BrokerMoves(o)
      PROVE  RowsInOrder'
  <2>1. rows' = rows /\ intents' = intents
    BY <1>3 DEF BrokerMoves, storeVars, ledgerVars
  <2>2. PICK a \in Answers : Answered(o, a)
    BY <1>3 DEF BrokerMoves
  <2>3. broker[o] # Absent /\ broker[o] \notin FinalAnswers
    BY <1>3, CycleAssumption DEF BrokerMoves
  <2>4. \A p \in Orders : p # o => broker'[p] = broker[p]
    BY <2>2, AnsweredEffect
  <2> QED
    BY <2>1, <2>3, <2>4 DEF RowsInOrder
<1>4. ASSUME NEW r \in Runs, Record(r)
      PROVE  RowsInOrder'
  <2>1. PICK o \in todo[r] :
           rows' = [rows EXCEPT ![o] = [state |-> "observed", answer |-> seen[r][o]]]
    BY <1>4 DEF Record
  <2>2. o \in Orders /\ (seen[r][o] \in FinalAnswers => broker[o] = seen[r][o])
    BY DEF ToldTrue, TypeOK, RunTypeOK
  <2>3. broker' = broker /\ intents' = intents
    BY <1>4 DEF Record, brokerVars, ledgerVars
  <2> QED
    BY <1>0, <2>1, <2>2, <2>3 DEF RowsInOrder
<1>5. ASSUME NEW r \in Runs, ReserveRow(r) \/ Claim(r)
      PROVE  RowsInOrder'
  <2>1. plan[r] \in Orders
    BY <1>5 DEF ReserveRow, Claim, Plans, Working, TypeOK, RunTypeOK
  <2>2. broker' = broker /\ intents' = intents
    BY <1>5 DEF ReserveRow, Claim, brokerVars, ledgerVars
  <2>3. PICK state \in {"reserved", "submit_attempted"} :
           /\ rows' = [rows EXCEPT ![plan[r]].state = state]
           /\ state = "reserved" => rows[plan[r]].state = "none"
    BY <1>5 DEF ReserveRow, Claim
  <2>4. /\ rows'[plan[r]].state = state
        /\ rows'[plan[r]].answer = rows[plan[r]].answer
        /\ \A p \in Orders : p # plan[r] => rows'[p] = rows[p]
    BY <1>0, <2>1, <2>3 DEF RowOf
  <2> QED
    BY <2>2, <2>3, <2>4 DEF RowsInOrder
<1>6. ASSUME NEW r \in Runs, ReserveOwnership(r)
      PROVE  RowsInOrder'
  <2>1. rows[plan[r]].state = "reserved"
    BY <1>6 DEF ReserveOwnership, Progress
  <2>2. \A p \in Orders : p # plan[r] => intents'[p] = intents[p]
    BY <1>0, <1>6, OwnershipEffect
  <2>3. rows' = rows /\ broker' = broker
    BY <1>6 DEF ReserveOwnership, brokerVars
  <2> QED
    BY <2>1, <2>2, <2>3 DEF RowsInOrder
<1>7. ASSUME NEW r \in Runs, CallBroker(r)
      PROVE  RowsInOrder'
  <2>1. /\ plan[r] \in Orders /\ broker[plan[r]] = Absent
        /\ rows[plan[r]].state = "submit_attempted"
        /\ rows' = rows /\ intents' = intents
    BY <1>7, CallEffect DEF Pending, storeVars, ledgerVars
  <2>2. \A p \in Orders : p # plan[r] => broker'[p] = broker[p]
    BY <1>7, <2>1, CallEffect, AnsweredEffect
  <2>3. Absent \notin FinalAnswers
    BY AnswerTypes
  <2> QED
    BY <2>1, <2>2, <2>3 DEF RowsInOrder
<1>8. ASSUME NEW r \in Runs, AdoptPosition(r)
      PROVE  RowsInOrder'
  BY <1>8 DEF AdoptPosition, Adopt, RowsInOrder, brokerVars
<1> QED
  BY <1>1, <1>2, <1>3, <1>4, <1>5, <1>6, <1>7, <1>8, StoreSteps

LEMMA IntentsStep ==
    ASSUME TypeOK, Plans, IntentsFirst, RowsInOrder, ToldTrue, Progress, [Next]_vars
    PROVE  IntentsFirst'
<1>0. /\ intents \in [Orders -> IntentRow] /\ Absent \notin FinalAnswers
      /\ \A o \in Orders : FilledAt(o) \in Nat /\ intents[o].requested \in Nat
  <2>1. intents \in [Orders -> IntentRow] /\ Absent \notin FinalAnswers
    BY AnswerTypes DEF TypeOK, StoreTypeOK, LedgerTypeOK
  <2>2. \A o \in Orders : FilledAt(o) \in Nat
    BY AnswerTypes DEF FilledAt, TypeOK, BrokerTypeOK
  <2> QED
    BY <2>1, <2>2 DEF IntentRow
<1>1. CASE broker' = broker /\ calls' = calls /\ intents' = intents
  BY <1>1 DEF IntentsFirst, Settled, FilledAt
<1>2. ASSUME NEW o \in Orders, Settles(o)
      PROVE  IntentsFirst'
  <2>1. broker' = broker /\ calls' = calls
    BY <1>2 DEF Settles, brokerVars
  <2>2. CASE o \notin Pending
    BY <1>1, <1>2, <2>1, <2>2, SettleEffect DEF ledgerVars
  <2>3. CASE o \in Pending
    <3>1. /\ intents'[o].state \in {"applied", "terminal_no_fill"}
          /\ intents'[o].status = broker[o].status
          /\ intents'[o].filled = broker[o].quantity
          /\ intents'[o].requested = intents[o].requested
          /\ \A p \in Orders : p # o => intents'[p] = intents[p]
      BY <1>2, <2>3, SettleEffect
    <3>2. broker[o] \in FinalAnswers
      BY <1>2 DEF Settles
    <3> QED
      BY <2>1, <3>1, <3>2 DEF IntentsFirst, Settled, FilledAt
  <2> QED
    BY <2>2, <2>3
<1>3. ASSUME NEW o \in Orders, NEW a \in Answers, Answered(o, a),
             intents[o].state # "none", ~Settled(o), intents' = intents,
             \A p \in Orders : p # o => calls'[p] = calls[p]
      PROVE  IntentsFirst'
  <2>1. /\ \A p \in Orders : p # o => /\ broker'[p] = broker[p]
                                      /\ FilledAt(p)' = FilledAt(p)
        /\ FilledAt(o)' = a.quantity
        /\ SideOf[o] = "sell" => a.quantity <= intents[o].requested
    BY <1>3, AnsweredEffect
  <2>2. \A p \in Orders :
           broker'[p] # Absent \/ calls'[p] > 0 => intents'[p].state # "none"
    BY <1>3, <2>1 DEF IntentsFirst
  <2>3. \A p \in Orders : Settled(p)' =>
           /\ broker'[p] \in FinalAnswers
           /\ intents'[p].status = broker'[p].status
           /\ intents'[p].filled = broker'[p].quantity
    BY <1>3, <2>1 DEF IntentsFirst, Settled
  <2>4. \A p \in Orders : SideOf[p] = "sell" => FilledAt(p)' <= intents'[p].requested
    BY <1>3, <2>1 DEF IntentsFirst
  <2> QED
    BY <2>2, <2>3, <2>4 DEF IntentsFirst
<1>4. ASSUME NEW o \in Orders, BrokerMoves(o)
      PROVE  IntentsFirst'
  <2>1. broker[o] # Absent /\ broker[o] \notin FinalAnswers
    BY <1>4, CycleAssumption DEF BrokerMoves
  <2>2. intents[o].state # "none" /\ ~Settled(o)
    BY <2>1 DEF IntentsFirst
  <2> QED
    BY <1>3, <1>4, <2>2 DEF BrokerMoves, storeVars, ledgerVars
<1>5. ASSUME NEW r \in Runs, ReserveOwnership(r)
      PROVE  IntentsFirst'
  <2>1. PICK o \in Orders : o = plan[r]
    BY <1>5, OwnershipEffect
  <2> DEFINE row == [state |-> "reserved", requested |-> Requested(r),
                     before |-> quantity[r], filled |-> 0, status |-> NoStatus,
                     session |-> day[r]]
  <2>2. /\ intents[o].state = "none" /\ Requested(r) \in Nat
        /\ intents' = [intents EXCEPT ![o] = row]
        /\ row.state = "reserved" /\ row.requested = Requested(r)
        /\ broker' = broker /\ calls' = calls
    BY <1>5, <2>1, OwnershipEffect DEF brokerVars
  <2> HIDE DEF row
  <2>3. /\ intents'[o].state = "reserved" /\ intents'[o].requested \in Nat
        /\ \A p \in Orders : p # o => intents'[p] = intents[p]
    BY <1>0, <2>2
  <2>4. broker[o] = Absent
    BY <2>2 DEF IntentsFirst
  <2>5. FilledAt(o)' = 0
    BY <2>2, <2>4 DEF FilledAt
  <2> QED
    BY <2>2, <2>3, <2>4, <2>5 DEF IntentsFirst, Settled, FilledAt
<1>6. ASSUME NEW r \in Runs, CallBroker(r)
      PROVE  IntentsFirst'
  <2> DEFINE o == plan[r]
  <2>1. /\ o \in Pending /\ intents' = intents
        /\ \A p \in Orders : p # o => calls'[p] = calls[p]
        /\ UNCHANGED <<broker, net>> \/ \E a \in Answers : Answered(o, a)
    BY <1>6, CallEffect DEF storeVars, ledgerVars
  <2>2. o \in Orders /\ intents[o].state # "none" /\ ~Settled(o)
    BY <2>1 DEF Pending, Settled
  <2> HIDE DEF o
  <2>3. CASE broker' = broker
    BY <2>1, <2>2, <2>3 DEF IntentsFirst, Settled, FilledAt
  <2>4. CASE \E a \in Answers : Answered(o, a)
    BY <1>3, <2>1, <2>2, <2>4
  <2> QED
    BY <2>1, <2>3, <2>4
<1>7. ASSUME NEW r \in Runs,
             Record(r) \/ ReserveRow(r) \/ Claim(r) \/ AdoptPosition(r)
      PROVE  IntentsFirst'
  BY <1>1, <1>7 DEF Record, ReserveRow, Claim, AdoptPosition, Adopt, ledgerVars,
                    brokerVars
<1>8. CASE UNCHANGED <<storeVars, brokerVars>>
  BY <1>1, <1>8 DEF storeVars, ledgerVars, brokerVars
<1> QED
  BY <1>2, <1>4, <1>5, <1>6, <1>7, <1>8, StoreSteps

\* How the set of pending intents changes.
LEMMA PendingSteps ==
    ASSUME TypeOK, Plans, ToldTrue, Progress, [Next]_vars
    PROVE  \/ Pending' = Pending
           \/ \E o \in Orders : Settles(o) /\ Pending' = Pending \ {o}
           \/ \E r \in Runs : /\ ReserveOwnership(r)
                              /\ Pending = {} /\ Pending' = {plan[r]}
<1>1. ASSUME NEW o \in Orders, Settles(o)
      PROVE  Pending' = Pending \ {o}
  BY <1>1, SettleEffect
<1>2. ASSUME NEW r \in Runs, ReserveOwnership(r)
      PROVE  Pending = {} /\ Pending' = {plan[r]}
  BY <1>2, OwnershipEffect
<1>3. CASE UNCHANGED intents
  BY <1>3 DEF Pending
<1>4. \/ UNCHANGED intents
      \/ \E o \in Orders : Settles(o)
      \/ \E r \in Runs : ReserveOwnership(r)
  BY StoreSteps DEF storeVars, ledgerVars, BrokerMoves, Record, ReserveRow, Claim,
                    CallBroker, AdoptPosition, Adopt
<1> QED
  BY <1>1, <1>2, <1>3, <1>4

LEMMA OnePendingStep ==
    ASSUME TypeOK, Plans, ToldTrue, Progress, OnePending, [Next]_vars
    PROVE  OnePending'
  BY PendingSteps DEF OnePending

LEMMA AloneStep ==
    ASSUME TypeOK, Plans, RowsInOrder, Progress, Alone, [Next]_vars
    PROVE  Alone'
<1> SUFFICES ASSUME NEW r \in Runs, NEW q \in Runs, r # q,
                    pc'[r] \in Early, pc'[q] \in Early, plan'[r] = plan'[q]
             PROVE  FALSE
  BY DEF Alone, Early
<1>1. ASSUME NEW p \in Runs, CycleStep(p), pc'[p] \in Early,
             NEW s \in Runs, s # p, pc'[s] \in Early, plan'[s] = plan'[p]
      PROVE  FALSE
  <2>1. pc[s] \in Early /\ plan[s] = plan[p]
    BY <1>1, OthersSame, EarlySteps DEF Same
  <2>2. CASE ReserveRow(p)
    <3>1. rows[plan[p]].state = "none"
      BY <2>2 DEF ReserveRow
    <3> QED
      BY <2>1, <3>1 DEF Progress, Early
  <2>3. CASE ReserveOwnership(p) \/ Claim(p)
    <3>1. pc[p] \in Early
      BY <2>3 DEF ReserveOwnership, Claim, Early
    <3> QED
      BY <1>1, <2>1, <3>1 DEF Alone, Early
  <2> QED
    BY <1>1, <2>2, <2>3, EarlySteps
<1>2. ~CycleStep(r) /\ ~CycleStep(q)
  BY <1>1
<1>3. Same(r) /\ Same(q)
  BY <1>2, RunSteps
<1> QED
  BY <1>3 DEF Same, Alone, Early

LEMMA ProgressStep ==
    ASSUME TypeOK, Plans, RowsInOrder, IntentsFirst, ToldTrue, Progress, Alone,
           [Next]_vars
    PROVE  Progress'
<1> SUFFICES ASSUME NEW q \in Runs
             PROVE  /\ pc'[q] = "reserved" => /\ rows'[plan'[q]].state = "reserved"
                                              /\ intents'[plan'[q]].state = "none"
                    /\ pc'[q] = "owned" => /\ rows'[plan'[q]].state = "reserved"
                                           /\ plan'[q] \in Pending'
                    /\ pc'[q] = "claimed" => /\ rows'[plan'[q]].state = "submit_attempted"
                                             /\ plan'[q] \in Pending'
                                             /\ broker'[plan'[q]] = Absent
  BY DEF Progress
<1>0. /\ rows \in [Orders -> RowOf] /\ Absent \notin FinalAnswers
      /\ intents \in [Orders -> IntentRow]
  BY AnswerTypes DEF TypeOK, StoreTypeOK, LedgerTypeOK
<1>1. CASE pc'[q] \notin Early
  BY <1>1 DEF Early
<1>2. CASE CycleStep(q) /\ pc'[q] \in Early
  <2>1. plan'[q] = plan[q]
    BY <1>2, EarlySteps
  <2>2. CASE ReserveRow(q) /\ pc'[q] = "reserved"
    <3>1. plan[q] \in Orders
      BY <2>2 DEF ReserveRow, Plans, Working, TypeOK, RunTypeOK
    <3>2. /\ rows' = [rows EXCEPT ![plan[q]].state = "reserved"]
          /\ rows[plan[q]].state = "none"
          /\ intents' = intents
      BY <2>2 DEF ReserveRow, ledgerVars
    <3>3. rows'[plan[q]].state = "reserved"
      BY <1>0, <3>1, <3>2 DEF RowOf
    <3> QED
      BY <2>1, <2>2, <3>1, <3>2, <3>3 DEF RowsInOrder
  <2>3. CASE ReserveOwnership(q) /\ pc'[q] = "owned"
    BY <2>1, <2>3, OwnershipEffect DEF ReserveOwnership, Progress
  <2>4. CASE Claim(q) /\ pc'[q] = "claimed"
    <3>1. plan[q] \in Pending /\ plan[q] \in Orders
      BY <2>4 DEF Claim, Progress, Pending
    <3>2. /\ rows' = [rows EXCEPT ![plan[q]].state = "submit_attempted"]
          /\ rows[plan[q]].state = "reserved"
          /\ intents' = intents /\ broker' = broker
      BY <2>4 DEF Claim, ledgerVars, brokerVars
    <3>3. rows'[plan[q]].state = "submit_attempted"
      BY <1>0, <3>1, <3>2 DEF RowOf
    <3> QED
      BY <2>1, <2>4, <3>1, <3>2, <3>3 DEF RowsInOrder, Pending
  <2> QED
    BY <1>2, <2>2, <2>3, <2>4, EarlySteps
<1>3. CASE ~CycleStep(q) /\ pc'[q] \in Early
  <2> DEFINE o == plan[q]
  <2>1. pc'[q] = pc[q] /\ plan'[q] = o /\ pc[q] \in Early
    BY <1>3, RunSteps DEF Same
  <2>2. o \in Orders
    BY <2>1 DEF Plans, Early, Working, TypeOK, RunTypeOK
  <2>3. /\ broker[o] = Absent
        /\ rows[o].state \in {"reserved", "submit_attempted"}
    BY <2>1, <2>2 DEF Progress, Early, RowsInOrder
  <2>4. \A r \in Runs : r # q /\ pc[r] \in Early => plan[r] # o
    BY <2>1 DEF Alone, Early
  <2> HIDE DEF o
  <2>5. rows'[o] = rows[o] /\ intents'[o] = intents[o] /\ broker'[o] = broker[o]
    <3>1. CASE UNCHANGED <<storeVars, brokerVars>>
      BY <3>1 DEF storeVars, ledgerVars, brokerVars
    <3>2. ASSUME NEW p \in Orders, Settles(p)
          PROVE  rows'[o] = rows[o] /\ intents'[o] = intents[o] /\ broker'[o] = broker[o]
      <4>1. p # o
        BY <1>0, <2>3, <3>2 DEF Settles
      <4> QED
        BY <2>2, <3>2, <4>1, SettleEffect DEF Settles, brokerVars
    <3>3. ASSUME NEW p \in Orders, BrokerMoves(p)
          PROVE  rows'[o] = rows[o] /\ intents'[o] = intents[o] /\ broker'[o] = broker[o]
      <4>1. p # o
        BY <2>3, <3>3, CycleAssumption DEF BrokerMoves
      <4>2. \E a \in Answers : Answered(p, a)
        BY <3>3 DEF BrokerMoves
      <4> QED
        BY <2>2, <3>3, <4>1, <4>2, AnsweredEffect DEF BrokerMoves, storeVars, ledgerVars
    <3>4. ASSUME NEW r \in Runs, Record(r)
          PROVE  rows'[o] = rows[o] /\ intents'[o] = intents[o] /\ broker'[o] = broker[o]
      <4>1. PICK p \in todo[r] :
               rows' = [rows EXCEPT ![p] = [state |-> "observed", answer |-> seen[r][p]]]
        BY <3>4 DEF Record
      <4>2. p \in Orders /\ broker[p] # Absent
        BY DEF ToldTrue, TypeOK, RunTypeOK
      <4> QED
        BY <1>0, <2>2, <2>3, <3>4, <4>1, <4>2 DEF Record, ledgerVars, brokerVars
    <3>5. ASSUME NEW r \in Runs, ReserveRow(r) \/ Claim(r)
          PROVE  rows'[o] = rows[o] /\ intents'[o] = intents[o] /\ broker'[o] = broker[o]
      <4>1. plan[r] # o
        <5>1. CASE ReserveRow(r)
          BY <2>3, <5>1 DEF ReserveRow
        <5>2. CASE Claim(r)
          <6>1. r # q /\ pc[r] \in Early
            BY <1>3, <5>2 DEF Claim, CycleStep, Early
          <6> QED
            BY <2>4, <6>1
        <5> QED
          BY <3>5, <5>1, <5>2
      <4> QED
        BY <1>0, <2>2, <3>5, <4>1 DEF ReserveRow, Claim, ledgerVars, brokerVars
    <3>6. ASSUME NEW r \in Runs, ReserveOwnership(r)
          PROVE  rows'[o] = rows[o] /\ intents'[o] = intents[o] /\ broker'[o] = broker[o]
      <4>1. r # q /\ pc[r] \in Early
        BY <1>3, <3>6 DEF ReserveOwnership, CycleStep, Early
      <4>2. plan[r] # o
        BY <2>4, <4>1
      <4> QED
        BY <1>0, <2>2, <3>6, <4>2, OwnershipEffect DEF brokerVars
    <3>7. ASSUME NEW r \in Runs, CallBroker(r)
          PROVE  rows'[o] = rows[o] /\ intents'[o] = intents[o] /\ broker'[o] = broker[o]
      <4>1. r # q /\ pc[r] \in Early
        BY <1>3, <3>7 DEF CallBroker, CycleStep, Early
      <4>2. plan[r] # o /\ plan[r] \in Orders
        BY <2>4, <3>7, <4>1, CallEffect DEF Pending
      <4>3. UNCHANGED storeVars
        BY <3>7, CallEffect
      <4>4. broker'[o] = broker[o]
        BY <2>2, <3>7, <4>2, CallEffect, AnsweredEffect
      <4> QED
        BY <4>3, <4>4 DEF storeVars, ledgerVars
    <3>8. ASSUME NEW r \in Runs, AdoptPosition(r)
          PROVE  rows'[o] = rows[o] /\ intents'[o] = intents[o] /\ broker'[o] = broker[o]
      BY <3>8 DEF AdoptPosition, Adopt, brokerVars
    <3> QED
      BY <3>1, <3>2, <3>3, <3>4, <3>5, <3>6, <3>7, <3>8, StoreSteps
  <2>6. o \in Pending => o \in Pending'
    BY <2>2, <2>5 DEF Pending
  <2>7. /\ pc[q] = "reserved" => rows[o].state = "reserved" /\ intents[o].state = "none"
        /\ pc[q] = "owned" => rows[o].state = "reserved" /\ o \in Pending
        /\ pc[q] = "claimed" => rows[o].state = "submit_attempted" /\ o \in Pending
    BY DEF Progress, o
  <2> QED
    BY <2>1, <2>3, <2>5, <2>6, <2>7
<1> QED
  BY <1>1, <1>2, <1>3

\* Where the phases before the plan come from, and where plans do.
LEMMA PhaseSteps ==
    ASSUME TypeOK, NEW r \in Runs, CycleStep(r)
    PROVE  /\ pc'[r] = "settling" => FindPending(r)
           /\ pc'[r] \in {"idle", "leased", "counted"} =>
                 \/ Forget(r, "idle")
                 \/ Start(r) /\ pc[r] = "idle"
                 \/ CountPosition(r) /\ pc[r] = "leased"
           /\ pc'[r] \in Told => \/ CountPosition(r)
                                 \/ pc[r] \in Told /\ position' = position
           /\ plan'[r] = plan[r] \/ plan'[r] = NoOrder \/ CompareSleeves(r)
<1>0. RunTypeOK
  BY DEF TypeOK
<1>1. CASE \/ Block(r) \/ SettleOwn(r) \/ Release(r) \/ Crash(r)
           \/ (RecordFails(r) /\ pc[r] = "post")
  <2>1. Forget(r, "releasing") \/ Forget(r, "idle")
    BY <1>1 DEF Block, SettleOwn, Release, Crash, RecordFails
  <2>2. \/ pc'[r] = "releasing" /\ plan'[r] = NoOrder
        \/ pc'[r] = "idle" /\ plan'[r] = NoOrder /\ Forget(r, "idle")
    BY <1>0, <2>1, ForgetTypes DEF Phases
  <2> QED
    BY <2>2 DEF Told
<1>2. CASE Start(r) \/ CountPosition(r) \/ ListOrders(r) \/ FindPending(r)
  <2>1. plan' = plan
    BY <1>2 DEF Start, CountPosition, ListOrders, FindPending, planVars
  <2> QED
    BY <1>0, <1>2, <2>1 DEF Start, CountPosition, ListOrders, FindPending, Goto,
                            RunTypeOK, Told, toldVars
<1>3. CASE \/ SettleFound(r) \/ CompareSleeves(r) \/ AdoptPosition(r)
           \/ LedgerFails(r) \/ ListUnresolved(r)
  BY <1>0, <1>3 DEF SettleFound, AdoptPosition, LedgerFails, ListUnresolved,
     CompareSleeves, Compared, Goto, RunTypeOK, Told, toldVars, planVars
<1>4. CASE Record(r) \/ (RecordFails(r) /\ pc[r] # "post")
  BY <1>4 DEF Record, RecordFails, Told, planVars
<1>5. CASE FinishRecording(r)
  <2>1. pc'[r] \in {"preparing", "called", "closing"} /\ plan' = plan
    BY <1>0, <1>5 DEF FinishRecording, Goto, RunTypeOK, planVars
  <2> QED
    BY <2>1 DEF Told
<1>6. CASE \/ Prepare(r) \/ ReserveRow(r) \/ ReserveOwnership(r) \/ Claim(r)
           \/ CallBroker(r) \/ ListAgain(r)
  <2>1. pc'[r] \in Working
    BY <1>0, <1>6 DEF Prepare, ReserveRow, ReserveOwnership, Claim, CallBroker,
                      ListAgain, Goto, RunTypeOK, Working
  <2>2. plan' = plan
    BY <1>6 DEF Prepare, ReserveRow, ReserveOwnership, Claim, CallBroker, ListAgain,
                planVars
  <2> QED
    BY <2>1, <2>2 DEF Working, Told
<1>7. CASE RecordFails(r)
  BY <1>1, <1>4, <1>7
<1> QED
  BY <1>1, <1>2, <1>3, <1>4, <1>5, <1>6, <1>7 DEF CycleStep

\* What a run is told is what the broker says at that moment.
LEMMA SeenSteps ==
    ASSUME TypeOK, Plans, RowsInOrder, IntentsFirst, ToldTrue, Progress, [Next]_vars,
           NEW r \in Runs, CycleStep(r)
    PROVE  /\ \A o \in Orders :
                 \/ seen'[r][o] = seen[r][o]
                 \/ seen'[r][o] = Absent
                 \/ seen'[r][o] = broker'[o]
           /\ \A o \in todo'[r] : seen'[r][o] # Absent
<1>0. /\ RunTypeOK /\ BrokerTypeOK
      /\ \A o \in todo[r] : o \in Orders /\ seen[r][o] # Absent
  BY DEF TypeOK, RunTypeOK, ToldTrue
<1>1. CASE seen'[r] = seen[r] /\ todo'[r] \subseteq todo[r]
  BY <1>0, <1>1
<1>2. CASE seen'[r] = NothingSeen /\ todo'[r] = {}
  BY <1>2 DEF NothingSeen
<1>3. CASE ListOrders(r)
  <2>1. PICK listed \in SUBSET Orders :
           seen' = [seen EXCEPT ![r] =
              [o \in Orders |-> IF o \in listed THEN broker[o] ELSE Absent]]
    BY <1>3 DEF ListOrders
  <2>2. todo'[r] = {} /\ broker' = broker
    BY <1>3 DEF ListOrders, ToldTrue, brokerVars
  <2> QED
    BY <1>0, <2>1, <2>2 DEF RunTypeOK
<1>4. CASE ListUnresolved(r)
  BY <1>0, <1>4 DEF ListUnresolved, RunTypeOK, toldVars
<1>5. CASE CallBroker(r)
  <2>1. PICK o \in Orders : o = plan[r]
    BY <1>5, CallEffect DEF Pending
  <2>2. CASE seen' = seen /\ todo' = todo
    BY <1>1, <2>2
  <2>3. ASSUME NEW a \in Answers, Answered(o, a), seen' = [seen EXCEPT ![r][o] = a],
               todo' = todo \/ todo' = [todo EXCEPT ![r] = {o}]
        PROVE  /\ \A p \in Orders : \/ seen'[r][p] = seen[r][p]
                                    \/ seen'[r][p] = broker'[p]
               /\ \A p \in todo'[r] : seen'[r][p] # Absent
    <3>1. broker'[o] = a /\ a # Absent
      BY <2>3, AnsweredEffect
    <3>2. seen'[r][o] = a /\ \A p \in Orders : p # o => seen'[r][p] = seen[r][p]
      BY <1>0, <2>3 DEF RunTypeOK
    <3>3. todo'[r] = todo[r] \/ todo'[r] = {o}
      BY <1>0, <2>3 DEF RunTypeOK
    <3> QED
      BY <1>0, <3>1, <3>2, <3>3
  <2> QED
    BY <1>5, <2>1, <2>2, <2>3 DEF CallBroker
<1>6. CASE ListAgain(r)
  <2>1. PICK o \in Orders : o = plan[r]
    BY <1>0, <1>6 DEF ListAgain, Plans, Working, RunTypeOK
  <2>2. /\ seen' = [seen EXCEPT ![r][o] = broker[o]]
        /\ todo' = [todo EXCEPT ![r] = {o}]
        /\ broker[o] # Absent /\ broker' = broker
    BY <1>6, <2>1 DEF ListAgain, brokerVars
  <2>3. seen'[r][o] = broker[o] /\ \A p \in Orders : p # o => seen'[r][p] = seen[r][p]
    BY <1>0, <2>2 DEF RunTypeOK
  <2>4. todo'[r] = {o}
    BY <1>0, <2>2 DEF RunTypeOK
  <2> QED
    BY <2>2, <2>3, <2>4
<1>7. CASE \/ Block(r) \/ SettleOwn(r) \/ Release(r) \/ Crash(r)
           \/ (RecordFails(r) /\ pc[r] = "post")
  <2>1. Forget(r, "releasing") \/ Forget(r, "idle")
    BY <1>7 DEF Block, SettleOwn, Release, Crash, RecordFails
  <2> QED
    BY <1>0, <1>2, <2>1, ForgetTypes DEF Phases
<1>8. CASE FinishRecording(r)
  <2>1. todo'[r] = {}
    BY <1>8 DEF FinishRecording
  <2>2. seen'[r] = seen[r] \/ seen'[r] = NothingSeen
    BY <1>0, <1>8 DEF FinishRecording, RunTypeOK
  <2> QED
    BY <1>1, <1>2, <2>1, <2>2
<1>9. CASE Record(r) \/ (RecordFails(r) /\ pc[r] # "post")
  BY <1>0, <1>1, <1>9 DEF Record, RecordFails, RunTypeOK, toldVars
<1>10. CASE \/ Start(r) \/ CountPosition(r) \/ FindPending(r) \/ SettleFound(r)
            \/ CompareSleeves(r) \/ AdoptPosition(r) \/ LedgerFails(r)
            \/ Prepare(r) \/ ReserveRow(r) \/ ReserveOwnership(r) \/ Claim(r)
  BY <1>1, <1>10 DEF Start, CountPosition, FindPending, SettleFound, CompareSleeves,
     AdoptPosition, LedgerFails, Prepare, ReserveRow, ReserveOwnership, Claim, toldVars
<1>11. CASE RecordFails(r)
  BY <1>7, <1>9, <1>11
<1> QED
  BY <1>3, <1>4, <1>5, <1>6, <1>7, <1>8, <1>9, <1>10, <1>11 DEF CycleStep

LEMMA ToldStep ==
    ASSUME TypeOK, Plans, RowsInOrder, IntentsFirst, ToldTrue, Progress, [Next]_vars
    PROVE  ToldTrue'
<1> SUFFICES ASSUME NEW r \in Runs
             PROVE  /\ \A o \in Orders :
                          /\ seen'[r][o] # Absent => broker'[o] # Absent
                          /\ seen'[r][o] \in FinalAnswers => broker'[o] = seen'[r][o]
                          /\ o \in todo'[r] => seen'[r][o] # Absent
                    /\ pc'[r] \in {"idle", "leased", "counted"} => todo'[r] = {}
                    /\ pc'[r] = "settling" =>
                          broker'[found'[r].order] = found'[r].answer
  BY DEF ToldTrue
<1>0. RunTypeOK /\ Absent \notin FinalAnswers
  BY AnswerTypes DEF TypeOK
<1>1. \A o \in Orders :
         /\ seen[r][o] # Absent => broker'[o] # Absent
         /\ seen[r][o] \in FinalAnswers => broker'[o] = seen[r][o]
         /\ o \in todo[r] => seen[r][o] # Absent
  BY BrokerGrows DEF ToldTrue
<1>2. CASE Same(r)
  <2>1. pc[r] = "settling" =>
           /\ found[r].order \in Orders
           /\ broker'[found[r].order] = found[r].answer
    BY BrokerGrows DEF ToldTrue, Plans
  <2>2. pc[r] \in {"idle", "leased", "counted"} => todo[r] = {}
    BY DEF ToldTrue
  <2> QED
    BY <1>1, <1>2, <2>1, <2>2 DEF Same
<1>3. CASE CycleStep(r)
  <2>1. \A o \in Orders :
           /\ seen'[r][o] # Absent => broker'[o] # Absent
           /\ seen'[r][o] \in FinalAnswers => broker'[o] = seen'[r][o]
           /\ o \in todo'[r] => seen'[r][o] # Absent
    BY <1>0, <1>1, <1>3, SeenSteps
  <2>2. pc'[r] \in {"idle", "leased", "counted"} => todo'[r] = {}
    <3>1. Forget(r, "idle") => todo'[r] = {}
      BY <1>0, ForgetTypes DEF Phases
    <3>2. \/ Start(r) /\ pc[r] = "idle"
          \/ CountPosition(r) /\ pc[r] = "leased"
          => todo'[r] = {}
      BY DEF Start, CountPosition, ToldTrue
    <3> QED
      BY <1>3, <3>1, <3>2, PhaseSteps
  <2>3. pc'[r] = "settling" => broker'[found'[r].order] = found'[r].answer
    <3> SUFFICES ASSUME pc'[r] = "settling"
                 PROVE  broker'[found'[r].order] = found'[r].answer
      OBVIOUS
    <3>1. FindPending(r)
      BY <1>3, PhaseSteps
    <3>2. PICK o \in Ended(r) :
             found' = [found EXCEPT ![r] = [order |-> o, answer |-> EndOf(r, o)]]
      BY <1>0, <3>1 DEF FindPending, Goto, RunTypeOK
    <3>3. o \in Orders /\ EndOf(r, o) \in FinalAnswers /\ broker' = broker
      BY <3>1 DEF Ended, Pending, FindPending, brokerVars
    <3>4. broker[o] = EndOf(r, o)
      BY <3>3 DEF EndOf, RowTerminal, RowsInOrder, ToldTrue
    <3>5. found'[r].order = o /\ found'[r].answer = EndOf(r, o)
      BY <1>0, <3>2 DEF RunTypeOK
    <3> QED
      BY <3>3, <3>4, <3>5
  <2> QED
    BY <2>1, <2>2, <2>3
<1> QED
  BY <1>2, <1>3, RunSteps

\* A fill moves the books of the pending intent's order, and of nothing else.
LEMMA FillBooks ==
    ASSUME TypeOK, OnePending, Books, NEW o \in Pending, NEW a \in Answers,
           Answered(o, a), UNCHANGED storeVars
    PROVE  Books'
<1>1. o \in Orders /\ StrategyOf[o] \in Strategies /\ SideOf[o] \in {"buy", "sell"}
  BY SleeveAssumption DEF Pending
<1>2. /\ sleeves' = sleeves /\ intents' = intents /\ adopted' = adopted
      /\ Pending' = Pending
  BY DEF storeVars, ledgerVars, Pending
<1>3. FilledAt(o)' = a.quantity /\ a.quantity \in Nat /\ FilledAt(o) \in Nat
  BY <1>1, AnsweredEffect
<1>4. net \in [Strategies -> Int]
  BY DEF TypeOK, BrokerTypeOK
<1>5. /\ net'[StrategyOf[o]] = net[StrategyOf[o]] + (Moved(o)' - Moved(o))
      /\ \A s \in Strategies : s # StrategyOf[o] => net'[s] = net[s]
  <2>1. /\ SideOf[o] = "buy" =>
              net' = [net EXCEPT ![StrategyOf[o]] = @ + (a.quantity - FilledAt(o))]
        /\ SideOf[o] = "sell" =>
              net' = [net EXCEPT ![StrategyOf[o]] = @ - (a.quantity - FilledAt(o))]
    BY DEF Answered
  <2>2. net[StrategyOf[o]] \in Int
    BY <1>1, <1>4
  <2>3. CASE SideOf[o] = "buy"
    <3>1. Moved(o)' = a.quantity /\ Moved(o) = FilledAt(o)
      BY <1>3, <2>3 DEF Moved
    <3> QED
      BY <1>1, <1>3, <1>4, <2>1, <2>2, <2>3, <3>1
  <2>4. CASE SideOf[o] = "sell"
    <3>1. Moved(o)' = 0 - a.quantity /\ Moved(o) = 0 - FilledAt(o)
      BY <1>3, <2>4 DEF Moved
    <3> QED
      BY <1>1, <1>3, <1>4, <2>1, <2>2, <2>4, <3>1
  <2> QED
    BY <1>1, <2>3, <2>4
<1>6. SleevesAreTrue'
  BY <1>2, <1>5 DEF SleevesAreTrue, Books
<1>7. ASSUME NEW p \in Pending'
      PROVE  /\ Sleeve(p)' = intents'[p].before
             /\ adopted'[StrategyOf[p]] + net'[StrategyOf[p]]
                   = intents'[p].before + Moved(p)'
             /\ SideOf[p] = "sell" => intents'[p].requested \in 1 .. intents'[p].before
  <2>1. p = o
    BY <1>2, <1>7 DEF OnePending
  <2>2. /\ Sleeve(o) = intents[o].before
        /\ adopted[StrategyOf[o]] + net[StrategyOf[o]] = intents[o].before + Moved(o)
        /\ SideOf[o] = "sell" => intents[o].requested \in 1 .. intents[o].before
    BY DEF Books
  <2>3. /\ adopted[StrategyOf[o]] \in Nat /\ net[StrategyOf[o]] \in Int
        /\ intents[o].before \in Nat
    BY <1>1 DEF TypeOK, StoreTypeOK, BrokerTypeOK, LedgerTypeOK, IntentRow
  <2>4. Moved(o) \in Int /\ Moved(o)' \in Int
    BY <1>3 DEF Moved
  <2>5. adopted[StrategyOf[o]] + net'[StrategyOf[o]] = intents[o].before + Moved(o)'
    BY <1>5, <2>2, <2>3, <2>4
  <2> QED
    BY <1>2, <2>1, <2>2, <2>5 DEF Sleeve
<1> QED
  BY <1>6, <1>7 DEF Books

\* A settlement moves a sleeve by what its order moved.
LEMMA SettledBooks ==
    ASSUME TypeOK, OnePending, Books, NEW o \in Orders, Settles(o)
    PROVE  Books'
<1>1. CASE o \notin Pending
  <2>1. /\ UNCHANGED ledgerVars /\ adopted' = adopted /\ broker' = broker
        /\ net' = net
    BY <1>1, SettleEffect DEF Settles, brokerVars
  <2> QED
    BY <2>1 DEF ledgerVars, Books, SleevesAreTrue, Pending, Sleeve, Moved, FilledAt
<1>2. CASE o \in Pending
  <2>1. Pending' = {}
    BY <1>2, SettleEffect DEF OnePending
  <2>2. /\ StrategyOf[o] \in Strategies /\ SideOf[o] \in {"buy", "sell"}
        /\ sleeves \in [Strategies -> Nat] /\ intents[o].before \in Nat
    BY SleeveAssumption DEF TypeOK, StoreTypeOK, LedgerTypeOK, IntentRow
  <2>3. broker[o].quantity \in Nat /\ FilledAt(o) = broker[o].quantity
    BY AnswerTypes DEF Settles, FilledAt
  <2>4. /\ Sleeve(o) = intents[o].before
        /\ adopted[StrategyOf[o]] + net[StrategyOf[o]] = intents[o].before + Moved(o)
    BY <1>2 DEF Books
  <2>5. /\ adopted' = adopted /\ net' = net
        /\ sleeves' = IF broker[o].quantity > 0
              THEN [sleeves EXCEPT ![StrategyOf[o]] = SleeveAfter(o, broker[o].quantity)]
              ELSE sleeves
    BY <1>2 DEF Settles, SettleIntent, brokerVars
  <2>6. sleeves'[StrategyOf[o]] = intents[o].before + Moved(o)
    <3>1. CASE broker[o].quantity > 0
      <4>1. sleeves'[StrategyOf[o]] = SleeveAfter(o, broker[o].quantity)
        BY <2>2, <2>5, <3>1
      <4>2. SleeveAfter(o, broker[o].quantity) = intents[o].before + Moved(o)
        BY <2>2, <2>3, <2>4 DEF SleeveAfter, Moved
      <4> QED
        BY <4>1, <4>2
    <3>2. CASE ~(broker[o].quantity > 0)
      <4>1. Moved(o) = 0
        BY <2>3, <3>2 DEF Moved
      <4> QED
        BY <2>2, <2>4, <2>5, <3>2, <4>1 DEF Sleeve
    <3> QED
      BY <3>1, <3>2
  <2>7. ASSUME NEW s \in Strategies, s # StrategyOf[o]
        PROVE  sleeves'[s] = adopted[s] + net[s]
    <3>1. sleeves'[s] = sleeves[s]
      BY <2>2, <2>5, <2>7
    <3>2. \A p \in Pending : StrategyOf[p] # s
      BY <1>2, <2>7 DEF OnePending
    <3> QED
      BY <3>1, <3>2 DEF Books, SleevesAreTrue
  <2> QED
    BY <2>1, <2>4, <2>5, <2>6, <2>7 DEF Books, SleevesAreTrue
<1> QED
  BY <1>1, <1>2

\* An intent is reserved when the books are complete.
LEMMA ReservedBooks ==
    ASSUME TypeOK, Plans, Progress, IntentsFirst, Books, NEW r \in Runs,
           ReserveOwnership(r)
    PROVE  Books'
<1>1. PICK o \in Orders : o = plan[r]
  BY OwnershipEffect
<1> DEFINE row == [state |-> "reserved", requested |-> Requested(r),
                   before |-> quantity[r], filled |-> 0, status |-> NoStatus,
                   session |-> day[r]]
<1>2. /\ intents[o].state = "none" /\ quantity[r] \in Nat /\ Requested(r) \in Nat
      /\ intents' = [intents EXCEPT ![o] = row]
      /\ Pending = {} /\ Pending' = {o}
      /\ UNCHANGED <<sleeves, adopted, brokerVars>>
  BY <1>1, OwnershipEffect
<1>3. row.before = quantity[r] /\ row.requested = Requested(r)
  OBVIOUS
<1> HIDE DEF row
<1>4. intents'[o].before = quantity[r] /\ intents'[o].requested = Requested(r)
  BY <1>2, <1>3 DEF TypeOK, StoreTypeOK, LedgerTypeOK
<1>5. /\ Sleeve(o) = quantity[r]
      /\ SideOf[o] = "sell" => Requested(r) \in 1 .. quantity[r]
  BY <1>1 DEF ReserveOwnership, IntentAdmitted
<1>6. Moved(o)' = 0
  <2>1. broker[o] = Absent
    BY <1>2 DEF IntentsFirst
  <2> QED
    BY <1>2, <2>1 DEF Moved, FilledAt, brokerVars
<1>7. \A s \in Strategies : sleeves[s] = adopted[s] + net[s]
  BY <1>2 DEF Books, SleevesAreTrue
<1>8. StrategyOf[o] \in Strategies
  BY SleeveAssumption
<1>9. SleevesAreTrue'
  BY <1>2, <1>7 DEF SleevesAreTrue, brokerVars
<1> QED
  BY <1>2, <1>4, <1>5, <1>6, <1>7, <1>8, <1>9 DEF Books, Sleeve, brokerVars

\* An adopted position is the sleeve's from then on.
LEMMA AdoptedBooks ==
    ASSUME TypeOK, Books, Adoption, NEW r \in Runs, AdoptPosition(r)
    PROVE  /\ Books'
           /\ \A s \in Strategies : net[s] = 0 /\ adopted[s] = 0
           /\ Pending = {}
<1>1. /\ Pending = {} /\ Pending' = {} /\ net' = net
      /\ sleeves' = [sleeves EXCEPT ![active[r]] = position[r]]
      /\ adopted' = [adopted EXCEPT ![active[r]] = position[r]]
      /\ generation = 0
  BY DEF AdoptPosition, AdoptAdmitted, Adopt, Pending, brokerVars
<1>2. \A s \in Strategies : sleeves[s] = 0 /\ adopted[s] = 0
  BY <1>1 DEF Adoption
<1>3. \A s \in Strategies : sleeves[s] = adopted[s] + net[s]
  BY <1>1 DEF Books, SleevesAreTrue
<1>4. /\ net \in [Strategies -> Int] /\ sleeves \in [Strategies -> Nat]
      /\ adopted \in [Strategies -> Nat] /\ active[r] \in Strategies
      /\ position[r] \in Int
  BY DEF TypeOK, StoreTypeOK, BrokerTypeOK, LedgerTypeOK, RunTypeOK
<1>5. \A s \in Strategies : net[s] = 0
  BY <1>2, <1>3, <1>4
<1>6. \A s \in Strategies : sleeves'[s] = adopted'[s] + net'[s]
  BY <1>1, <1>2, <1>4, <1>5
<1> QED
  BY <1>1, <1>2, <1>5, <1>6 DEF Books, SleevesAreTrue

LEMMA BooksStep ==
    ASSUME TypeOK, Plans, RowsInOrder, IntentsFirst, ToldTrue, Progress, OnePending,
           Books, Adoption, [Next]_vars
    PROVE  Books'
<1>1. CASE UNCHANGED <<sleeves, intents, adopted, broker, net>>
  BY <1>1 DEF Books, SleevesAreTrue, Pending, Sleeve, Moved, FilledAt
<1>2. ASSUME NEW o \in Orders, BrokerMoves(o)
      PROVE  Books'
  <2>1. broker[o] # Absent /\ broker[o] \notin FinalAnswers
    BY <1>2, CycleAssumption DEF BrokerMoves
  <2>2. o \in Pending
    BY <2>1 DEF IntentsFirst, Settled, Pending, TypeOK, StoreTypeOK, LedgerTypeOK,
                IntentRow
  <2> QED
    BY <1>2, <2>2, FillBooks DEF BrokerMoves
<1>3. ASSUME NEW r \in Runs, CallBroker(r)
      PROVE  Books'
  <2>1. PICK o \in Pending : o = plan[r]
    BY <1>3, CallEffect
  <2>2. UNCHANGED storeVars
    BY <1>3, CallEffect
  <2>3. UNCHANGED <<broker, net>> \/ \E a \in Answers : Answered(o, a)
    BY <1>3, <2>1, CallEffect
  <2> QED
    BY <1>1, <2>2, <2>3, FillBooks DEF storeVars, ledgerVars
<1>4. ASSUME NEW r \in Runs, Record(r) \/ ReserveRow(r) \/ Claim(r)
      PROVE  Books'
  BY <1>1, <1>4 DEF Record, ReserveRow, Claim, ledgerVars, brokerVars
<1>5. CASE UNCHANGED <<storeVars, brokerVars>>
  BY <1>1, <1>5 DEF storeVars, ledgerVars, brokerVars
<1> QED
  BY <1>2, <1>3, <1>4, <1>5, SettledBooks, ReservedBooks, AdoptedBooks, StoreSteps

\* What changes the count of the sleeves' changes.
LEMMA GenerationSteps ==
    ASSUME TypeOK, Plans, ToldTrue, Progress, [Next]_vars
    PROVE  \/ UNCHANGED <<generation, sleeves, adopted>>
           \/ \E o \in Pending : /\ Settles(o) /\ FilledAt(o) > 0
                                 /\ generation' = generation + 1
           \/ \E r \in Runs : AdoptPosition(r)
<1>1. ASSUME NEW o \in Orders, Settles(o)
      PROVE  \/ UNCHANGED <<generation, sleeves, adopted>>
             \/ /\ o \in Pending /\ FilledAt(o) > 0
                /\ generation' = generation + 1
  <2>1. broker[o].quantity = FilledAt(o)
    BY <1>1, AnswerTypes DEF Settles, FilledAt
  <2> QED
    BY <1>1, <2>1 DEF Settles, SettleIntent
<1>2. ASSUME NEW r \in Runs,
             Record(r) \/ ReserveRow(r) \/ ReserveOwnership(r) \/ Claim(r) \/ CallBroker(r)
      PROVE  UNCHANGED <<generation, sleeves, adopted>>
  BY <1>2 DEF Record, ReserveRow, ReserveOwnership, Claim, CallBroker, storeVars,
              ledgerVars
<1>3. ASSUME NEW o \in Orders, BrokerMoves(o)
      PROVE  UNCHANGED <<generation, sleeves, adopted>>
  BY <1>3 DEF BrokerMoves, storeVars, ledgerVars
<1>4. UNCHANGED storeVars => UNCHANGED <<generation, sleeves, adopted>>
  BY DEF storeVars, ledgerVars
<1> QED
  BY <1>1, <1>2, <1>3, <1>4, StoreSteps

\* A pending fill stays one until it is booked.
LEMMA FillsStay ==
    ASSUME TypeOK, Plans, ToldTrue, Progress, [Next]_vars, generation' = generation,
           NEW o \in Pending, FilledAt(o) > 0
    PROVE  o \in Pending' /\ FilledAt(o)' > 0
<1>0. /\ o \in Orders /\ generation \in Nat /\ broker[o] # Absent
      /\ FilledAt(o) \in Nat
  BY AnswerTypes DEF Pending, TypeOK, StoreTypeOK, LedgerTypeOK, BrokerTypeOK, FilledAt
<1>1. ~Settles(o)
  <2> SUFFICES ASSUME Settles(o) PROVE FALSE
    OBVIOUS
  <2>1. broker[o].quantity > 0
    BY <1>0 DEF FilledAt
  <2>2. generation' = generation + 1
    BY <2>1 DEF Settles, SettleIntent
  <2> QED
    BY <1>0, <2>2
<1>2. o \in Pending'
  BY <1>1, PendingSteps
<1>3. CASE broker' = broker
  BY <1>2, <1>3 DEF FilledAt
<1>4. ASSUME NEW p \in Orders, BrokerMoves(p)
      PROVE  FilledAt(o)' > 0
  <2>1. PICK a \in Answers : a.quantity >= broker[p].quantity /\ Answered(p, a)
    BY <1>4 DEF BrokerMoves
  <2>2. CASE p = o
    <3>1. FilledAt(o)' = a.quantity /\ a.quantity \in Nat
      BY <2>1, <2>2, AnsweredEffect
    <3>2. FilledAt(o) = broker[o].quantity
      BY <1>0 DEF FilledAt
    <3> QED
      BY <1>0, <2>1, <2>2, <3>1, <3>2
  <2>3. CASE p # o
    BY <1>0, <2>1, <2>3, AnsweredEffect
  <2> QED
    BY <2>2, <2>3
<1>5. ASSUME NEW r \in Runs, CallBroker(r)
      PROVE  FilledAt(o)' > 0
  <2>1. plan[r] \in Orders /\ plan[r] # o
    BY <1>0, <1>5, CallEffect DEF Pending
  <2>2. UNCHANGED broker \/ \E a \in Answers : Answered(plan[r], a)
    BY <1>5, CallEffect
  <2> QED
    BY <1>0, <1>3, <2>1, <2>2, AnsweredEffect
<1>6. \/ broker' = broker
      \/ \E p \in Orders : BrokerMoves(p)
      \/ \E r \in Runs : CallBroker(r)
  BY StoreSteps DEF brokerVars, Settles, Record, ReserveRow, ReserveOwnership, Claim,
                    AdoptPosition
<1> QED
  BY <1>2, <1>3, <1>4, <1>5, <1>6

\* A position above the adopted one is a pending intent's.
LEMMA FreshPosition ==
    ASSUME TypeOK, OnePending, Books, Adoption, generation = 0
    PROVE  /\ Pending = {} => Position = Held
           /\ Held = 0 /\ Position > 0 => \E o \in Pending : FilledAt(o) > 0
<1>0. /\ net \in [Strategies -> Int] /\ Held \in Nat
      /\ Strategies = {"sma", "rsi"}
  BY CycleAssumption DEF TypeOK, BrokerTypeOK, Strategies
<1>1. \A s \in Strategies : adopted[s] = 0 /\ sleeves[s] = 0
  BY DEF Adoption
<1>2. ASSUME NEW s \in Strategies, \A o \in Pending : StrategyOf[o] # s
      PROVE  net[s] = 0
  BY <1>0, <1>1, <1>2 DEF Books, SleevesAreTrue
<1>3. Pending = {} => Position = Held
  BY <1>0, <1>2 DEF Position
<1>4. ASSUME NEW o \in Pending, Held = 0, Position > 0
      PROVE  FilledAt(o) > 0
  <2>1. StrategyOf[o] \in Strategies /\ FilledAt(o) \in Nat
    BY SleeveAssumption, AnswerTypes DEF Pending, FilledAt, TypeOK, BrokerTypeOK
  <2>2. net[StrategyOf[o]] = Moved(o)
    <3>1. /\ Sleeve(o) = intents[o].before
          /\ adopted[StrategyOf[o]] + net[StrategyOf[o]] = intents[o].before + Moved(o)
      BY DEF Books
    <3>2. intents[o].before = 0 /\ adopted[StrategyOf[o]] = 0
      BY <1>1, <2>1, <3>1 DEF Sleeve
    <3>3. Moved(o) \in Int
      BY <2>1 DEF Moved
    <3> QED
      BY <1>0, <2>1, <3>1, <3>2, <3>3
  <2>3. \A s \in Strategies : s # StrategyOf[o] => net[s] = 0
    BY <1>2 DEF OnePending
  <2>4. Moved(o) > 0
    BY <1>0, <1>4, <2>1, <2>2, <2>3 DEF Position
  <2> QED
    BY <2>1, <2>4 DEF Moved
<1>5. Held = 0 /\ Position > 0 => Pending # {}
  BY <1>3
<1> QED
  BY <1>3, <1>4, <1>5

LEMMA AdoptionStep ==
    ASSUME TypeOK, Plans, RowsInOrder, IntentsFirst, ToldTrue, Progress, OnePending,
           Books, Adoption, [Next]_vars
    PROVE  Adoption'
<1>0. /\ generation \in Nat /\ Held \in Nat /\ RunTypeOK
      /\ adopted \in [Strategies -> Nat] /\ "sma" \in Strategies /\ "rsi" \in Strategies
  BY CycleAssumption DEF TypeOK, StoreTypeOK, LedgerTypeOK, Strategies
<1>1. ASSUME NEW o \in Pending, Settles(o), FilledAt(o) > 0, generation' = generation + 1
      PROVE  Adoption'
  <2>1. adopted' = adopted /\ generation' > 0 /\ ~(generation' = 0)
    BY <1>0, <1>1 DEF Settles
  <2>2. generation = 0 => Held = 0
    BY <1>0 DEF Adoption, Pending
  <2>3. adopted["sma"] + adopted["rsi"] = Held
    BY <1>0, <2>2 DEF Adoption
  <2> QED
    BY <2>1, <2>3 DEF Adoption
<1>2. ASSUME NEW r \in Runs, AdoptPosition(r)
      PROVE  Adoption'
  <2>1. /\ generation = 0 /\ generation' = generation + 1 /\ pc[r] \in Told
        /\ position[r] > 0 /\ Pending = {}
        /\ adopted' = [adopted EXCEPT ![active[r]] = position[r]]
    BY <1>2 DEF AdoptPosition, AdoptAdmitted, Adopt, Told
  <2>2. Held > 0
    BY <1>0, <2>1 DEF Adoption
  <2>3. position[r] = Held
    BY <2>1, <2>2 DEF Adoption
  <2>4. \A s \in Strategies : adopted[s] = 0
    BY <2>1 DEF Adoption
  <2>5. active[r] \in {"sma", "rsi"}
    BY <1>0 DEF RunTypeOK, Strategies
  <2>6. adopted'["sma"] + adopted'["rsi"] = Held
    BY <1>0, <2>1, <2>3, <2>4, <2>5
  <2>7. generation' > 0 /\ ~(generation' = 0)
    BY <2>1
  <2> QED
    BY <2>6, <2>7 DEF Adoption
<1>3. CASE UNCHANGED <<generation, sleeves, adopted>>
  <2>1. /\ generation' = 0 => \A s \in Strategies : adopted'[s] = 0 /\ sleeves'[s] = 0
        /\ generation' > 0 => adopted'["sma"] + adopted'["rsi"] = Held
    BY <1>3 DEF Adoption
  <2>2. ASSUME generation = 0, Held > 0
        PROVE  /\ \A o \in Orders : intents'[o].state = "none"
               /\ \A r \in Runs : /\ plan'[r] = NoOrder
                                  /\ pc'[r] \in Told => position'[r] = Held
    <3>1. /\ \A o \in Orders : intents[o].state = "none"
          /\ \A r \in Runs : /\ plan[r] = NoOrder
                             /\ pc[r] \in Told => position[r] = Held
          /\ \A s \in Strategies : sleeves[s] = 0
      BY <2>2 DEF Adoption
    <3>2. \A o \in Orders : intents'[o].state = "none"
      <4>1. ASSUME NEW o \in Orders, Settles(o)
            PROVE  UNCHANGED intents
        BY <3>1, <4>1, SettleEffect DEF Pending, ledgerVars
      <4>2. ASSUME NEW r \in Runs, ReserveOwnership(r)
            PROVE  FALSE
        BY <3>1, <4>2, OwnershipEffect, CycleAssumption
      <4>3. UNCHANGED intents
        BY <4>1, <4>2, StoreSteps
        DEF storeVars, ledgerVars, BrokerMoves, Record, ReserveRow, Claim, CallBroker,
            AdoptPosition, Adopt
      <4> QED
        BY <3>1, <4>3
    <3>3. Position = Held /\ Total = 0
      <4>1. Pending = {}
        BY <3>1 DEF Pending
      <4> QED
        BY <1>0, <2>2, <3>1, <4>1, FreshPosition DEF Total
    <3>4. ASSUME NEW r \in Runs, CycleStep(r)
          PROVE  /\ plan'[r] = NoOrder
                 /\ pc'[r] \in Told => position'[r] = Held
      <4>1. CompareSleeves(r) => plan' = plan
        BY <1>0, <2>2, <3>1, <3>3 DEF CompareSleeves, PlanAllowed, Told
      <4>2. CountPosition(r) => position'[r] = Held
        BY <1>0, <3>3 DEF CountPosition, RunTypeOK
      <4> QED
        BY <3>1, <3>4, <4>1, <4>2, PhaseSteps
    <3>5. ASSUME NEW r \in Runs, Same(r)
          PROVE  /\ plan'[r] = NoOrder
                 /\ pc'[r] \in Told => position'[r] = Held
      BY <3>1, <3>5 DEF Same
    <3> QED
      BY <3>2, <3>4, <3>5, RunSteps
  <2>3. ASSUME generation = 0, Held = 0, NEW r \in Runs, pc'[r] \in Told,
               position'[r] > 0
        PROVE  \E o \in Pending' : FilledAt(o)' > 0
    <3>1. CASE CountPosition(r)
      <4>1. position'[r] = Position
        BY <1>0, <3>1 DEF CountPosition, RunTypeOK
      <4> QED
        BY <1>3, <2>3, <4>1, FreshPosition, FillsStay
    <3>2. CASE pc[r] \in Told /\ position'[r] = position[r]
      BY <1>3, <2>3, <3>2, FillsStay DEF Adoption
    <3> QED
      BY <2>3, <3>1, <3>2, RunSteps, PhaseSteps DEF Same
  <2> QED
    BY <1>3, <2>1, <2>2, <2>3 DEF Adoption
<1> QED
  BY <1>1, <1>2, <1>3, GenerationSteps

LEMMA CapStep ==
    ASSUME TypeOK, Plans, ToldTrue, Progress, WithinCap, [Next]_vars
    PROVE  WithinCap'
<1>1. ASSUME \A o \in Orders : /\ intents[o].state = "none" <=> intents'[o].state = "none"
                               /\ intents'[o].session = intents[o].session
      PROVE  WithinCap'
  <2>1. \A d \in Nat : Reserved(d)' = Reserved(d)
    BY <1>1 DEF Reserved
  <2> QED
    BY <2>1 DEF WithinCap
<1>2. ASSUME NEW o \in Orders, Settles(o)
      PROVE  WithinCap'
  <2>1. \A p \in Orders : /\ intents[p].state = "none" <=> intents'[p].state = "none"
                          /\ intents'[p].session = intents[p].session
    BY <1>2, SettleEffect
  <2> QED
    BY <1>1, <2>1
<1>3. ASSUME NEW r \in Runs, ReserveOwnership(r)
      PROVE  WithinCap'
  <2>1. PICK o \in Orders : o = plan[r]
    BY <1>3, OwnershipEffect
  <2>2. PICK e \in Nat : e = day[r]
    BY <1>3, OwnershipEffect
  <2> DEFINE row == [state |-> "reserved", requested |-> Requested(r),
                     before |-> quantity[r], filled |-> 0, status |-> NoStatus,
                     session |-> day[r]]
  <2>3. /\ intents' = [intents EXCEPT ![o] = row]
        /\ row.state = "reserved" /\ row.session = e
        /\ Cardinality(Reserved(e)) < SessionCap
    BY <1>3, <2>1, <2>2, OwnershipEffect DEF ReserveOwnership, IntentAdmitted
  <2> HIDE DEF row
  <2>4. /\ intents'[o].state = "reserved" /\ intents'[o].session = e
        /\ \A p \in Orders : p # o => intents'[p] = intents[p]
        /\ intents[o].state = "none"
    BY <1>3, <2>1, <2>3, OwnershipEffect DEF TypeOK, StoreTypeOK, LedgerTypeOK
  <2>5. Reserved(e)' = Reserved(e) \cup {o}
    BY <2>4 DEF Reserved
  <2>6. IsFiniteSet(Reserved(e)) /\ SessionCap \in Nat
    BY SleeveAssumption, FS_Subset DEF Reserved
  <2>7. /\ Cardinality(Reserved(e)) \in Nat
        /\ Cardinality(Reserved(e) \cup {o}) \in Nat
        /\ Cardinality(Reserved(e) \cup {o}) <= Cardinality(Reserved(e)) + 1
    <3>1. Cardinality(Reserved(e)) \in Nat
      BY <2>6, FS_CardinalityType
    <3>2. Cardinality(Reserved(e) \cup {o}) =
             IF o \in Reserved(e) THEN Cardinality(Reserved(e))
                                  ELSE Cardinality(Reserved(e)) + 1
      BY <2>6, FS_AddElement
    <3> QED
      BY <3>1, <3>2
  <2>8. Cardinality(Reserved(e)') <= SessionCap
    BY <2>3, <2>5, <2>6, <2>7
  <2>9. ASSUME NEW d \in Nat
        PROVE  Cardinality(Reserved(d)') <= SessionCap
    <3>1. CASE d = e
      BY <2>8, <3>1
    <3>2. CASE d # e
      <4>1. Reserved(d)' = Reserved(d)
        BY <2>4, <3>2 DEF Reserved
      <4> QED
        BY <4>1 DEF WithinCap
    <3> QED
      BY <3>1, <3>2
  <2> QED
    BY <2>9 DEF WithinCap
<1>4. CASE UNCHANGED intents
  BY <1>1, <1>4
<1>5. \/ UNCHANGED intents
      \/ \E o \in Orders : Settles(o)
      \/ \E r \in Runs : ReserveOwnership(r)
  BY StoreSteps DEF storeVars, ledgerVars, BrokerMoves, Record, ReserveRow, Claim,
                    CallBroker, AdoptPosition, Adopt
<1> QED
  BY <1>2, <1>3, <1>4, <1>5

-----------------------------------------------------------------------------
(* The theorems.                                                           *)

IInv == /\ TypeOK /\ Plans
        /\ RowsInOrder /\ IntentsFirst /\ ToldTrue
        /\ Progress /\ Alone /\ OnePending
        /\ Books /\ Adoption /\ WithinCap

LEMMA InitIInv == Init => IInv
<1> SUFFICES ASSUME Init PROVE IInv
  OBVIOUS
<1>1. /\ \A o \in Orders : /\ intents[o].state = "none"
                           /\ rows[o] = [state |-> "none", answer |-> Absent]
                           /\ broker[o] = Absent /\ calls[o] = 0
      /\ \A r \in Runs : /\ pc[r] = "idle" /\ plan[r] = NoOrder /\ todo[r] = {}
                         /\ seen[r] = NothingSeen
      /\ \A s \in Strategies : sleeves[s] = 0 /\ adopted[s] = 0 /\ net[s] = 0
      /\ generation = 0
  BY DEF Init, LedgerInit, NoIntent, NothingSeen
<1>2. Absent \notin FinalAnswers
  BY AnswerTypes
<1>3. Pending = {}
  BY <1>1 DEF Pending
<1>4. RowsInOrder
  BY <1>1, <1>2 DEF RowsInOrder
<1>5. IntentsFirst
  <2>1. \A o \in Orders : intents[o].requested = 0 /\ FilledAt(o) = 0
    BY <1>1 DEF Init, LedgerInit, NoIntent, FilledAt
  <2> QED
    BY <1>1, <2>1 DEF IntentsFirst, Settled
<1>6. ToldTrue /\ Progress /\ Alone
  BY <1>1, <1>2 DEF ToldTrue, Progress, Alone, NothingSeen
<1>7. OnePending
  BY <1>3 DEF OnePending
<1>8. Books
  BY <1>1, <1>3 DEF Books, SleevesAreTrue
<1>9. Adoption
  BY <1>1 DEF Adoption, Told
<1>10. WithinCap
  <2>1. \A d \in Nat : Reserved(d) = {}
    BY <1>1 DEF Reserved
  <2>2. Cardinality({}) = 0 /\ SessionCap > 0
    BY SleeveAssumption, FS_EmptySet
  <2> QED
    BY <2>1, <2>2, SleeveAssumption DEF WithinCap
<1> QED
  BY <1>4, <1>5, <1>6, <1>7, <1>8, <1>9, <1>10, InitTyped DEF IInv

LEMMA IInvStep == IInv /\ [Next]_vars => IInv'
<1> SUFFICES ASSUME IInv, [Next]_vars PROVE IInv'
  OBVIOUS
<1>1. TypeOK' /\ Plans'
  BY StepTyped DEF IInv
<1>2. RowsInOrder' /\ IntentsFirst' /\ ToldTrue'
  BY RowsStep, IntentsStep, ToldStep DEF IInv
<1>3. Progress' /\ Alone' /\ OnePending'
  BY ProgressStep, AloneStep, OnePendingStep DEF IInv
<1>4. Books' /\ Adoption' /\ WithinCap'
  BY BooksStep, AdoptionStep, CapStep DEF IInv
<1> QED
  BY <1>1, <1>2, <1>3, <1>4 DEF IInv

LEMMA Inductive == Spec => []IInv
  BY InitIInv, IInvStep, PTL DEF Spec

\* Each strategy without an order in flight owns what it adopted and what its
\* own orders filled: reserve_intent and reconcile_intent book every fill once
\* and to the strategy that ordered it, wherever a cycle stops in between.
THEOREM SleevesTrue == Spec => []SleevesAreTrue
<1>1. IInv => SleevesAreTrue
  BY DEF IInv, Books
<1> QED
  BY <1>1, Inductive, PTL

LEMMA OwnsInv == IInv => SellsOnlyItsOwn
<1>1. ASSUME IInv, NEW s \in Strategies
      PROVE  adopted[s] + net[s] >= 0
  <2>1. CASE \A o \in Pending : StrategyOf[o] # s
    BY <1>1, <2>1 DEF IInv, Books, SleevesAreTrue, TypeOK, StoreTypeOK, LedgerTypeOK
  <2>2. ASSUME NEW o \in Pending, StrategyOf[o] = s
        PROVE  adopted[s] + net[s] >= 0
    <3>1. /\ o \in Orders /\ SideOf[o] \in {"buy", "sell"}
          /\ intents[o].before \in Nat /\ intents[o].requested \in Nat
          /\ FilledAt(o) \in Nat
      BY <1>1, SleeveAssumption, AnswerTypes
      DEF Pending, IInv, TypeOK, StoreTypeOK, BrokerTypeOK, LedgerTypeOK, IntentRow,
          FilledAt
    <3>2. /\ adopted[s] + net[s] = intents[o].before + Moved(o)
          /\ SideOf[o] = "sell" => intents[o].requested \in 1 .. intents[o].before
          /\ SideOf[o] = "sell" => FilledAt(o) <= intents[o].requested
      BY <1>1, <2>2, <3>1 DEF IInv, Books, IntentsFirst
    <3>3. intents[o].before + Moved(o) >= 0
      BY <3>1, <3>2 DEF Moved
    <3> QED
      BY <3>2, <3>3
  <2> QED
    BY <2>1, <2>2
<1> QED
  BY <1>1 DEF SellsOnlyItsOwn

\* No strategy sells more than it owns, at the broker and not only in the
\* ledger: the sale that is in flight asked for no more than its sleeve.
THEOREM OwnOnly == Spec => []SellsOnlyItsOwn
  BY OwnsInv, Inductive, PTL

\* When nothing is in flight and the first position is adopted, the sleeves add
\* up to the broker's position: the comparison that blocks both strategies
\* fails for no reason of their own.
THEOREM QuietMatches == Spec => []QuietLedgerMatches
<1>1. IInv => QuietLedgerMatches
  <2> SUFFICES ASSUME IInv, Pending = {}, Held = 0 \/ generation > 0
               PROVE  Total = Position
    BY DEF QuietLedgerMatches
  <2>1. /\ sleeves["sma"] = adopted["sma"] + net["sma"]
        /\ sleeves["rsi"] = adopted["rsi"] + net["rsi"]
    BY DEF IInv, Books, SleevesAreTrue, Strategies
  <2>2. /\ net["sma"] \in Int /\ net["rsi"] \in Int
        /\ adopted["sma"] \in Nat /\ adopted["rsi"] \in Nat
        /\ generation \in Nat /\ Held \in Nat
    BY CycleAssumption
    DEF IInv, TypeOK, StoreTypeOK, BrokerTypeOK, LedgerTypeOK, Strategies
  <2>3. adopted["sma"] + adopted["rsi"] = Held
    <3>1. CASE generation > 0
      BY <3>1 DEF IInv, Adoption
    <3>2. CASE generation = 0
      BY <2>2, <3>2 DEF IInv, Adoption, Strategies
    <3> QED
      BY <2>2, <3>1, <3>2
  <2> QED
    BY <2>1, <2>2, <2>3 DEF Total, Position
<1> QED
  BY <1>1, Inductive, PTL

\* The orders of one session day that reach the broker are within the cap,
\* whatever was repeated or overlapped: each of them has an intent of that day.
THEOREM CapHeld == Spec => []CapHolds
<1>1. ASSUME IInv, NEW d \in 0 .. today
      PROVE  Cardinality({o \in Orders : calls[o] > 0 /\ intents[o].session = d})
                <= SessionCap
  <2> DEFINE S == {o \in Orders : calls[o] > 0 /\ intents[o].session = d}
  <2>1. S \subseteq Reserved(d)
    BY <1>1 DEF IInv, IntentsFirst, Reserved
  <2>2. d \in Nat /\ IsFiniteSet(Reserved(d)) /\ SessionCap \in Nat
    BY <1>1, SleeveAssumption, FS_Subset DEF Reserved, IInv, TypeOK
  <2>3. Cardinality(Reserved(d)) <= SessionCap
    BY <1>1, <2>2 DEF IInv, WithinCap
  <2> HIDE DEF S
  <2>4. /\ Cardinality(S) <= Cardinality(Reserved(d))
        /\ Cardinality(S) \in Nat /\ Cardinality(Reserved(d)) \in Nat
    BY <2>1, <2>2, FS_Subset, FS_CardinalityType
  <2>5. Cardinality(S) <= SessionCap
    BY <2>2, <2>3, <2>4
  <2> QED
    BY <2>5 DEF S
<1>2. IInv => CapHolds
  BY <1>1 DEF CapHolds
<1> QED
  BY <1>2, Inductive, PTL

\* An order that is over can be settled by what the broker says of it, whatever
\* has happened since its intent was reserved: its sleeve is as it was, and what
\* an earlier settlement booked is the same result.
THEOREM AlwaysSettleable == Spec => []EndsAreSettleable
<1>1. ASSUME IInv, NEW o \in Orders, broker[o] \in FinalAnswers
      PROVE  SettleAdmitted(o, broker[o].status, broker[o].quantity)
  <2> DEFINE a == broker[o]
  <2>1. /\ a \in Answers /\ a.status \in FinalStatuses /\ a # Absent
        /\ a.status = "filled" => a.quantity > 0
    BY <1>1, AnswerTypes, CycleAssumption
  <2>2. intents[o].state \in {"none", "reserved", "applied", "terminal_no_fill"}
    BY <1>1 DEF IInv, TypeOK, StoreTypeOK, LedgerTypeOK, IntentRow
  <2>3. intents[o].state # "none"
    BY <1>1, <2>1 DEF IInv, IntentsFirst
  <2>4. CASE intents[o].state = "reserved"
    <3>1. /\ Sleeve(o) = intents[o].before
          /\ SideOf[o] = "sell" => intents[o].requested \in 1 .. intents[o].before
      BY <1>1, <2>4 DEF IInv, Books, Pending
    <3>2. SideOf[o] = "sell" => a.quantity <= intents[o].requested
      BY <1>1, <2>1 DEF IInv, IntentsFirst, FilledAt
    <3>3. /\ a.quantity \in Nat /\ intents[o].requested \in Nat
          /\ intents[o].before \in Nat
      BY <1>1, AnswerTypes, <2>1 DEF IInv, TypeOK, StoreTypeOK, LedgerTypeOK, IntentRow
    <3>4. SideOf[o] = "sell" => a.quantity <= Sleeve(o)
      BY <3>1, <3>2, <3>3
    <3> QED
      BY <2>1, <2>4, <3>1, <3>4 DEF SettleAdmitted
  <2>5. CASE Settled(o)
    <3>1. intents[o].status = a.status /\ intents[o].filled = a.quantity
      BY <1>1, <2>5 DEF IInv, IntentsFirst
    <3> QED
      BY <2>1, <2>5, <3>1 DEF SettleAdmitted, Settled
  <2> QED
    BY <2>2, <2>3, <2>4, <2>5 DEF Settled
<1>2. IInv => EndsAreSettleable
  BY <1>1 DEF EndsAreSettleable
<1> QED
  BY <1>2, Inductive, PTL

-----------------------------------------------------------------------------
(* The refinement: cycles over two stores and a broker are accounts that   *)
(* never mix.                                                              *)

OwnedWell == /\ Owned \in [Strategies -> Nat]
             /\ \A s \in Strategies : Owned[s] = adopted[s] + net[s]

LEMMA OwnedTypes == IInv => OwnedWell
<1> SUFFICES ASSUME IInv PROVE OwnedWell
  OBVIOUS
<1>1. \A s \in Strategies : adopted[s] \in Nat /\ net[s] \in Int
  BY DEF IInv, TypeOK, StoreTypeOK, BrokerTypeOK
<1>2. \A s \in Strategies : adopted[s] + net[s] >= 0
  BY OwnsInv DEF SellsOnlyItsOwn
<1> QED
  BY <1>1, <1>2 DEF Owned, OwnedWell

LEMMA OwnedTypesNext == (IInv => OwnedWell)'
  BY OwnedTypes, PTL

LEMMA AccountsInit == Init => Accounts!Init
<1> SUFFICES ASSUME Init PROVE Accounts!Init
  OBVIOUS
<1>1. /\ \A o \in Orders : intents[o].state = "none"
      /\ generation = 0
      /\ sleeves = [s \in Strategies |-> 0]
      /\ \A s \in Strategies : adopted[s] = 0 /\ net[s] = 0
  BY DEF Init, LedgerInit, NoIntent
<1>2. Pending = {} /\ SettledOrders = {}
  BY <1>1 DEF Pending, SettledOrders, Settled
<1>3. Owned = [s \in Strategies |-> 0]
  BY <1>1 DEF Owned
<1> QED
  BY <1>1, <1>2, <1>3 DEF Accounts!Init, Unowned

\* What the accounts do not show.
LEMMA AccountsStutter ==
    UNCHANGED <<sleeves, intents, generation, adopted, net>> => UNCHANGED Accounts!vars
  BY DEF Accounts!vars, Owned, Unowned, Pending, SettledOrders, Settled

\* The broker's answers of the order in flight are its fills.
LEMMA AccountsFill ==
    ASSUME IInv, IInv', NEW o \in Pending, NEW a \in Answers, Answered(o, a),
           a.quantity >= FilledAt(o), UNCHANGED storeVars
    PROVE  Accounts!Fill(o)
<1>1. o \in Orders /\ StrategyOf[o] \in Strategies /\ SideOf[o] \in {"buy", "sell"}
  BY SleeveAssumption DEF Pending
<1>2. /\ UNCHANGED <<sleeves, intents, generation, adopted>>
      /\ UNCHANGED <<Pending, SettledOrders, Unowned>>
  BY DEF storeVars, ledgerVars, Pending, SettledOrders, Settled, Unowned
<1>3. /\ Owned \in [Strategies -> Nat] /\ Owned' \in [Strategies -> Nat]
      /\ \A s \in Strategies : Owned[s] = adopted[s] + net[s]
      /\ \A s \in Strategies : Owned'[s] = adopted'[s] + net'[s]
  BY OwnedTypes, OwnedTypesNext DEF OwnedWell
<1>4. /\ net \in [Strategies -> Int] /\ adopted \in [Strategies -> Nat]
      /\ a.quantity \in Nat /\ FilledAt(o) \in Nat
  BY <1>1, AnswerTypes
  DEF IInv, TypeOK, StoreTypeOK, BrokerTypeOK, FilledAt
<1>5. /\ \A s \in Strategies : s # StrategyOf[o] => net'[s] = net[s]
      /\ SideOf[o] = "buy" =>
            net'[StrategyOf[o]] = net[StrategyOf[o]] + (a.quantity - FilledAt(o))
      /\ SideOf[o] = "sell" =>
            net'[StrategyOf[o]] = net[StrategyOf[o]] - (a.quantity - FilledAt(o))
  BY <1>1, <1>4 DEF Answered
<1>6. \A s \in Strategies : s # StrategyOf[o] => Owned'[s] = Owned[s]
  BY <1>2, <1>3, <1>5
<1>7. /\ SideOf[o] = "buy" => Owned'[StrategyOf[o]] >= Owned[StrategyOf[o]]
      /\ SideOf[o] = "sell" => Owned'[StrategyOf[o]] <= Owned[StrategyOf[o]]
  <2>1. /\ net[StrategyOf[o]] \in Int /\ adopted[StrategyOf[o]] \in Nat
        /\ Owned[StrategyOf[o]] = adopted[StrategyOf[o]] + net[StrategyOf[o]]
        /\ Owned'[StrategyOf[o]] = adopted[StrategyOf[o]] + net'[StrategyOf[o]]
    BY <1>1, <1>2, <1>3, <1>4
  <2> QED
    BY <1>4, <1>5, <2>1
<1>8. Owned' = [Owned EXCEPT ![StrategyOf[o]] = Owned'[StrategyOf[o]]]
  BY <1>1, <1>3, <1>6
<1>9. Owned'[StrategyOf[o]] \in Nat
  BY <1>1, <1>3
<1> QED
  BY <1>1, <1>2, <1>7, <1>8, <1>9 DEF Accounts!Fill

\* A settlement books the order in flight, or nothing.
LEMMA AccountsBook ==
    ASSUME IInv, IInv', NEW o \in Pending, Settles(o)
    PROVE  Accounts!Book(o)
<1>1. /\ o \in Orders /\ StrategyOf[o] \in Strategies
      /\ generation \in Nat /\ Held \in Nat
      /\ sleeves \in [Strategies -> Nat] /\ Owned \in [Strategies -> Nat]
      /\ broker[o].quantity \in Nat /\ Settled(o)' /\ intents[o].state = "reserved"
  <2>1. o \in Orders /\ intents[o].state = "reserved"
    BY DEF Pending
  <2>2. Settled(o)'
    BY <2>1, SettleEffect DEF IInv, Settled
  <2>3. broker[o].quantity \in Nat
    BY AnswerTypes DEF Settles
  <2> QED
    BY <2>1, <2>2, <2>3, SleeveAssumption, CycleAssumption, OwnedTypes
    DEF IInv, TypeOK, StoreTypeOK, LedgerTypeOK, OwnedWell
<1>2. /\ Pending' = {}
      /\ \A p \in Orders : p # o => intents'[p] = intents[p]
  BY <1>1, SettleEffect DEF IInv, OnePending
<1>3. SettledOrders' = SettledOrders \cup {o}
  BY <1>1, <1>2 DEF SettledOrders, Settled
<1>4. UNCHANGED <<adopted, net>>
  BY DEF Settles, brokerVars
<1>5. Owned' = Owned
  BY <1>4 DEF Owned
<1>6. Unowned' = Unowned
  <2>1. generation = 0 => Held = 0
    BY <1>1 DEF IInv, Adoption
  <2>2. generation' = generation \/ generation' = generation + 1
    BY DEF Settles, SettleIntent
  <2> QED
    BY <1>1, <2>1, <2>2 DEF Unowned
<1>7. sleeves' = [sleeves EXCEPT ![StrategyOf[o]] = Owned[StrategyOf[o]]]
  <2>1. sleeves' \in [Strategies -> Nat]
    BY DEF IInv, TypeOK, StoreTypeOK, LedgerTypeOK
  <2>2. sleeves'[StrategyOf[o]] = Owned[StrategyOf[o]]
    <3>1. sleeves'[StrategyOf[o]] = adopted'[StrategyOf[o]] + net'[StrategyOf[o]]
      BY <1>1, <1>2 DEF IInv, Books, SleevesAreTrue
    <3> QED
      BY <1>1, <1>4, <3>1 DEF Owned
  <2>3. ASSUME NEW s \in Strategies, s # StrategyOf[o]
        PROVE  sleeves'[s] = sleeves[s]
    BY <1>1, <2>3 DEF Settles, SettleIntent
  <2> QED
    BY <1>1, <2>1, <2>2, <2>3
<1> QED
  BY <1>2, <1>3, <1>5, <1>6, <1>7 DEF Accounts!Book

\* A reserved intent is the order that is opened.
LEMMA AccountsOpen ==
    ASSUME IInv, NEW r \in Runs, ReserveOwnership(r)
    PROVE  \E o \in Orders : Accounts!Open(o)
<1>1. PICK o \in Orders : o = plan[r]
  BY OwnershipEffect DEF IInv
<1>2. /\ intents[o].state = "none" /\ Pending = {} /\ Pending' = {o}
      /\ UNCHANGED <<sleeves, generation, adopted, net>>
      /\ \A p \in Orders : p # o => intents'[p] = intents[p]
  BY <1>1, OwnershipEffect DEF IInv, brokerVars, TypeOK, StoreTypeOK, LedgerTypeOK
<1>3. intents'[o].state = "reserved"
  BY <1>2 DEF Pending
<1>4. SettledOrders' = SettledOrders /\ o \notin SettledOrders
  BY <1>2, <1>3 DEF SettledOrders, Settled
<1>5. Owned' = Owned /\ Unowned' = Unowned
  BY <1>2 DEF Owned, Unowned
<1>6. Unowned = 0
  <2>1. plan[r] # NoOrder /\ generation \in Nat /\ Held \in Nat
    BY <1>1, CycleAssumption DEF IInv, TypeOK, StoreTypeOK, LedgerTypeOK
  <2>2. ~(generation = 0 /\ Held > 0)
    BY <2>1 DEF IInv, Adoption
  <2> QED
    BY <2>1, <2>2 DEF Unowned
<1>7. Accounts!Open(o)
  BY <1>2, <1>4, <1>5, <1>6 DEF Accounts!Open
<1> QED
  BY <1>7

LEMMA AccountsAdopt ==
    ASSUME IInv, NEW r \in Runs, AdoptPosition(r)
    PROVE  \E s \in Strategies : Accounts!Adopt(s)
<1>1. /\ active[r] \in Strategies /\ generation = 0 /\ Held \in Nat
      /\ pc[r] \in Told /\ position[r] > 0
      /\ sleeves' = [sleeves EXCEPT ![active[r]] = position[r]]
      /\ adopted' = [adopted EXCEPT ![active[r]] = position[r]]
      /\ generation' = 1
      /\ UNCHANGED <<intents, net>>
  BY CycleAssumption
  DEF AdoptPosition, AdoptAdmitted, Adopt, IInv, TypeOK, RunTypeOK, Told, brokerVars
<1>2. /\ Pending = {}
      /\ \A s \in Strategies : net[s] = 0 /\ adopted[s] = 0
  BY AdoptedBooks DEF IInv
<1>3. Held > 0
  BY <1>1, <1>2 DEF IInv, Adoption
<1>4. /\ position[r] = Held
      /\ \A o \in Orders : intents[o].state = "none"
      /\ \A s \in Strategies : sleeves[s] = 0
  BY <1>1, <1>3 DEF IInv, Adoption
<1>5. /\ SettledOrders = {} /\ SettledOrders' = {} /\ Pending' = {}
      /\ Unowned = Held /\ Unowned' = 0
  BY <1>1, <1>2, <1>4 DEF SettledOrders, Settled, Pending, Unowned
<1>6. sleeves' = [sleeves EXCEPT ![active[r]] = sleeves[active[r]] + Held]
  <2>1. sleeves[active[r]] + Held = position[r]
    BY <1>1, <1>4
  <2> QED
    BY <1>1, <2>1
<1>7. Owned' = [Owned EXCEPT ![active[r]] = Owned[active[r]] + Held]
  <2>1. adopted \in [Strategies -> Nat] /\ net \in [Strategies -> Int]
    BY DEF IInv, TypeOK, StoreTypeOK, BrokerTypeOK
  <2>2. Owned' = [s \in Strategies |-> adopted'[s] + net[s]]
    BY <1>1 DEF Owned
  <2>3. \A s \in Strategies : Owned[s] = 0
    BY <1>2, <2>1 DEF Owned
  <2>4. \A s \in Strategies : adopted'[s] = IF s = active[r] THEN Held ELSE 0
    BY <1>1, <1>2, <1>4, <2>1
  <2> DEFINE moved == [Owned EXCEPT ![active[r]] = Owned[active[r]] + Held]
  <2>5. \A s \in Strategies : moved[s] = IF s = active[r] THEN Held ELSE 0
    BY <1>1, <2>3 DEF Owned
  <2>6. \A s \in Strategies : Owned'[s] = IF s = active[r] THEN Held ELSE 0
    BY <1>1, <1>2, <2>2, <2>4
  <2>7. moved = [s \in Strategies |-> moved[s]] /\ Owned' = [s \in Strategies |-> Owned'[s]]
    BY <2>2 DEF Owned
  <2> HIDE DEF moved
  <2>8. Owned' = moved
    BY <2>5, <2>6, <2>7
  <2> QED
    BY <2>8 DEF moved
<1>8. Accounts!Adopt(active[r])
  BY <1>2, <1>3, <1>5, <1>6, <1>7 DEF Accounts!Adopt
<1> QED
  BY <1>1, <1>8

LEMMA AccountsStep == IInv /\ IInv' /\ [Next]_vars => [Accounts!Next]_(Accounts!vars)
<1> SUFFICES ASSUME IInv, IInv', [Next]_vars
             PROVE  Accounts!Next \/ UNCHANGED Accounts!vars
  OBVIOUS
<1>1. ASSUME NEW o \in Orders, Settles(o)
      PROVE  Accounts!Book(o) \/ UNCHANGED Accounts!vars
  <2>1. CASE o \in Pending
    BY <1>1, <2>1, AccountsBook
  <2>2. CASE o \notin Pending
    <3>1. UNCHANGED <<sleeves, intents, generation, adopted, net>>
      BY <1>1, <2>2, SettleEffect DEF IInv, Settles, ledgerVars, brokerVars
    <3> QED
      BY <3>1, AccountsStutter
  <2> QED
    BY <2>1, <2>2
<1>2. ASSUME NEW o \in Orders, BrokerMoves(o)
      PROVE  Accounts!Fill(o)
  <2>1. broker[o] # Absent /\ broker[o] \notin FinalAnswers
    BY <1>2, CycleAssumption DEF BrokerMoves
  <2>2. o \in Pending
    BY <2>1 DEF IInv, IntentsFirst, Settled, Pending, TypeOK, StoreTypeOK,
                LedgerTypeOK, IntentRow
  <2>3. /\ UNCHANGED storeVars
        /\ \E a \in Answers : a.quantity >= FilledAt(o) /\ Answered(o, a)
    BY <1>2, <2>1 DEF BrokerMoves, FilledAt
  <2> QED
    BY <2>2, <2>3, AccountsFill
<1>3. ASSUME NEW r \in Runs, CallBroker(r)
      PROVE  \/ \E o \in Orders : Accounts!Fill(o)
             \/ UNCHANGED Accounts!vars
  <2>1. PICK o \in Pending : o = plan[r]
    BY <1>3, CallEffect DEF IInv
  <2>2. /\ broker[o] = Absent /\ UNCHANGED storeVars
        /\ UNCHANGED <<broker, net>> \/ \E a \in Answers : Answered(o, a)
    BY <1>3, <2>1, CallEffect DEF IInv
  <2>3. \A a \in Answers : a.quantity >= FilledAt(o)
    BY <2>2, AnswerTypes DEF FilledAt
  <2>4. CASE \E a \in Answers : Answered(o, a)
    BY <2>2, <2>3, <2>4, AccountsFill DEF Pending
  <2>5. CASE UNCHANGED <<broker, net>>
    BY <2>2, <2>5, AccountsStutter DEF storeVars, ledgerVars
  <2> QED
    BY <2>2, <2>4, <2>5
<1>4. ASSUME NEW r \in Runs, Record(r) \/ ReserveRow(r) \/ Claim(r)
      PROVE  UNCHANGED Accounts!vars
  BY <1>4, AccountsStutter DEF Record, ReserveRow, Claim, ledgerVars, brokerVars
<1>5. UNCHANGED <<storeVars, brokerVars>> => UNCHANGED Accounts!vars
  BY AccountsStutter DEF storeVars, ledgerVars, brokerVars
<1>6. \/ UNCHANGED <<storeVars, brokerVars>>
      \/ \E o \in Orders : Settles(o) \/ BrokerMoves(o)
      \/ \E r \in Runs : \/ Record(r) \/ ReserveRow(r) \/ ReserveOwnership(r)
                         \/ Claim(r) \/ CallBroker(r) \/ AdoptPosition(r)
  BY StoreSteps DEF IInv
<1>7. Accounts!Next <=> \/ \E s \in Strategies : Accounts!Adopt(s)
                        \/ \E o \in Orders : \/ Accounts!Open(o) \/ Accounts!Fill(o)
                                             \/ Accounts!Book(o)
  BY DEF Accounts!Next
<1> QED
  BY <1>1, <1>2, <1>3, <1>4, <1>5, <1>6, <1>7, AccountsOpen, AccountsAdopt

\* Two strategies that share a position, a journal, a lease and a ledger keep
\* accounts that never mix, for any number of orders, runs and crashes: what is
\* reserved, filled and settled is an order opened, filled and booked.
THEOREM SleeveRefinement == Spec => ImplementsStrategyAccounts
  BY AccountsInit, AccountsStep, Inductive, PTL
  DEF Spec, ImplementsStrategyAccounts, Accounts!Spec

-----------------------------------------------------------------------------
(* Refinement of SerialSubmission.                                         *)

\* An order is claimed before it is called for, and called for once.
Called ==
    /\ \A o \in Orders :
          /\ rows[o].state \in {"none", "reserved"} => calls[o] = 0
          /\ broker[o] # Absent => calls[o] > 0
          /\ calls[o] <= 1
    /\ \A r \in Runs : pc[r] = "claimed" => calls[plan[r]] = 0

\* What each step makes of the claims, the calls and the ends.
LEMMA RecordSerial ==
    ASSUME IInv, NEW r \in Runs, Record(r)
    PROVE  /\ UNCHANGED <<ClaimedOrders, broker, calls>>
           /\ \A p \in Orders : rows'[p].state \in {"none", "reserved"} =>
                  rows[p].state \in {"none", "reserved"}
<1>1. PICK o \in todo[r] : rows' = [rows EXCEPT ![o] = [state |-> "observed",
                                                      answer |-> seen[r][o]]]
  BY DEF Record
<1>2. o \in Orders /\ rows \in [Orders -> RowOf]
  BY DEF IInv, TypeOK, RunTypeOK, StoreTypeOK
<1>3. broker[o] # Absent
  BY <1>2 DEF IInv, ToldTrue
<1>4. rows[o].state \in {"submit_attempted", "observed"}
  BY <1>2, <1>3 DEF IInv, RowsInOrder, RowOf
<1>5. rows'[o].state = "observed" /\ \A p \in Orders : p # o => rows'[p] = rows[p]
  BY <1>1, <1>2
<1>6. UNCHANGED <<broker, calls>>
  BY DEF Record, brokerVars
<1> QED
  BY <1>4, <1>5, <1>6 DEF ClaimedOrders

LEMMA ReserveRowSerial ==
    ASSUME IInv, NEW r \in Runs, ReserveRow(r)
    PROVE  /\ UNCHANGED <<ClaimedOrders, broker, calls>>
           /\ \A p \in Orders : rows'[p].state \in {"none", "reserved"} =>
                  rows[p].state \in {"none", "reserved"}
<1>1. plan[r] \in Orders /\ rows \in [Orders -> RowOf]
  BY DEF ReserveRow, IInv, Plans, Working, TypeOK, RunTypeOK, StoreTypeOK
<1>2. /\ rows[plan[r]].state = "none" /\ rows'[plan[r]].state = "reserved"
      /\ \A p \in Orders : p # plan[r] => rows'[p] = rows[p]
  BY <1>1 DEF ReserveRow, RowOf
<1>3. UNCHANGED <<broker, calls>>
  BY DEF ReserveRow, brokerVars
<1> QED
  BY <1>2, <1>3 DEF ClaimedOrders

LEMMA ClaimSerial ==
    ASSUME IInv, Called, NEW r \in Runs, Claim(r)
    PROVE  /\ plan[r] \in Orders /\ calls[plan[r]] = 0
           /\ UNCHANGED <<broker, calls>>
           /\ ClaimedOrders' = ClaimedOrders \cup {plan[r]}
           /\ plan[r] \notin ClaimedOrders
           /\ ClaimedOrders \subseteq EndedOrders
           /\ \A p \in Orders : rows'[p].state \in {"none", "reserved"} =>
                  rows[p].state \in {"none", "reserved"}
<1>1. plan[r] \in Orders /\ rows \in [Orders -> RowOf]
  BY DEF Claim, IInv, Plans, Working, TypeOK, RunTypeOK, StoreTypeOK
<1>2. /\ rows[plan[r]].state = "reserved"
      /\ rows'[plan[r]].state = "submit_attempted"
      /\ \A p \in Orders : p # plan[r] => rows'[p] = rows[p]
  BY <1>1 DEF Claim, RowOf
<1>3. \A p \in ClaimedOrders : rows[p].answer \in FinalAnswers
  BY <1>2 DEF Claim, Unresolved, RowTerminal, ClaimedOrders
<1>4. ClaimedOrders \subseteq EndedOrders
  BY <1>3 DEF ClaimedOrders, EndedOrders, IInv, RowsInOrder
<1>5. UNCHANGED <<broker, calls>>
  BY DEF Claim, brokerVars
<1> QED
  BY <1>1, <1>2, <1>4, <1>5 DEF ClaimedOrders, Called

LEMMA CallSerial ==
    ASSUME IInv, Called, NEW r \in Runs, CallBroker(r)
    PROVE  /\ plan[r] \in ClaimedOrders
           /\ calls[plan[r]] = 0
           /\ calls' = [calls EXCEPT ![plan[r]] = 1]
           /\ rows' = rows /\ pc'[r] # "claimed"
           /\ \A p \in Orders : p # plan[r] => broker'[p] = broker[p]
           /\ broker[plan[r]] = Absent
<1>1. /\ plan[r] \in Pending /\ rows[plan[r]].state = "submit_attempted"
      /\ broker[plan[r]] = Absent /\ UNCHANGED storeVars
      /\ \/ UNCHANGED <<broker, net>>
         \/ \E a \in Answers : Answered(plan[r], a)
  BY CallEffect DEF IInv
<1>2. plan[r] \in Orders
  BY <1>1 DEF Pending
<1>3. calls[plan[r]] = 0
  BY DEF CallBroker, Called
<1>4. calls' = [calls EXCEPT ![plan[r]] = 1]
  BY <1>3 DEF CallBroker
<1>5. \A p \in Orders : p # plan[r] => broker'[p] = broker[p]
  BY <1>1, <1>2, AnsweredEffect DEF IInv
<1>6. pc'[r] # "claimed"
  BY DEF CallBroker, Goto, IInv, TypeOK, RunTypeOK
<1> QED
  BY <1>1, <1>2, <1>3, <1>4, <1>5, <1>6 DEF ClaimedOrders, storeVars

\* The broker's own move ends an order that was called for, or none.
LEMMA MoveSerial ==
    ASSUME IInv, NEW o \in Orders, BrokerMoves(o)
    PROVE  /\ broker[o] # Absent /\ UNCHANGED <<rows, calls>>
           /\ EndedOrders' \in {EndedOrders, EndedOrders \cup {o}}
           /\ \A p \in Orders : p # o => broker'[p] = broker[p]
<1>1. broker[o] # Absent /\ broker[o] \notin FinalAnswers /\ UNCHANGED <<rows, calls>>
  BY CycleAssumption DEF BrokerMoves, storeVars
<1>2. PICK a \in Answers : Answered(o, a)
  BY DEF BrokerMoves
<1>3. \A p \in Orders : p # o => broker'[p] = broker[p]
  BY <1>2, AnsweredEffect DEF IInv
<1>4. \A p \in Orders : p # o => (p \in EndedOrders' <=> p \in EndedOrders)
  BY <1>3 DEF EndedOrders
<1>5. EndedOrders \subseteq Orders /\ EndedOrders' \subseteq Orders /\ o \notin EndedOrders
  BY <1>1 DEF EndedOrders
<1> QED
  BY <1>1, <1>3, <1>4, <1>5

\* A step claims, calls, moves the broker, or does nothing of the three.
LEMMA SerialSteps ==
    ASSUME IInv, [Next]_vars
    PROVE  \/ /\ UNCHANGED <<ClaimedOrders, broker, calls>>
              /\ \A p \in Orders : rows'[p].state \in {"none", "reserved"} =>
                     rows[p].state \in {"none", "reserved"}
           \/ \E o \in Orders : BrokerMoves(o)
           \/ \E r \in Runs : Claim(r) \/ CallBroker(r)
<1>1. CASE UNCHANGED <<storeVars, brokerVars>>
  BY <1>1 DEF storeVars, brokerVars, ClaimedOrders
<1>2. CASE \/ \E o \in Orders : Settles(o)
           \/ \E r \in Runs : ReserveOwnership(r) \/ AdoptPosition(r)
  BY <1>2 DEF Settles, ReserveOwnership, AdoptPosition, brokerVars, ClaimedOrders
<1>3. CASE \E r \in Runs : Record(r) \/ ReserveRow(r)
  BY <1>3, RecordSerial, ReserveRowSerial
<1> QED
  BY <1>1, <1>2, <1>3, StoreSteps DEF IInv

LEMMA CalledInit == Init => Called
<1> SUFFICES ASSUME Init PROVE Called
  OBVIOUS
<1>1. \A o \in Orders : broker[o] = Absent /\ calls[o] = 0
  BY DEF Init, NothingSeen
<1>2. \A r \in Runs : pc[r] = "idle"
  BY DEF Init
<1> QED
  BY <1>1, <1>2 DEF Called

LEMMA CalledStep == IInv /\ Called /\ [Next]_vars => Called'
<1> SUFFICES ASSUME IInv, Called, [Next]_vars PROVE Called'
  OBVIOUS
<1>0. calls \in [Orders -> Nat]
  BY DEF IInv, TypeOK, BrokerTypeOK
<1>1. ASSUME NEW o \in Orders
      PROVE  /\ rows'[o].state \in {"none", "reserved"} => calls'[o] = 0
             /\ broker'[o] # Absent => calls'[o] > 0
             /\ calls'[o] <= 1
  <2>1. CASE /\ UNCHANGED <<ClaimedOrders, broker, calls>>
             /\ \A p \in Orders : rows'[p].state \in {"none", "reserved"} =>
                    rows[p].state \in {"none", "reserved"}
    BY <2>1 DEF Called
  <2>2. CASE \E p \in Orders : BrokerMoves(p)
    BY <2>2, MoveSerial DEF Called
  <2>3. CASE \E r \in Runs : Claim(r)
    BY <2>3, ClaimSerial DEF Called
  <2>4. ASSUME NEW r \in Runs, CallBroker(r)
        PROVE  /\ rows'[o].state \in {"none", "reserved"} => calls'[o] = 0
               /\ broker'[o] # Absent => calls'[o] > 0
               /\ calls'[o] <= 1
    <3>1. CASE o = plan[r]
      <4>1. calls'[o] = 1 /\ o \in ClaimedOrders /\ rows' = rows
        BY <1>0, <2>4, <3>1, CallSerial
      <4> QED
        BY <4>1 DEF ClaimedOrders
    <3>2. CASE o # plan[r]
      <4>1. calls'[o] = calls[o] /\ broker'[o] = broker[o] /\ rows' = rows
        BY <1>0, <2>4, <3>2, CallSerial
      <4> QED
        BY <4>1 DEF Called
    <3> QED
      BY <3>1, <3>2
  <2> QED
    BY <2>1, <2>2, <2>3, <2>4, SerialSteps
<1>2. ASSUME NEW q \in Runs, pc'[q] = "claimed"
      PROVE  calls'[plan'[q]] = 0
  <2>1. CASE CycleStep(q)
    <3>1. Claim(q) /\ plan'[q] = plan[q]
      BY <1>2, <2>1, EarlySteps DEF Early, IInv
    <3> QED
      BY <3>1, ClaimSerial
  <2>2. CASE Same(q)
    <3>1. pc[q] = "claimed" /\ plan'[q] = plan[q] /\ calls[plan[q]] = 0
      BY <1>2, <2>2 DEF Same, Called
    <3>2. ASSUME NEW r \in Runs, CallBroker(r)
          PROVE  calls'[plan[q]] = 0
      <4>1. r # q /\ pc[r] = "claimed"
        BY <1>2, <3>2, CallSerial DEF CallBroker
      <4>2. plan[r] # plan[q]
        BY <3>1, <4>1 DEF IInv, Alone
      <4>3. plan[q] \in Pending
        BY <3>1 DEF IInv, Progress
      <4>4. plan[q] \in Orders
        BY <4>3 DEF Pending
      <4> QED
        BY <1>0, <3>1, <3>2, <4>2, <4>4, CallSerial
    <3>3. CASE calls' = calls
      BY <3>1, <3>3
    <3>4. calls' = calls \/ \E r \in Runs : CallBroker(r)
      BY SerialSteps, MoveSerial, ClaimSerial
    <3> QED
      BY <3>1, <3>2, <3>3, <3>4
  <2> QED
    BY <2>1, <2>2, RunSteps DEF IInv
<1> QED
  BY <1>1, <1>2 DEF Called

LEMMA AllCalled == Spec => []Called
  BY CalledInit, CalledStep, Inductive, PTL DEF Spec

\* submit_order is called once for a client order id, whatever stands between
\* the row and its claim: an intent that is refused, a second task, a crash.
THEOREM SleeveSubmitsOnce == Spec => [](\A o \in Orders : calls[o] <= 1)
<1>1. Called => \A o \in Orders : calls[o] <= 1
  BY DEF Called
<1> QED
  BY <1>1, AllCalled, PTL

LEMMA SerialInit == Init => Serial!Init
<1> SUFFICES ASSUME Init PROVE Serial!Init
  OBVIOUS
<1>1. \A o \in Orders : rows[o].state = "none" /\ broker[o] = Absent
  BY DEF Init, NothingSeen
<1>2. ClaimedOrders = {} /\ EndedOrders = {}
  BY <1>1, AnswerTypes DEF ClaimedOrders, EndedOrders
<1> QED
  BY <1>2 DEF Serial!Init, Init

LEMMA SerialStep == IInv /\ Called /\ [Next]_vars => [Serial!Next]_(Serial!vars)
<1> SUFFICES ASSUME IInv, Called, [Next]_vars
             PROVE  Serial!Next \/ UNCHANGED Serial!vars
  OBVIOUS
<1>1. CASE UNCHANGED <<ClaimedOrders, broker, calls>>
  BY <1>1 DEF Serial!vars, EndedOrders
<1>2. ASSUME NEW r \in Runs, Claim(r)
      PROVE  Serial!Next
  <2>1. EndedOrders' = EndedOrders
    BY <1>2, ClaimSerial DEF EndedOrders
  <2>2. Serial!Claim(plan[r])
    BY <1>2, <2>1, ClaimSerial DEF Serial!Claim
  <2> QED
    BY <1>2, <2>2, ClaimSerial DEF Serial!Next
<1>3. ASSUME NEW r \in Runs, CallBroker(r)
      PROVE  Serial!Next
  <2>1. /\ plan[r] \in ClaimedOrders /\ ClaimedOrders' = ClaimedOrders
        /\ calls[plan[r]] = 0 /\ calls' = [calls EXCEPT ![plan[r]] = 1]
    BY <1>3, CallSerial DEF ClaimedOrders
  <2>2. /\ plan[r] \notin EndedOrders
        /\ \A p \in Orders : p # plan[r] => (p \in EndedOrders' <=> p \in EndedOrders)
    BY <1>3, CallSerial, AnswerTypes DEF EndedOrders
  <2>3. EndedOrders \subseteq Orders /\ EndedOrders' \subseteq Orders
        /\ ClaimedOrders \subseteq Orders
    BY DEF EndedOrders, ClaimedOrders
  <2>4. EndedOrders' \in {EndedOrders, EndedOrders \cup {plan[r]}}
    BY <2>2, <2>3
  <2>5. Serial!Submit(plan[r])
    BY <2>1, <2>4 DEF Serial!Submit
  <2> QED
    BY <2>1, <2>3, <2>5 DEF Serial!Next
<1>4. ASSUME NEW o \in Orders, BrokerMoves(o)
      PROVE  Serial!Next \/ UNCHANGED Serial!vars
  <2>1. /\ calls[o] > 0 /\ UNCHANGED <<ClaimedOrders, calls>>
        /\ EndedOrders' \in {EndedOrders, EndedOrders \cup {o}}
    BY <1>4, MoveSerial DEF Called, ClaimedOrders
  <2>2. CASE EndedOrders' = EndedOrders
    BY <2>1, <2>2 DEF Serial!vars
  <2>3. CASE EndedOrders' = EndedOrders \cup {o}
    BY <2>1, <2>3 DEF Serial!Next, Serial!Settle
  <2> QED
    BY <2>1, <2>2, <2>3
<1> QED
  BY <1>1, <1>2, <1>3, <1>4, SerialSteps

\* The cycles with sleeves keep what the submit coordinator promises without
\* them, for any orders, runs and answers: claimed rows, calls and ended orders
\* move as in SerialSubmission, whatever the ledger refuses in between.
THEOREM SleevesSubmitSerially == Spec => ImplementsSerialSubmission
  BY SerialInit, SerialStep, AllCalled, Inductive, PTL
  DEF Spec, ImplementsSerialSubmission, Serial!Spec

\* What SerialSubmission promises of its own variables.
OneAtATime ==
    /\ ClaimedOrders \subseteq Orders
    /\ \A o, p \in ClaimedOrders \ EndedOrders : o = p

LEMMA SerialKeepsOne == OneAtATime /\ [Serial!Next]_(Serial!vars) => OneAtATime'
<1> SUFFICES ASSUME OneAtATime, [Serial!Next]_(Serial!vars)
             PROVE  OneAtATime'
  OBVIOUS
<1>1. CASE UNCHANGED Serial!vars
  BY <1>1 DEF Serial!vars, OneAtATime
<1>2. ASSUME NEW o \in Orders, Serial!Claim(o)
      PROVE  OneAtATime'
  BY <1>2 DEF Serial!Claim, OneAtATime
<1>3. ASSUME NEW o \in Orders, Serial!Submit(o) \/ Serial!Settle(o)
      PROVE  OneAtATime'
  <2>1. ClaimedOrders' = ClaimedOrders /\ EndedOrders \subseteq EndedOrders'
    BY <1>3 DEF Serial!Submit, Serial!Settle
  <2> QED
    BY <2>1 DEF OneAtATime
<1> QED
  BY <1>1, <1>2, <1>3 DEF Serial!Next

\* No two orders of either strategy are out at the broker, or of unknown fate,
\* together: what the abstract specification promises, carried over to the cycles.
THEOREM SleevesOneAtATime ==
    Spec => [](\A o, p \in ClaimedOrders \ EndedOrders : o = p)
<1>1. Serial!Init => OneAtATime
  BY DEF Serial!Init, OneAtATime
<1>2. OneAtATime => \A o, p \in ClaimedOrders \ EndedOrders : o = p
  BY DEF OneAtATime
<1> QED
  BY <1>1, <1>2, SerialKeepsOne, SleevesSubmitSerially, PTL
  DEF ImplementsSerialSubmission, Serial!Spec
=============================================================================
