---------------------------- MODULE SleeveCycle ----------------------------
(***************************************************************************)
(* Cycles of run_paper_autopilot_loop with strategy sleeves enabled: two   *)
(* scheduled tasks, one per strategy, share one SPY position, one order    *)
(* journal and one sleeve ledger.                                          *)
(*                                                                         *)
(* The two stores are separate databases.  A cycle settles the intents     *)
(* that an earlier one left pending, compares what the sleeves own with    *)
(* the position the broker reported, reserves a journal row and then an    *)
(* intent, claims the row, calls the broker, records what it answered and  *)
(* settles its own intent.  It takes one transaction or one broker query   *)
(* per step and stops anywhere; a lease that expires lets the other task   *)
(* start while it goes on.                                                 *)
(*                                                                         *)
(* The journal's rows and the lease are those of DurableSubmit, reduced to *)
(* what the sleeves depend on: whether a row is unresolved, the answer it  *)
(* stores, and who holds the lease.  Which cycle overlaps which is left    *)
(* open: an earlier holder may always have let its lease expire.           *)
(***************************************************************************)
EXTENDS SleeveLedger, Integers

CONSTANTS
    Runs,       \* processes that run one cycle after another
    Scheduled,  \* those that fairness says something of
    NoRun,      \* nobody holds the lease
    NoOrder,    \* a cycle that plans no order
    Absent,     \* an order the broker does not know, or did not list
    Answers,    \* what the broker may say of an order: a status and a quantity
    Held,       \* the position before the first cycle, owned by no strategy
    MaxDay      \* bound on the session days, for model checking

VARIABLES
    today,      \* the UTC session day
    holder,     \* the run that holds the runtime lease
    rows,       \* the orders table of the journal
    broker,     \* the orders at the broker
    net,        \* history: what each strategy's orders have bought less sold
    adopted,    \* history: what each strategy adopted
    calls,      \* history: how often submit_order was called for an order
    pc,         \* where each run is
    day,        \* the session day of the run's timestamp
    active,     \* the strategy it works for
    position,   \* the position it was told
    seen,       \* the orders it was told
    plan,       \* the order it plans
    quantity,   \* what its sleeve owned when it planned
    todo,       \* the rows it has still to record
    found       \* the end of a pending intent's order, as it read it

FinalAnswers == {a \in Answers : a.status \in FinalStatuses}

NoFind == [order |-> NoOrder, answer |-> Absent]

ASSUME CycleAssumption ==
    /\ NoRun \notin Runs
    /\ Scheduled \subseteq Runs
    /\ NoOrder \notin Orders
    /\ Answers \subseteq [status : FinalStatuses \cup {"open"}, quantity : Nat]
    /\ Absent \notin Answers
    /\ \A a \in Answers : (a.status = "filled" => a.quantity > 0)
    /\ \A a \in Answers : (a.status = "rejected" => a.quantity = 0)
    /\ Held \in Nat
    /\ MaxDay \in Nat

brokerVars == <<broker, net, calls>>
storeVars  == <<ledgerVars, rows, adopted>>
toldVars   == <<position, seen>>
planVars   == <<day, active, plan, quantity>>
runVars    == <<pc, planVars, toldVars, todo, found>>

vars == <<today, holder, storeVars, brokerVars, runVars>>

Phases == {"idle", "leased", "counted", "listed", "settling", "settled",
           "planned", "startup", "preparing", "reserving", "reserved", "owned", "claimed",
           "response", "called", "post", "closing", "releasing"}

\* The state of a row that was observed is the answer it stores.
RowOf == [state : {"none", "reserved", "submit_attempted", "observed"},
          answer : Answers \cup {Absent}]

StoreTypeOK ==
    /\ LedgerTypeOK
    /\ rows \in [Orders -> RowOf]
    /\ adopted \in [Strategies -> Nat]

BrokerTypeOK ==
    /\ broker \in [Orders -> Answers \cup {Absent}]
    /\ net \in [Strategies -> Int]
    /\ calls \in [Orders -> Nat]

RunTypeOK ==
    /\ pc \in [Runs -> Phases]
    /\ day \in [Runs -> Nat]
    /\ active \in [Runs -> Strategies]
    /\ position \in [Runs -> Int]
    /\ seen \in [Runs -> [Orders -> Answers \cup {Absent}]]
    /\ plan \in [Runs -> Orders \cup {NoOrder}]
    /\ quantity \in [Runs -> Nat]
    /\ todo \in [Runs -> SUBSET Orders]
    /\ found \in [Runs -> [order : Orders \cup {NoOrder},
                           answer : Answers \cup {Absent}]]

TypeOK == /\ StoreTypeOK /\ BrokerTypeOK /\ RunTypeOK
          /\ today \in Nat
          /\ holder \in Runs \cup {NoRun}

NothingSeen == [o \in Orders |-> Absent]

Init ==
    /\ LedgerInit
    /\ today = 0
    /\ holder = NoRun
    /\ rows = [o \in Orders |-> [state |-> "none", answer |-> Absent]]
    /\ broker = NothingSeen
    /\ net = [s \in Strategies |-> 0]
    /\ adopted = [s \in Strategies |-> 0]
    /\ calls = [o \in Orders |-> 0]
    /\ pc = [r \in Runs |-> "idle"]
    /\ day = [r \in Runs |-> 0]
    /\ active = [r \in Runs |-> "sma"]
    /\ position = [r \in Runs |-> 0]
    /\ seen = [r \in Runs |-> NothingSeen]
    /\ plan = [r \in Runs |-> NoOrder]
    /\ quantity = [r \in Runs |-> 0]
    /\ todo = [r \in Runs |-> {}]
    /\ found = [r \in Runs |-> NoFind]

Goto(r, phase) == pc' = [pc EXCEPT ![r] = phase]

\* The run goes on without anything it knows.
Forget(r, phase) ==
    /\ Goto(r, phase)
    /\ day' = [day EXCEPT ![r] = 0]
    /\ active' = [active EXCEPT ![r] = "sma"]
    /\ position' = [position EXCEPT ![r] = 0]
    /\ seen' = [seen EXCEPT ![r] = NothingSeen]
    /\ plan' = [plan EXCEPT ![r] = NoOrder]
    /\ quantity' = [quantity EXCEPT ![r] = 0]
    /\ todo' = [todo EXCEPT ![r] = {}]
    /\ found' = [found EXCEPT ![r] = NoFind]

-----------------------------------------------------------------------------
(* The broker and the journal.                                             *)

Position == Held + net["sma"] + net["rsi"]

FilledAt(o) == IF broker[o] = Absent THEN 0 ELSE broker[o].quantity

\* A sale never sells more than it asked for, and is filled when it sold that.
MayAnswer(o, a) ==
    SideOf[o] = "sell" => /\ a.quantity <= intents[o].requested
                          /\ a.status = "filled" => a.quantity = intents[o].requested

Answered(o, a) ==
    /\ MayAnswer(o, a)
    /\ broker' = [broker EXCEPT ![o] = a]
    /\ net' = [net EXCEPT ![StrategyOf[o]] =
                  IF SideOf[o] = "buy" THEN @ + (a.quantity - FilledAt(o))
                                       ELSE @ - (a.quantity - FilledAt(o))]

RowTerminal(o) == rows[o].answer \in FinalAnswers

Unresolved(o) == rows[o].state # "none" /\ ~RowTerminal(o)

\* An open order fills, and ends once.
BrokerMoves(o) ==
    /\ broker[o] \in Answers \ FinalAnswers
    /\ \E a \in Answers : a.quantity >= broker[o].quantity /\ Answered(o, a)
    /\ UNCHANGED <<today, holder, storeVars, calls, runVars>>

-----------------------------------------------------------------------------
(* A cycle, up to its plan.                                                *)

\* One of the two tasks starts: its clock, and the lease.
Start(r) ==
    /\ pc[r] = "idle"
    /\ holder' = r
    /\ day' = [day EXCEPT ![r] = today]
    /\ \E s \in Strategies : active' = [active EXCEPT ![r] = s]
    /\ Goto(r, "leased")
    /\ UNCHANGED <<today, storeVars, brokerVars, plan, quantity, toldVars, todo,
                   found>>

\* The broker is asked for the position first and for the orders later.
CountPosition(r) ==
    /\ pc[r] = "leased"
    /\ position' = [position EXCEPT ![r] = Position]
    /\ Goto(r, "counted")
    /\ UNCHANGED <<today, holder, storeVars, brokerVars, planVars, seen, todo,
                   found>>

\* The open orders and the recent ones are two bounded queries.  An order that
\* only one of them shows, or none, may be missing from what the run was told.
ListOrders(r) ==
    /\ pc[r] = "counted"
    /\ \E listed \in SUBSET Orders :
          seen' = [seen EXCEPT ![r] =
              [o \in Orders |-> IF o \in listed THEN broker[o] ELSE Absent]]
    /\ Goto(r, "listed")
    /\ UNCHANGED <<today, holder, storeVars, brokerVars, planVars, position, todo,
                   found>>

\* Mutation: only the journal says how a pending intent's order ended.
MutEndOfJournalOnly(r, o) == rows[o].answer

\* How a pending intent's order ended: the journal's row if it is terminal,
\* else what the broker listed.
EndOf(r, o) == IF RowTerminal(o) THEN rows[o].answer ELSE seen[r][o]

Ended(r) == {o \in Pending : EndOf(r, o) \in FinalAnswers}

FindPending(r) ==
    /\ pc[r] = "listed"
    /\ \/ \E o \in Ended(r) :
             /\ found' = [found EXCEPT ![r] = [order |-> o, answer |-> EndOf(r, o)]]
             /\ Goto(r, "settling")
       \/ Ended(r) = {} /\ UNCHANGED found /\ Goto(r, "settled")
    /\ UNCHANGED <<today, holder, storeVars, brokerVars, planVars, toldVars, todo>>

\* Another cycle may have settled it since.
SettleFound(r) ==
    LET end == found[r].answer
    IN  /\ pc[r] = "settling"
        /\ SettleAdmitted(found[r].order, end.status, end.quantity)
        /\ SettleIntent(found[r].order, end.status, end.quantity)
        /\ found' = [found EXCEPT ![r] = NoFind]
        /\ Goto(r, "settled")
        /\ UNCHANGED <<today, holder, rows, adopted, brokerVars, planVars,
                       toldVars, todo>>

NoOpenOrder(r) == \A o \in Orders : seen[r][o] \in FinalAnswers \cup {Absent}

\* The sleeves must add up to the position that was counted.  A strategy buys
\* when its own sleeve is empty and sells what is in it, up to the session's cap.
PlanAllowed(r, o) ==
    /\ Pending = {}
    /\ Total = position[r]
    /\ Cardinality(Reserved(day[r])) < SessionCap
    /\ NoOpenOrder(r)
    /\ seen[r][o] = Absent
    /\ StrategyOf[o] = active[r]
    /\ SideOf[o] = "buy" <=> Sleeve(o) = 0

\* What a cycle does not read again it forgets.
Compared(r) ==
    /\ position' = [position EXCEPT ![r] = 0]
    /\ active' = [active EXCEPT ![r] = "sma"]
    /\ Goto(r, "planned")

CompareSleeves(r) ==
    /\ pc[r] = "settled"
    /\ \/ \E o \in Orders :
             /\ PlanAllowed(r, o)
             /\ plan' = [plan EXCEPT ![r] = o]
             /\ quantity' = [quantity EXCEPT ![r] = Sleeve(o)]
       \/ UNCHANGED <<plan, quantity>>
    /\ Compared(r)
    /\ UNCHANGED <<today, holder, storeVars, brokerVars, day, seen, todo, found>>

\* A cycle that is told to adopt the position submits nothing.
AdoptPosition(r) ==
    /\ pc[r] = "settled"
    /\ position[r] > 0
    /\ NoOpenOrder(r)
    /\ AdoptAdmitted
    /\ Adopt(active[r], position[r])
    /\ adopted' = [adopted EXCEPT ![active[r]] = position[r]]
    /\ Compared(r)
    /\ UNCHANGED <<today, holder, rows, brokerVars, day, plan, quantity, seen,
                   todo, found>>

\* The ledger cannot be used, or refuses: the cycle goes on without a plan.
LedgerFails(r) ==
    /\ pc[r] \in {"listed", "settling", "settled"}
    /\ found' = [found EXCEPT ![r] = NoFind]
    /\ Compared(r)
    /\ UNCHANGED <<today, holder, storeVars, brokerVars, day, plan, quantity, seen,
                   todo>>

-----------------------------------------------------------------------------
(* The journal: whoever records an answer checked the row in an earlier    *)
(* transaction, so a terminal row may be written over.                     *)

ListUnresolved(r) ==
    /\ pc[r] = "planned"
    /\ todo' = [todo EXCEPT ![r] =
          {o \in Orders : Unresolved(o) /\ seen[r][o] # Absent}]
    /\ Goto(r, "startup")
    /\ UNCHANGED <<today, holder, storeVars, brokerVars, planVars, toldVars, found>>

Record(r) ==
    /\ pc[r] \in {"startup", "response", "post"}
    /\ \E o \in todo[r] :
          /\ rows' = [rows EXCEPT ![o] = [state |-> "observed",
                                         answer |-> seen[r][o]]]
          /\ todo' = [todo EXCEPT ![r] = @ \ {o}]
    /\ UNCHANGED <<today, holder, ledgerVars, adopted, brokerVars, pc, planVars,
                   toldVars, found>>

\* After a failed record of the last answer nothing is settled.
RecordFails(r) ==
    /\ pc[r] \in {"startup", "response", "post"}
    /\ \/ /\ pc[r] # "post"
          /\ \E o \in todo[r] : todo' = [todo EXCEPT ![r] = @ \ {o}]
          /\ UNCHANGED <<pc, planVars, toldVars, found>>
       \/ pc[r] = "post" /\ todo[r] # {} /\ Forget(r, "releasing")
    /\ UNCHANGED <<today, holder, storeVars, brokerVars>>

FinishRecording(r) ==
    /\ pc[r] \in {"startup", "response", "post"}
    /\ todo[r] = {}
    /\ Goto(r, CASE pc[r] = "startup"  -> "preparing"
                 [] pc[r] = "response" -> "called"
                 [] pc[r] = "post"     -> "closing")
    /\ seen' = IF pc[r] = "post" THEN seen ELSE [seen EXCEPT ![r] = NothingSeen]
    /\ UNCHANGED <<today, holder, storeVars, brokerVars, planVars, position, todo,
                   found>>

-----------------------------------------------------------------------------
(* A cycle, from its plan to its own settlement.                           *)

\* The journal row and the intent are refused or cannot be written, a switch is
\* off, the lease is lost, the order is still open: what was reserved stays.
Block(r) ==
    /\ pc[r] \in {"preparing", "reserving", "reserved", "owned", "called", "closing"}
    /\ Forget(r, "releasing")
    /\ UNCHANGED <<today, holder, storeVars, brokerVars>>

Prepare(r) ==
    /\ pc[r] = "preparing"
    /\ plan[r] # NoOrder
    /\ \A o \in Orders : ~Unresolved(o)
    /\ Goto(r, "reserving")
    /\ UNCHANGED <<today, holder, storeVars, brokerVars, planVars, toldVars, todo,
                   found>>

\* Mutation: a row that an overlapping cycle took and closed is reserved again.
MutReserveRowAgain(r) ==
    /\ pc[r] = "reserving"
    /\ rows[plan[r]].state \in {"none", "observed"}
    /\ rows' = [rows EXCEPT ![plan[r]].state = "reserved"]
    /\ Goto(r, "reserved")
    /\ UNCHANGED <<today, holder, ledgerVars, adopted, brokerVars, planVars,
                   toldVars, todo, found>>

ReserveRow(r) ==
    /\ pc[r] = "reserving"
    /\ rows[plan[r]].state = "none"
    /\ rows' = [rows EXCEPT ![plan[r]].state = "reserved"]
    /\ Goto(r, "reserved")
    /\ UNCHANGED <<today, holder, ledgerVars, adopted, brokerVars, planVars,
                   toldVars, todo, found>>

\* A sale asks for all the sleeve owned when it was planned.
Requested(r) == IF SideOf[plan[r]] = "sell" THEN quantity[r] ELSE 0

ReserveOwnership(r) ==
    /\ pc[r] = "reserved"
    /\ IntentAdmitted(plan[r], Requested(r), quantity[r], day[r])
    /\ ReserveIntent(plan[r], Requested(r), quantity[r], day[r])
    /\ quantity' = [quantity EXCEPT ![r] = 0]
    /\ Goto(r, "owned")
    /\ UNCHANGED <<today, holder, sleeves, generation, rows, adopted, brokerVars,
                   day, active, plan, toldVars, todo, found>>

Claim(r) ==
    /\ pc[r] = "owned"
    /\ holder = r
    /\ rows[plan[r]].state = "reserved"
    /\ \A o \in Orders \ {plan[r]} : ~Unresolved(o)
    /\ rows' = [rows EXCEPT ![plan[r]].state = "submit_attempted"]
    /\ Goto(r, "claimed")
    /\ UNCHANGED <<today, holder, ledgerVars, adopted, brokerVars, planVars,
                   toldVars, todo, found>>

\* The broker creates the order and answers, or the answer is lost, or it
\* creates nothing.
CallBroker(r) ==
    LET o == plan[r]
    IN  /\ pc[r] = "claimed"
        /\ calls' = [calls EXCEPT ![o] = @ + 1]
        /\ \/ /\ broker[o] = Absent
              /\ \E a \in Answers :
                    /\ Answered(o, a)
                    /\ seen' = [seen EXCEPT ![r][o] = a]
              /\ \/ Goto(r, "response") /\ todo' = [todo EXCEPT ![r] = {o}]
                 \/ Goto(r, "called") /\ UNCHANGED todo
           \/ Goto(r, "called") /\ UNCHANGED <<broker, net, seen, todo>>
        /\ UNCHANGED <<today, holder, storeVars, planVars, position, found>>

\* The orders are listed again; a call that left no order is not settled.
ListAgain(r) ==
    /\ pc[r] = "called"
    /\ broker[plan[r]] # Absent
    /\ seen' = [seen EXCEPT ![r][plan[r]] = broker[plan[r]]]
    /\ todo' = [todo EXCEPT ![r] = {plan[r]}]
    /\ Goto(r, "post")
    /\ UNCHANGED <<today, holder, storeVars, brokerVars, planVars, position, found>>

SettleOwn(r) ==
    LET o == plan[r]
        a == seen[r][o]
    IN  /\ pc[r] = "closing"
        /\ a \in FinalAnswers
        /\ SettleAdmitted(o, a.status, a.quantity)
        /\ SettleIntent(o, a.status, a.quantity)
        /\ Forget(r, "releasing")
        /\ UNCHANGED <<today, holder, rows, adopted, brokerVars>>

Release(r) ==
    /\ pc[r] = "releasing"
    /\ holder' = IF holder = r THEN NoRun ELSE holder
    /\ Forget(r, "idle")
    /\ UNCHANGED <<today, storeVars, brokerVars>>

Crash(r) ==
    /\ pc[r] # "idle"
    /\ Forget(r, "idle")
    /\ UNCHANGED <<today, holder, storeVars, brokerVars>>

NextDay ==
    /\ today < MaxDay
    /\ today' = today + 1
    /\ UNCHANGED <<holder, storeVars, brokerVars, runVars>>

CycleStep(r) ==
    \/ Start(r) \/ CountPosition(r) \/ ListOrders(r) \/ FindPending(r)
    \/ SettleFound(r) \/ CompareSleeves(r) \/ AdoptPosition(r) \/ LedgerFails(r)
    \/ ListUnresolved(r) \/ Record(r) \/ RecordFails(r) \/ FinishRecording(r)
    \/ Block(r) \/ Prepare(r) \/ ReserveRow(r) \/ ReserveOwnership(r) \/ Claim(r)
    \/ CallBroker(r) \/ ListAgain(r) \/ SettleOwn(r) \/ Release(r) \/ Crash(r)

Next ==
    \/ \E r \in Runs : CycleStep(r)
    \/ \E o \in Orders : BrokerMoves(o)
    \/ NextDay

Spec == Init /\ [][Next]_vars

\* The part of BrokerMoves that ends the order.
BrokerSettles(o) == BrokerMoves(o) /\ broker'[o] \in FinalAnswers

\* The part of ListOrders in which no order is missing.
ListsAll(r) == ListOrders(r) /\ seen'[r] = broker

\* The step of FindPending that finds how a pending intent's order ended.
FindsEnd(r) == FindPending(r) /\ Ended(r) # {}

\* A scheduled task goes on starting cycles, and a cycle ends or is killed.  It
\* may fail or be killed at any step, but not always at the same one.
Fairness ==
    /\ \A o \in Orders : WF_vars(BrokerSettles(o))
    /\ \A r \in Scheduled : /\ WF_vars(CycleStep(r))
                           /\ SF_vars(CountPosition(r))
                           /\ SF_vars(ListsAll(r))
                           /\ SF_vars(FindsEnd(r))
                           /\ SF_vars(SettleFound(r))

FairSpec == Spec /\ Fairness

-----------------------------------------------------------------------------
\* A strategy with no order in flight owns exactly what it adopted and what its
\* own orders bought less what they sold, as the broker counts it: no crash, no
\* lost answer and no overlap books a fill twice, never, or to the other.
SleevesAreTrue ==
    \A s \in Strategies :
        (\A o \in Pending : StrategyOf[o] # s) => sleeves[s] = adopted[s] + net[s]

\* No strategy ever sells what it does not own: not the other's quantity, and
\* the account is never short.
SellsOnlyItsOwn == \A s \in Strategies : adopted[s] + net[s] >= 0

\* A quiet ledger, once the first position is adopted, agrees with the broker:
\* the mismatch that stops both tasks is never of their own making.
QuietLedgerMatches ==
    Pending = {} /\ (Held = 0 \/ generation > 0) => Total = Position

\* However many cycles overlap or are repeated, the orders of one session day
\* that reach the broker are within the cap.
CapHolds ==
    \A d \in 0 .. today :
        Cardinality({o \in Orders : calls[o] > 0 /\ intents[o].session = d}) <= SessionCap

\* An order that ended at the broker can always be settled by how it ended: no
\* mismatch of its sleeve, no earlier result and no size is ever in the way, so
\* what blocks both tasks is not a pending intent that nobody can settle.
EndsAreSettleable ==
    \A o \in Orders : broker[o] \in FinalAnswers =>
        SettleAdmitted(o, broker[o].status, broker[o].quantity)

Settled(o) == intents[o].state \in {"applied", "terminal_no_fill"}

SettledOrders == {o \in Orders : Settled(o)}

\* What a strategy owns, as the broker counts it.
Owned == [s \in Strategies |-> adopted[s] + net[s]]

Unowned == IF generation = 0 THEN Held ELSE 0

Accounts == INSTANCE StrategyAccounts WITH
    owned <- Owned, booked <- sleeves, open <- Pending, closed <- SettledOrders,
    free <- Unowned, Found <- Held

\* The sleeves, the intents and the orders at the broker are accounts that never
\* mix: what cycles, crashes and lost answers make of them is one order in flight
\* at a time, filled for its own strategy and booked once, when it is over.
ImplementsStrategyAccounts == Accounts!Spec

\* The orders that may be, or were, submitted, and those the broker has ended.
ClaimedOrders == {o \in Orders : rows[o].state \in {"submit_attempted", "observed"}}

EndedOrders == {o \in Orders : broker[o] \in FinalAnswers}

Serial == INSTANCE SerialSubmission WITH
    claimed <- ClaimedOrders, settled <- EndedOrders

\* The sleeves take nothing from the promise of the submit coordinator: with a
\* second database between the row and its claim, and cycles of two strategies,
\* orders are still claimed one at a time, each after the earlier ones are over,
\* and submitted at most once.
ImplementsSerialSubmission == Serial!Spec

\* An order that reached the broker is attributed in the end, whatever crashed
\* before it was.
IntentsSettle ==
    \A o \in Orders :
        broker[o] # Absent ~> intents[o].state \in {"applied", "terminal_no_fill"}
=============================================================================
