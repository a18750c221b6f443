---------------------------- MODULE SleeveLedger ----------------------------
(***************************************************************************)
(* SqliteStrategySleeveLedger: which strategy owns how much of the one SPY *)
(* position that the strategies share.                                     *)
(*                                                                         *)
(* A sleeve is a quantity; an intent is the one order that may change it.  *)
(* Every method is one BEGIN IMMEDIATE transaction, so each operator below *)
(* is one step; "Admitted" is what the transaction checks before it        *)
(* writes, and a refused one leaves the ledger as it is.                   *)
(***************************************************************************)
EXTENDS Naturals, FiniteSets

CONSTANTS
    Orders,      \* client_order_id values
    StrategyOf,  \* the strategy a client_order_id names
    SideOf,      \* and its side
    SessionCap   \* max_orders_per_session

VARIABLES
    sleeves,     \* the quantity each strategy owns
    intents,     \* the rows of strategy_sleeve_intents, by client_order_id
    generation   \* counts the changes of a sleeve

ledgerVars == <<sleeves, intents, generation>>

Strategies == {"sma", "rsi"}

FinalStatuses == {"filled", "rejected", "canceled", "expired"}

NoStatus == ""

ASSUME SleeveAssumption ==
    /\ IsFiniteSet(Orders)
    /\ StrategyOf \in [Orders -> Strategies]
    /\ SideOf \in [Orders -> {"buy", "sell"}]
    /\ SessionCap \in Nat \ {0}

\* requested is 0 for an order by notional: every buy.
IntentRow == [state : {"none", "reserved", "applied", "terminal_no_fill"},
              requested : Nat, before : Nat, filled : Nat,
              status : FinalStatuses \cup {NoStatus}, session : Nat]

NoIntent == [state |-> "none", requested |-> 0, before |-> 0, filled |-> 0,
             status |-> NoStatus, session |-> 0]

LedgerTypeOK == /\ sleeves \in [Strategies -> Nat]
                /\ intents \in [Orders -> IntentRow]
                /\ generation \in Nat

LedgerInit == /\ sleeves = [s \in Strategies |-> 0]
              /\ intents = [o \in Orders |-> NoIntent]
              /\ generation = 0

Total == sleeves["sma"] + sleeves["rsi"]

Sleeve(o) == sleeves[StrategyOf[o]]

-----------------------------------------------------------------------------
Pending == {o \in Orders : intents[o].state = "reserved"}

\* Mutation: an intent that was settled no longer counts.
MutReservedOnlyPending(session) == {o \in Pending : intents[o].session = session}

\* session_intent_count.
Reserved(session) ==
    {o \in Orders : intents[o].state # "none" /\ intents[o].session = session}

\* reserve_intent, for an id that has no intent yet.
IntentAdmitted(o, requested, before, session) ==
    /\ Pending = {}
    /\ Cardinality(Reserved(session)) < SessionCap
    /\ Sleeve(o) = before
    /\ SideOf[o] = "sell" => requested \in 1 .. before

\* An id that has an intent keeps it: the caller is given the stored one.
ReserveIntent(o, requested, before, session) ==
    intents' = IF intents[o].state = "none"
               THEN [intents EXCEPT ![o] = [state |-> "reserved",
                       requested |-> requested, before |-> before, filled |-> 0,
                       status |-> NoStatus, session |-> session]]
               ELSE intents

-----------------------------------------------------------------------------
\* Mutation: a buy is taken off its sleeve.
MutSleeveAfterWrongWay(o, filled) ==
    IF SideOf[o] = "sell" THEN Sleeve(o) + filled ELSE Sleeve(o) - filled

SleeveAfter(o, filled) ==
    IF SideOf[o] = "buy" THEN Sleeve(o) + filled ELSE Sleeve(o) - filled

\* Mutation: a fill needs a sleeve that is as large, on either side.
MutSettleAdmittedNeedsSleeve(o, status, filled) ==
    /\ status \in FinalStatuses
    /\ status = "filled" => filled > 0
    /\ CASE intents[o].state = "reserved" ->
              /\ Sleeve(o) = intents[o].before
              /\ filled <= Sleeve(o)
         [] intents[o].state = "none" -> FALSE
         [] OTHER -> intents[o].status = status /\ intents[o].filled = filled

\* reconcile_intent: a settled intent takes the same result again and no other;
\* a pending one needs its sleeve as it was when it was reserved.
SettleAdmitted(o, status, filled) ==
    /\ status \in FinalStatuses
    /\ status = "filled" => filled > 0
    /\ CASE intents[o].state = "reserved" ->
              /\ Sleeve(o) = intents[o].before
              /\ SideOf[o] = "sell" => filled <= Sleeve(o)
         [] intents[o].state = "none" -> FALSE
         [] OTHER -> intents[o].status = status /\ intents[o].filled = filled

\* Mutation: the part that a canceled order filled is dropped.
MutSettleIntentDropsPartial(o, status, filled) ==
    LET moved == o \in Pending /\ status = "filled"
    IN  /\ intents' = [intents EXCEPT ![o].filled = filled, ![o].status = status,
                 ![o].state = IF filled > 0 THEN "applied" ELSE "terminal_no_fill"]
        /\ sleeves' = IF moved
              THEN [sleeves EXCEPT ![StrategyOf[o]] = SleeveAfter(o, filled)]
              ELSE sleeves
        /\ generation' = IF moved THEN generation + 1 ELSE generation

\* Mutation: a result that is settled again is booked again.
MutSettleIntentTwice(o, status, filled) ==
    /\ intents' = [intents EXCEPT ![o].filled = filled, ![o].status = status,
                     ![o].state = IF filled > 0 THEN "applied" ELSE "terminal_no_fill"]
    /\ sleeves' = [sleeves EXCEPT ![StrategyOf[o]] = SleeveAfter(o, filled)]
    /\ generation' = generation + 1

SettleIntent(o, status, filled) ==
    LET first == o \in Pending
        moved == first /\ filled > 0
    IN  /\ intents' = IF first
              THEN [intents EXCEPT ![o].filled = filled, ![o].status = status,
                      ![o].state = IF moved THEN "applied" ELSE "terminal_no_fill"]
              ELSE intents
        /\ sleeves' = IF moved
              THEN [sleeves EXCEPT ![StrategyOf[o]] = SleeveAfter(o, filled)]
              ELSE sleeves
        /\ generation' = IF moved THEN generation + 1 ELSE generation

-----------------------------------------------------------------------------
\* Mutation: a ledger whose sleeves are empty again may adopt again.
MutAdoptAdmittedAgain == Total = 0 /\ Pending = {}

\* adopt_existing_position.
AdoptAdmitted == generation = 0 /\ Total = 0 /\ Pending = {}

Adopt(strategy, quantity) ==
    /\ sleeves' = [sleeves EXCEPT ![strategy] = quantity]
    /\ generation' = generation + 1
    /\ UNCHANGED intents
=============================================================================
