-------------------------- MODULE StrategyAccounts --------------------------
(***************************************************************************)
(* What the strategy sleeves promise, with no run, lease, journal row or   *)
(* answer in it: strategies that trade one account own disjoint parts of   *)
(* it.  One order at a time is in flight, only it can change what a        *)
(* strategy owns, and the books catch up with it exactly when it is over;  *)
(* an order whose books are closed is never opened again.                  *)
(***************************************************************************)
EXTENDS Naturals

CONSTANTS
    Orders,
    Strategies,
    StrategyOf,  \* the strategy that places an order
    SideOf,      \* and its side
    Found        \* what the account held before, owned by nobody

VARIABLES
    owned,   \* what each strategy owns
    booked,  \* what the books say that it owns
    open,    \* the order in flight, if any
    closed,  \* the orders that are booked
    free     \* what nobody owns

vars == <<owned, booked, open, closed, free>>

Init == /\ owned = [s \in Strategies |-> 0]
        /\ booked = [s \in Strategies |-> 0]
        /\ open = {}
        /\ closed = {}
        /\ free = Found

\* What was found goes to one strategy, whole, before anything is traded.
Adopt(s) == /\ free > 0
            /\ open = {} /\ closed = {}
            /\ owned' = [owned EXCEPT ![s] = @ + free]
            /\ booked' = [booked EXCEPT ![s] = @ + free]
            /\ free' = 0
            /\ UNCHANGED <<open, closed>>

Open(o) == /\ free = 0
           /\ open = {}
           /\ o \notin closed
           /\ open' = {o}
           /\ UNCHANGED <<owned, booked, closed, free>>

\* A purchase adds to what its strategy owns, and to nobody else's; a sale takes
\* from it, and never more than there is.
Fill(o) == LET s == StrategyOf[o]
           IN  /\ o \in open
               /\ owned'[s] \in Nat
               /\ IF SideOf[o] = "buy" THEN owned'[s] >= owned[s]
                                       ELSE owned'[s] <= owned[s]
               /\ owned' = [owned EXCEPT ![s] = owned'[s]]
               /\ UNCHANGED <<booked, open, closed, free>>

Book(o) == /\ o \in open
           /\ booked' = [booked EXCEPT ![StrategyOf[o]] = owned[StrategyOf[o]]]
           /\ open' = {}
           /\ closed' = closed \cup {o}
           /\ UNCHANGED <<owned, free>>

Next == \/ \E s \in Strategies : Adopt(s)
        \/ \E o \in Orders : Open(o) \/ Fill(o) \/ Book(o)

Spec == Init /\ [][Next]_vars
=============================================================================
