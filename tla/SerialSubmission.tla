-------------------------- MODULE SerialSubmission --------------------------
(***************************************************************************)
(* What the durable submit coordinator promises, with no lease, clock,     *)
(* process or journal in it: orders are claimed one at a time, each after  *)
(* every earlier one is settled at the broker, and an order that was       *)
(* claimed is submitted at most once.                                      *)
(***************************************************************************)
EXTENDS Naturals

CONSTANT Orders

VARIABLES
    claimed,   \* the orders that may be, or were, submitted
    calls,     \* how often each was submitted
    settled    \* the orders the broker has ended

vars == <<claimed, calls, settled>>

TypeOK == /\ claimed \in SUBSET Orders
          /\ calls \in [Orders -> Nat]
          /\ settled \in SUBSET Orders

Init == /\ claimed = {}
        /\ calls = [o \in Orders |-> 0]
        /\ settled = {}

Claim(o) == /\ o \notin claimed
            /\ claimed \subseteq settled
            /\ claimed' = claimed \cup {o}
            /\ UNCHANGED <<calls, settled>>

\* The broker may settle the order in the same answer.
Submit(o) == /\ o \in claimed
             /\ calls[o] = 0
             /\ calls' = [calls EXCEPT ![o] = 1]
             /\ settled' \in {settled, settled \cup {o}}
             /\ UNCHANGED claimed

Settle(o) == /\ calls[o] > 0
             /\ settled' = settled \cup {o}
             /\ UNCHANGED <<claimed, calls>>

Next == \E o \in Orders : Claim(o) \/ Submit(o) \/ Settle(o)

Spec == Init /\ [][Next]_vars
=============================================================================
