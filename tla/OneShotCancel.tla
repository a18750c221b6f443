--------------------------- MODULE OneShotCancel ---------------------------
(***************************************************************************)
(* What cancelling an order promises, with no process, lease, clock, file  *)
(* or table in it: an order's cancel is attempted once and for good, the   *)
(* broker is called at most once and only after that, and a cancel is      *)
(* known to have worked only when the broker did cancel the order.         *)
(***************************************************************************)
EXTENDS Naturals

CONSTANT Orders

VARIABLES
    attempted,   \* the orders whose cancel may be, or was, called
    calls,       \* how often each was called
    canceled,    \* the orders the broker has canceled
    known        \* the orders whose cancel is on record as done

vars == <<attempted, calls, canceled, known>>

Init == /\ attempted = {}
        /\ calls = [o \in Orders |-> 0]
        /\ canceled = {}
        /\ known = {}

Attempt(o) == /\ o \notin attempted
              /\ attempted' = attempted \cup {o}
              /\ UNCHANGED <<calls, canceled, known>>

\* The broker may cancel the order in the same call.
Call(o) == /\ o \in attempted
           /\ calls[o] = 0
           /\ calls' = [calls EXCEPT ![o] = 1]
           /\ canceled' \in {canceled, canceled \cup {o}}
           /\ UNCHANGED <<attempted, known>>

\* Later than the call, or for a reason of the broker's own.
Cancel(o) == /\ canceled' = canceled \cup {o}
             /\ UNCHANGED <<attempted, calls, known>>

Learn(o) == /\ o \in attempted \cap canceled
            /\ known' = known \cup {o}
            /\ UNCHANGED <<attempted, calls, canceled>>

\* An older answer is put on record over the newer one.
Unlearn(o) == /\ known' = known \ {o}
              /\ UNCHANGED <<attempted, calls, canceled>>

Next == \E o \in Orders :
           Attempt(o) \/ Call(o) \/ Cancel(o) \/ Learn(o) \/ Unlearn(o)

Spec == Init /\ [][Next]_vars
=============================================================================
