--------------------------- MODULE MCDurableSubmit ---------------------------
(* Small instances of DurableSubmit for TLC. *)
EXTENDS DurableSubmit, TLC

CONSTANTS o1, o2, p1, p2, r1, r2, c1

MCOrderOf == (p1 :> o1) @@ (p2 :> o2)

\* An open order, an end, and a word the journal does not know.
MCObservations == {[status |-> "accepted", filled |-> FALSE],
                   [status |-> "filled", filled |-> TRUE],
                   [status |-> "held", filled |-> FALSE]}

\* For the run about reconciliation: an order that fills in part while its
\* cancel is pending and ends there.
MCCancelObservations == {[status |-> "accepted", filled |-> FALSE],
                         [status |-> "pending_cancel", filled |-> TRUE],
                         [status |-> "cancelled", filled |-> TRUE]}

\* Safety runs only: no temporal property is checked with it.
MCSymmetry == Permutations({r1, r2})
=============================================================================
