--------------------------- MODULE MCDurableCancel ---------------------------
(* Small instances of DurableCancel for TLC. *)
EXTENDS DurableCancel, TLC

CONSTANTS o1, p1, r1, c1, c2, x1, w1

MCOrderOf == p1 :> o1

MCSubmitted == o1 :> [state |-> "accepted", plan |-> p1, run |-> r1,
                      generation |-> 1]

\* Open, and canceled.
MCTwoObservations == {[status |-> "accepted", filled |-> FALSE],
                      [status |-> "canceled", filled |-> FALSE]}

\* Open, being cancelled, and two different ends.
MCObservations == {[status |-> "accepted", filled |-> FALSE],
                   [status |-> "pending_cancel", filled |-> FALSE],
                   [status |-> "canceled", filled |-> FALSE],
                   [status |-> "filled", filled |-> TRUE]}

\* With a partial fill.
MCManyObservations == MCObservations \cup
                  {[status |-> "partially_filled", filled |-> TRUE],
                   [status |-> "canceled", filled |-> TRUE]}

MCSymmetry == Permutations({c1, c2})
=============================================================================
