--------------------------- MODULE MCMutationDrill ---------------------------
(* Small instances of MutationDrill for TLC. *)
EXTENDS MutationDrill, TLC

CONSTANTS o1, p1, v1, r1, r2

MCOrderOf == p1 :> o1

\* Open, being cancelled, and three different ends.
MCObservations == {[status |-> "accepted", filled |-> FALSE],
                   [status |-> "pending_cancel", filled |-> FALSE],
                   [status |-> "canceled", filled |-> FALSE],
                   [status |-> "filled", filled |-> TRUE],
                   [status |-> "expired", filled |-> FALSE]}

\* Open, and two different ends.
MCFewObservations ==
    {o \in MCObservations : o.status \in {"accepted", "canceled", "filled"}}

MCSymmetry == Permutations({r1, r2})
=============================================================================
