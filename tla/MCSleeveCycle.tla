--------------------------- MODULE MCSleeveCycle ---------------------------
(* Small instances of SleeveCycle for TLC. *)
EXTENDS SleeveCycle, TLC

CONSTANTS b1, s1, s2, b2, r1, r2

\* A buy and two sales of one strategy, a buy of the other.
MCStrategyOf == [o \in Orders |-> IF o = b2 THEN "rsi" ELSE "sma"]

MCSideOf == [o \in Orders |-> IF o \in {s1, s2} THEN "sell" ELSE "buy"]

\* Open, ended with something in two ways, ended with nothing.
MCAnswers == {[status |-> "open", quantity |-> 0],
              [status |-> "filled", quantity |-> 1],
              [status |-> "canceled", quantity |-> 1],
              [status |-> "rejected", quantity |-> 0]}

\* Open, or ended after it filled in part.
MCPartial == {a \in MCAnswers : a.status \in {"open", "canceled"}}

\* The two runs are alike, and so are the two sales.
MCSymmetry == {f @@ g : f \in Permutations({r1, r2}), g \in Permutations({s1, s2})}
=============================================================================
