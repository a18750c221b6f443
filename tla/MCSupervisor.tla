----------------------------- MODULE MCSupervisor -----------------------------
(* Instances of AutopilotSupervisor for TLC. *)
EXTENDS AutopilotSupervisor, TLC

CONSTANTS a, b, s1

\* The session completes after the clock's first tick.
MCOneSession == [t \in 0..MaxTime |-> IF t = 0 THEN NoSession ELSE s1]

\* Safety runs only: no temporal property is checked with it.
MCSymmetry == Permutations({a, b})
=============================================================================
