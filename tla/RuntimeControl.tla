--------------------------- MODULE RuntimeControl ---------------------------
(***************************************************************************)
(* The runtime_control row of SqliteOrderJournal: the operator's pause and *)
(* stop switches.  A fresh journal has no row; readers then see trading    *)
(* enabled and no stop.                                                    *)
(*                                                                         *)
(* The columns that only report (last_attempt_at, last_success_at,         *)
(* last_blocked_reason, reason, updated_at) are left out: nothing in the   *)
(* code decides anything from them.                                        *)
(***************************************************************************)
EXTENDS Naturals

CONSTANT MaxControlWrites  \* bound on control writes, for model checking

VARIABLES
    control,        \* the runtime_control row
    controlWrites   \* how many times an operator wrote it (bounded)

controlVars == <<control, controlWrites>>

ControlRow == [present : BOOLEAN, enabled : BOOLEAN, stop : BOOLEAN,
               generation : Nat]

\* What get_runtime_control answers when there is no row.
DefaultControl == [present |-> FALSE, enabled |-> TRUE, stop |-> FALSE,
                   generation |-> 0]

ControlTypeOK == /\ control \in ControlRow
                 /\ controlWrites \in Nat

ControlInit == /\ control = DefaultControl
               /\ controlWrites = 0

-----------------------------------------------------------------------------
\* The check claim_pre_mutation_submit and claim_pre_mutation_cancel make
\* inside their transaction.
TradingAllowed == control.enabled /\ ~control.stop

\* set_runtime_control bumps control_generation when a switch changes.  An
\* absent row counts as disabled in that comparison: a first "resume" bumps it,
\* a first "pause" does not.
NextControlGeneration(enabled, stop) ==
    IF \/ stop # control.stop
       \/ enabled # (control.present /\ control.enabled)
    THEN control.generation + 1
    ELSE control.generation

SetRuntimeControl(enabled, stop) ==
    control' = [present    |-> TRUE,
                enabled    |-> enabled,
                stop       |-> stop,
                generation |-> NextControlGeneration(enabled, stop)]

PauseOrResume == \E enabled \in BOOLEAN : SetRuntimeControl(enabled, control.stop)

\* Stop writes back the switch it read in an earlier transaction, which a pause or a
\* resume may have changed since: either value can be the one it writes.
RequestStop == \E enabled \in BOOLEAN : SetRuntimeControl(enabled, TRUE)

\* A control command commits.
OperatorWrites ==
    /\ controlWrites < MaxControlWrites
    /\ controlWrites' = controlWrites + 1
    /\ PauseOrResume \/ RequestStop
=============================================================================
