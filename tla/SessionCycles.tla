---------------------------- MODULE SessionCycles ----------------------------
(***************************************************************************)
(* The supervisor_cycles table of SqliteOrderJournal: one row per NYSE     *)
(* session with the number of attempts and the outcome of the last one.    *)
(* Both methods are one BEGIN IMMEDIATE transaction and neither is fenced: *)
(* the lease is no part of them.                                           *)
(***************************************************************************)
EXTENDS Naturals

CONSTANTS
    Sessions,    \* session identities ("NYSE:2026-07-10")
    MaxAttempts  \* max_cycle_attempts

VARIABLE cycles  \* the table

ASSUME CycleAssumption == MaxAttempts \in Nat \ {0}

\* What an operator run can end a cycle with.  "permanent_failure" is a word of
\* the table that no code writes.
Results == {"successful", "retryable_failure", "safety_failure"}

\* "none" stands for a session without a row.
CycleRow == [outcome : Results \cup {"none", "in_progress"}, attempts : Nat]

NoCycle == [outcome |-> "none", attempts |-> 0]

CyclesTypeOK == cycles \in [Sessions -> CycleRow]

CyclesInit == cycles = [s \in Sessions |-> NoCycle]

-----------------------------------------------------------------------------
\* Mutation: one attempt too many.
MutClaimableOnceMore(s) ==
    /\ cycles[s].outcome \notin {"successful", "safety_failure"}
    /\ cycles[s].attempts <= MaxAttempts

\* Mutation: a safety failure is retried like any other.
MutClaimableAfterSafety(s) ==
    /\ cycles[s].outcome # "successful"
    /\ cycles[s].attempts < MaxAttempts

\* Mutation: a cycle that a crash left in progress is taken for running.
MutClaimableUnlessInProgress(s) ==
    /\ cycles[s].outcome \notin {"successful", "safety_failure", "in_progress"}
    /\ cycles[s].attempts < MaxAttempts

\* claim_supervisor_cycle answers "claimed": no row yet, or a row that is neither
\* successful nor a safety failure and has attempts left.  A row that is still
\* in_progress counts as unfinished, whether its process runs or not.
Claimable(s) ==
    /\ cycles[s].outcome \notin {"successful", "safety_failure"}
    /\ cycles[s].attempts < MaxAttempts

ClaimCycle(s) ==
    cycles' = [cycles EXCEPT ![s] = [outcome  |-> "in_progress",
                                     attempts |-> @.attempts + 1]]

\* Mutation: a late failure may replace a success.
MutCompletionAdmittedAlways(s, result) == TRUE

\* complete_supervisor_cycle refuses only to take a success back.
CompletionAdmitted(s, result) ==
    cycles[s].outcome = "successful" => result = "successful"

\* Mutation: a word that claim_supervisor_cycle does not know.
MutCompleteCycleFailed(s, result) ==
    cycles' = [cycles EXCEPT ![s].outcome =
                  IF result = "successful" THEN result ELSE "failed"]

CompleteCycle(s, result) ==
    cycles' = [cycles EXCEPT ![s].outcome = result]
=============================================================================
