------------------------- MODULE AutopilotSupervisor -------------------------
(***************************************************************************)
(* PaperAutopilotSupervisor.run: a loop that holds the runtime lease,      *)
(* obeys the operator's switches and runs the operator cycle once for each *)
(* completed exchange session.  Supervisors are processes; they start,     *)
(* overlap, lose their lease and die at any point, and share nothing but   *)
(* the journal.  One journal transaction, or the whole operator cycle      *)
(* between two of them, is one step.                                       *)
(*                                                                         *)
(* What the operator cycle does to orders is module DurableSubmit; here it *)
(* takes the lease again and ends with a result.  last_attempt_at,         *)
(* last_success_at, last_blocked_reason and heartbeat_at are only reported *)
(* and are left out.                                                       *)
(***************************************************************************)
EXTENDS RuntimeLease, RuntimeControl, SessionCycles

CONSTANTS
    NoSession,   \* no completed session on that day, or no run
    SessionAt    \* latest_completed_session, by the clock

VARIABLES
    supervisorPid,  \* runtime_control.supervisor_pid, by owner
    pc,             \* where each supervisor is in run
    ts,             \* its occurred_at
    cred,           \* the lease credentials it got when it started
    tradingSeen,    \* the trading_enabled it read this time round
    session,        \* the session whose cycle it runs
    result,         \* what that run came to
    runs,           \* history: operator runs started for a session
    unsafe,         \* history: sessions with a recorded safety failure
    haltedRuns      \* history: runs a supervisor started since the last halt

tableVars   == <<leaseVars, controlVars, supervisorPid, cycles>>
processVars == <<pc, ts, cred, tradingSeen, session, result>>
historyVars == <<runs, unsafe, haltedRuns>>

vars == <<tableVars, processVars, historyVars>>

ASSUME SupervisorAssumption ==
    /\ NoSession \notin Sessions
    /\ SessionAt \in [0..MaxTime -> Sessions \cup {NoSession}]

\* The phases in which the lease is held and the loop goes on.
Looping == {"sleeping", "woken", "renewing", "renewed", "claiming", "running",
            "acting", "completing"}

Phases == Looping \cup {"idle", "starting", "leased", "clearing", "releasing",
                        "stopped"}

\* Every variable has its type: in particular each supervisor that runs or
\* completes a cycle knows whose cycle it is.
TypeOK ==
    /\ LeaseTypeOK
    /\ ControlTypeOK
    /\ CyclesTypeOK
    /\ now <= MaxTime
    /\ supervisorPid \in Owners \cup {NoOwner}
    /\ pc \in [Owners -> Phases]
    /\ ts \in [Owners -> 0..MaxTime]
    /\ cred \in [Owners -> Credentials]
    /\ tradingSeen \in [Owners -> BOOLEAN]
    /\ session \in [Owners -> Sessions \cup {NoSession}]
    /\ result \in [Owners -> Results]
    /\ \A p \in Owners :
          pc[p] \in {"running", "acting", "completing"} => session[p] # NoSession
    /\ runs \in [Sessions -> Nat]
    /\ unsafe \in SUBSET Sessions
    /\ haltedRuns \in [Owners -> Nat]

Init ==
    /\ LeaseInit
    /\ ControlInit
    /\ CyclesInit
    /\ supervisorPid = NoOwner
    /\ pc = [p \in Owners |-> "idle"]
    /\ ts = [p \in Owners |-> 0]
    /\ cred = [p \in Owners |-> NoCredentials]
    /\ tradingSeen = [p \in Owners |-> FALSE]
    /\ session = [p \in Owners |-> NoSession]
    /\ result = [p \in Owners |-> "retryable_failure"]
    /\ runs = [s \in Sessions |-> 0]
    /\ unsafe = {}
    /\ haltedRuns = [p \in Owners |-> 0]

Goto(p, phase) == pc' = [pc EXCEPT ![p] = phase]

-----------------------------------------------------------------------------
(* Starting.                                                               *)

Launch(p) ==
    /\ pc[p] = "idle"
    /\ Goto(p, "starting")
    /\ ts' = [ts EXCEPT ![p] = now]
    /\ UNCHANGED <<tableVars, cred, tradingSeen, session, result, historyVars>>

\* Without the lease run raises, before anything there is to clean up.
AcquireLease(p) ==
    /\ pc[p] = "starting"
    /\ \/ /\ TakeLease(p, ts[p])
          /\ cred' = [cred EXCEPT ![p] = NextCredentials(p)]
          /\ Goto(p, "leased")
       \/ /\ LeaseRefused(NoCredentials, ts[p])
          /\ Goto(p, "stopped")
          /\ UNCHANGED cred
    /\ UNCHANGED <<now, controlVars, supervisorPid, cycles, ts, tradingSeen,
                   session, result, historyVars>>

\* acknowledge_supervisor_start writes the pid under the fence.  A fresh journal
\* gets its control row here, with trading enabled.
Acknowledge(p) ==
    /\ pc[p] = "leased"
    /\ \/ /\ LeaseMatches(cred[p], ts[p])
          /\ supervisorPid' = p
          /\ control' = [control EXCEPT !.present = TRUE]
          /\ Goto(p, "sleeping")
       \/ /\ ~LeaseMatches(cred[p], ts[p])
          /\ Goto(p, "releasing")
          /\ UNCHANGED <<supervisorPid, control>>
    /\ UNCHANGED <<leaseVars, controlWrites, cycles, ts, cred, tradingSeen,
                   session, result, historyVars>>

-----------------------------------------------------------------------------
(* The loop.                                                               *)

Wake(p) ==
    /\ pc[p] = "sleeping"
    /\ Goto(p, "woken")
    /\ ts' = [ts EXCEPT ![p] = now]
    /\ UNCHANGED <<tableVars, cred, tradingSeen, session, result, historyVars>>

\* Mutation: the loop looks at the pause but not at the stop.
MutReadControlPauseOnly(p) ==
    /\ pc[p] = "woken"
    /\ Goto(p, "renewing")
    /\ tradingSeen' = [tradingSeen EXCEPT ![p] = control.enabled]
    /\ UNCHANGED <<tableVars, ts, cred, session, result, historyVars>>

\* Mutation: a pause is read but trading stays on for this supervisor.
MutReadControlSticky(p) ==
    /\ pc[p] = "woken"
    /\ Goto(p, IF control.stop THEN "clearing" ELSE "renewing")
    /\ tradingSeen' = [tradingSeen EXCEPT ![p] = @ \/ control.enabled]
    /\ UNCHANGED <<tableVars, ts, cred, session, result, historyVars>>

ReadControl(p) ==
    /\ pc[p] = "woken"
    /\ Goto(p, IF control.stop THEN "clearing" ELSE "renewing")
    /\ tradingSeen' = [tradingSeen EXCEPT ![p] = control.enabled]
    /\ UNCHANGED <<tableVars, ts, cred, session, result, historyVars>>

\* acquire_runtime_lease with the token.  If the row has expired by this
\* supervisor's clock the call takes a new lease for it, with a token and a
\* generation it does not keep; it then gives up like one that was refused, and
\* that lease stays until it expires.
Renew(p) ==
    /\ pc[p] = "renewing"
    /\ \/ RenewLease(cred[p], ts[p]) /\ Goto(p, "renewed")
       \/ TakeLease(p, ts[p]) /\ Goto(p, "clearing")
       \/ LeaseRefused(cred[p], ts[p]) /\ Goto(p, "clearing")
    /\ UNCHANGED <<now, controlVars, supervisorPid, cycles, ts, cred,
                   tradingSeen, session, result, historyVars>>

Heartbeat(p) ==
    /\ pc[p] = "renewed"
    /\ Goto(p, CASE ~LeaseMatches(cred[p], ts[p]) -> "clearing"
                 [] LeaseMatches(cred[p], ts[p]) /\ tradingSeen[p] -> "claiming"
                 [] OTHER -> "sleeping")
    /\ UNCHANGED <<tableVars, ts, cred, tradingSeen, session, result,
                   historyVars>>

\* _run_completed_session_if_eligible, up to the operator run.
ClaimSession(p) ==
    LET s == SessionAt[ts[p]]
    IN  /\ pc[p] = "claiming"
        /\ \/ /\ s # NoSession
              /\ Claimable(s)
              /\ ClaimCycle(s)
              /\ session' = [session EXCEPT ![p] = s]
              /\ Goto(p, "running")
              /\ runs' = [runs EXCEPT ![s] = @ + 1]
              /\ haltedRuns' = IF TradingAllowed THEN haltedRuns
                               ELSE [haltedRuns EXCEPT ![p] = @ + 1]
           \/ /\ s # NoSession => ~Claimable(s)
              /\ Goto(p, "sleeping")
              /\ UNCHANGED <<cycles, session, runs, haltedRuns>>
        /\ UNCHANGED <<leaseVars, controlVars, supervisorPid, ts, cred,
                       tradingSeen, result, unsafe>>

\* The cycle the operator runs acquires the lease once more, with the token.
\* Refused, it raises, which the supervisor takes for a retryable failure.  With
\* a new lease it goes on, although its claims will be refused.
EnterCycle(p) ==
    /\ pc[p] = "running"
    /\ \/ /\ RenewLease(cred[p], ts[p]) \/ TakeLease(p, ts[p])
          /\ Goto(p, "acting")
          /\ UNCHANGED result
       \/ /\ LeaseRefused(cred[p], ts[p])
          /\ Goto(p, "completing")
          /\ result' = [result EXCEPT ![p] = "retryable_failure"]
    /\ UNCHANGED <<now, controlVars, supervisorPid, cycles, ts, cred,
                   tradingSeen, session, historyVars>>

\* The operator run ends, well or not, or raises.
EndCycle(p) ==
    /\ pc[p] = "acting"
    /\ \E r \in Results : result' = [result EXCEPT ![p] = r]
    /\ Goto(p, "completing")
    /\ UNCHANGED <<tableVars, ts, cred, tradingSeen, session, historyVars>>

\* complete_supervisor_cycle; refused, it raises and ends the supervisor.
Complete(p) ==
    /\ pc[p] = "completing"
    /\ \/ /\ CompletionAdmitted(session[p], result[p])
          /\ CompleteCycle(session[p], result[p])
          /\ unsafe' = IF result[p] = "safety_failure"
                       THEN unsafe \cup {session[p]} ELSE unsafe
          /\ Goto(p, "sleeping")
       \/ /\ ~CompletionAdmitted(session[p], result[p])
          /\ Goto(p, "clearing")
          /\ UNCHANGED <<cycles, unsafe>>
    /\ session' = [session EXCEPT ![p] = NoSession]
    /\ UNCHANGED <<leaseVars, controlVars, supervisorPid, ts, cred, tradingSeen,
                   result, runs, haltedRuns>>

-----------------------------------------------------------------------------
(* Ending.                                                                 *)

\* Mutation: whoever leaves clears the pid.
MutMayClearAnyone(p) == TRUE

\* The fence of clear_supervisor_acknowledgment: no row, or a row of one's own,
\* expired or not.
MayClear(p) ==
    lease.generation > 0 => /\ lease.owner = cred[p].owner
                            /\ lease.token = cred[p].token
                            /\ lease.generation = cred[p].generation

ClearAcknowledgment(p) ==
    /\ pc[p] = "clearing"
    /\ supervisorPid' = IF MayClear(p) THEN NoOwner ELSE supervisorPid
    /\ Goto(p, "releasing")
    /\ UNCHANGED <<leaseVars, controlVars, cycles, ts, cred, tradingSeen,
                   session, result, historyVars>>

Release(p) ==
    /\ pc[p] = "releasing"
    /\ ReleaseLease(cred[p])
    /\ Goto(p, "stopped")
    /\ UNCHANGED <<now, controlVars, supervisorPid, cycles, ts, cred,
                   tradingSeen, session, result, historyVars>>

\* A journal call raises (the database stays locked): run unwinds through its
\* finally block.  A completion that raises leaves the row in progress.
JournalFails(p) ==
    /\ \/ pc[p] = "leased" /\ Goto(p, "releasing")
       \/ /\ pc[p] \in {"woken", "renewing", "renewed", "claiming", "completing"}
          /\ Goto(p, "clearing")
    /\ session' = [session EXCEPT ![p] = NoSession]
    /\ UNCHANGED <<tableVars, ts, cred, tradingSeen, result, historyVars>>

\* A kill or a power cut, or a failure in the finally block itself.
Crash(p) ==
    /\ pc[p] \notin {"idle", "stopped"}
    /\ Goto(p, "stopped")
    /\ session' = [session EXCEPT ![p] = NoSession]
    /\ UNCHANGED <<tableVars, ts, cred, tradingSeen, result, historyVars>>

-----------------------------------------------------------------------------
(* The control command.                                                    *)

ForgetHalt == haltedRuns' = IF TradingAllowed' THEN [p \in Owners |-> 0]
                            ELSE haltedRuns

ControlChanges ==
    /\ OperatorWrites
    /\ ForgetHalt
    /\ UNCHANGED <<leaseVars, supervisorPid, cycles, processVars, runs, unsafe>>

\* request_supervisor_start: unless a lease is active at the command's own time,
\* a stop is withdrawn and the pid forgotten; a pause stays.
RequestStart ==
    /\ controlWrites < MaxControlWrites
    /\ controlWrites' = controlWrites + 1
    /\ \E t \in 0..now : ~LeaseUnexpiredAt(t)
    /\ control' = [control EXCEPT !.present = TRUE, !.stop = FALSE]
    /\ supervisorPid' = NoOwner
    /\ ForgetHalt
    /\ UNCHANGED <<leaseVars, cycles, processVars, runs, unsafe>>

ClockTicks ==
    /\ Tick
    /\ UNCHANGED <<controlVars, supervisorPid, cycles, processVars, historyVars>>

\* What a supervisor does once launched, as long as nothing goes wrong.
Step(p) ==
    \/ AcquireLease(p) \/ Acknowledge(p) \/ Wake(p) \/ ReadControl(p)
    \/ Renew(p) \/ Heartbeat(p) \/ ClaimSession(p) \/ EnterCycle(p)
    \/ EndCycle(p) \/ Complete(p) \/ ClearAcknowledgment(p) \/ Release(p)

Next ==
    \/ \E p \in Owners : Launch(p) \/ Step(p) \/ JournalFails(p) \/ Crash(p)
    \/ ControlChanges
    \/ RequestStart
    \/ ClockTicks

Spec == Init /\ [][Next]_vars

\* Supervisors are processes the operating system schedules, no call blocks for
\* ever, and time passes.
FairSpec ==
    /\ Spec
    /\ \A p \in Owners : WF_vars(Step(p))
    /\ WF_vars(ClockTicks)

-----------------------------------------------------------------------------
(* Properties.                                                             *)

\* However supervisors crash, restart and overlap, the operator runs at most
\* max_cycle_attempts times for a session.
AttemptsBounded == \A s \in Sessions : runs[s] <= MaxAttempts

\* A session recorded as successful stays so, and is never run again, although
\* supervisors that lost their lease complete their cycles unfenced.
SuccessIsFinal ==
    [][\A s \in Sessions : cycles[s].outcome = "successful" =>
          cycles'[s].outcome = "successful" /\ runs'[s] = runs[s]]_vars

\* Once a safety failure of a session was recorded, no supervisor starts another
\* run of it.
SafetyNeverRetried ==
    [][\A s \in unsafe : runs'[s] = runs[s]]_vars

\* After a pause or a stop commits, each supervisor starts at most the one run
\* it was already on its way to.
HaltBoundsRuns == \A p \in Owners : haltedRuns[p] <= 1

\* A supervisor that leaves never erases the pid of another one.
ClearsOwnPidOnly ==
    [][\A p \in Owners :
          pc[p] = "clearing" /\ pc'[p] = "releasing" =>
              supervisorPid' = supervisorPid \/ supervisorPid \in {p, NoOwner}]_vars

Successful == {s \in Sessions : cycles[s].outcome = "successful"}

SessionsRun == INSTANCE SessionRuns WITH
    Supervisors <- Owners, doing <- session, done <- Successful

\* Supervisors over the cycle table, with a lease they may lose at any time, are
\* runs of a session as SessionRuns counts them: bounded, never repeated after a
\* success, and after a safety failure only if a second attempt hid it.
ImplementsSessionRuns == SessionsRun!Spec

\* A stop that is not withdrawn ends every supervisor.
StopIsObeyed ==
    <>[]control.stop => <>[](\A p \in Owners : pc[p] \in {"idle", "stopped"})

\* No attempt is left that the code would make.
Settled(s) ==
    \/ cycles[s].outcome \in {"successful", "safety_failure"}
    \/ cycles[s].attempts >= MaxAttempts

\* The last session is settled if in the end a supervisor loops undisturbed with
\* trading allowed, whoever crashed in the middle of its cycle before.
SessionsSettle ==
    <>[](TradingAllowed /\ \E p \in Owners : pc[p] \in Looping) =>
        \A s \in Sessions : s = SessionAt[MaxTime] => <>Settled(s)
=============================================================================
