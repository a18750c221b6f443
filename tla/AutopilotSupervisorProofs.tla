---------------------- MODULE AutopilotSupervisorProofs ----------------------
(***************************************************************************)
(* The safety properties of AutopilotSupervisor, for any number of         *)
(* supervisors, sessions and attempts.                                     *)
(*                                                                         *)
(* TypeOK is inductive alone.  The rest follows from five invariants about *)
(* what the supervisors share: the cycle table (Counted, Holders,          *)
(* Overtaken), the switches (Halted) and the lease (Acknowledged).         *)
(***************************************************************************)
EXTENDS AutopilotSupervisor, RuntimeTypes, TLAPS

\* The attempts of a row are the runs there were.
Counted == \A s \in Sessions :
              /\ runs[s] = cycles[s].attempts
              /\ cycles[s].attempts <= MaxAttempts

\* Every supervisor in a cycle of s made an attempt of its own.
Holders == \A s \in Sessions, p \in Owners : session[p] = s =>
              /\ cycles[s].attempts >= 1
              /\ \A q \in Owners \ {p} :
                    session[q] = s => cycles[s].attempts >= 2

\* Only a second attempt can hide a safety failure of s, for only another
\* supervisor in a cycle of s can overwrite it.
Overtaken == \A s \in unsafe :
                /\ \/ cycles[s].outcome \in {"successful", "safety_failure"}
                   \/ cycles[s].attempts >= 2
                /\ \A p \in Owners : session[p] = s => cycles[s].attempts >= 2

\* A supervisor that started a run since the halt reads the switches again
\* before it starts another one, and sees the halt.
Halted == \A p \in Owners :
             /\ haltedRuns[p] <= 1
             /\ pc[p] = "claiming" => tradingSeen[p]
             /\ haltedRuns[p] > 0 =>
                   /\ ~TradingAllowed
                   /\ pc[p] \in {"renewing", "renewed", "claiming"} =>
                         ~tradingSeen[p]

\* As long as the lease row is the one a supervisor acknowledged its start under,
\* nobody else's pid is recorded.
Acknowledged == \A p \in Owners :
    /\ cred[p].generation <= lease.generation
    /\ pc[p] \in Looping \cup {"leased", "clearing"} =>
          cred[p].owner = p /\ cred[p].generation > 0
    /\ /\ pc[p] \in Looping \cup {"clearing"}
       /\ lease.generation = cred[p].generation
       /\ lease.owner = p
       => supervisorPid \in {p, NoOwner}

IInv == TypeOK /\ Counted /\ Holders /\ Overtaken /\ Halted /\ Acknowledged

-----------------------------------------------------------------------------
(* Type correctness.                                                       *)

LEMMA TypeInit == Init => TypeOK
  BY SupervisorAssumption, LeaseAssumption
  DEF Init, TypeOK, LeaseInit, ControlInit, CyclesInit, LeaseTypeOK,
      ControlTypeOK, CyclesTypeOK, NoLease, LeaseRow, DefaultControl,
      ControlRow, NoCycle, CycleRow, Results, NoCredentials, Credentials, Phases

\* The phases a step can lead to.
LEMMA PhaseTypes ==
    ASSUME TypeOK, NEW p \in Owners, NEW phase \in Phases, Goto(p, phase)
    PROVE  pc' \in [Owners -> Phases]
  BY DEF TypeOK, Goto

LEMMA TypeStep == TypeOK /\ [Next]_vars => TypeOK'
<1> SUFFICES ASSUME TypeOK, [Next]_vars
             PROVE  TypeOK'
  OBVIOUS
<1> USE DEF leaseVars, controlVars, tableVars, processVars, historyVars
<1>a. /\ UNCHANGED leaseVars => LeaseTypeOK'
      /\ UNCHANGED controlVars => ControlTypeOK'
      /\ UNCHANGED cycles => CyclesTypeOK'
  BY DEF TypeOK, LeaseTypeOK, ControlTypeOK, CyclesTypeOK
<1>b. /\ LeaseTypeOK /\ ControlTypeOK /\ CyclesTypeOK
      /\ \A p \in Owners : ts[p] \in Nat /\ cred[p] \in Credentials
  BY LeaseAssumption DEF TypeOK
<1>c. now \in 0..MaxTime
  BY <1>b, LeaseAssumption DEF TypeOK, LeaseTypeOK
<1> USE <1>a
<1>1. ASSUME NEW p \in Owners, Launch(p)
      PROVE  TypeOK'
  <2>1. pc' \in [Owners -> Phases] /\ ts' \in [Owners -> 0..MaxTime]
    BY <1>1, <1>c, PhaseTypes DEF Launch, TypeOK, Phases
  <2> QED
    BY <1>1, <2>1 DEF Launch, TypeOK, Goto
<1>2. ASSUME NEW p \in Owners, AcquireLease(p)
      PROVE  TypeOK'
  <2>1. CASE TakeLease(p, ts[p]) /\ cred' = [cred EXCEPT ![p] = NextCredentials(p)]
             /\ Goto(p, "leased")
    <3>1. LeaseTypeOK' /\ NextCredentials(p) \in Credentials
      BY <1>2, <1>b, <2>1, TakeLeaseTypes DEF AcquireLease, LeaseTypeOK
    <3> QED
      BY <1>2, <2>1, <3>1, PhaseTypes DEF AcquireLease, TypeOK, Phases, Goto
  <2>2. CASE LeaseRefused(NoCredentials, ts[p]) /\ Goto(p, "stopped")
             /\ UNCHANGED cred
    BY <1>2, <2>2, PhaseTypes
    DEF AcquireLease, LeaseRefused, TypeOK, Phases, Goto
  <2> QED
    BY <1>2, <2>1, <2>2 DEF AcquireLease
<1>3. ASSUME NEW p \in Owners, Acknowledge(p)
      PROVE  TypeOK'
  <2>1. ControlTypeOK'
    BY <1>3, <1>b DEF Acknowledge, ControlTypeOK, ControlRow
  <2>2. supervisorPid' \in Owners \cup {NoOwner} /\ pc' \in [Owners -> Phases]
    BY <1>3, PhaseTypes DEF Acknowledge, TypeOK, Phases, Looping
  <2> QED
    BY <1>3, <2>1, <2>2 DEF Acknowledge, TypeOK, Goto
<1>4. ASSUME NEW p \in Owners, Wake(p)
      PROVE  TypeOK'
  <2>1. pc' \in [Owners -> Phases] /\ ts' \in [Owners -> 0..MaxTime]
    BY <1>4, <1>c, PhaseTypes DEF Wake, TypeOK, Phases, Looping
  <2> QED
    BY <1>4, <2>1 DEF Wake, TypeOK, Goto
<1>5. ASSUME NEW p \in Owners, ReadControl(p)
      PROVE  TypeOK'
  <2>1. control.enabled \in BOOLEAN
    BY <1>b DEF ControlTypeOK, ControlRow
  <2>2. pc' \in [Owners -> Phases]
    BY <1>5, PhaseTypes DEF ReadControl, Phases, Looping
  <2>3. tradingSeen' \in [Owners -> BOOLEAN]
    BY <1>5, <2>1 DEF ReadControl, TypeOK
  <2> QED
    BY <1>5, <2>2, <2>3 DEF ReadControl, TypeOK, Goto
<1>6. ASSUME NEW p \in Owners, Renew(p)
      PROVE  TypeOK'
  <2>1. LeaseTypeOK'
    BY <1>6, <1>b, RenewLeaseTypes, TakeLeaseTypes
    DEF Renew, LeaseRefused, LeaseTypeOK
  <2>2. pc' \in [Owners -> Phases]
    BY <1>6, PhaseTypes DEF Renew, Phases, Looping
  <2> QED
    BY <1>6, <2>1, <2>2 DEF Renew, TypeOK, Goto
<1>7. ASSUME NEW p \in Owners, Heartbeat(p)
      PROVE  TypeOK'
  <2>1. pc' \in [Owners -> Phases]
    BY <1>7, PhaseTypes DEF Heartbeat, Phases, Looping
  <2> QED
    BY <1>7, <2>1 DEF Heartbeat, TypeOK, Goto
<1>8. ASSUME NEW p \in Owners, ClaimSession(p)
      PROVE  TypeOK'
  <2>1. CASE UNCHANGED <<cycles, session, runs, haltedRuns>> /\ Goto(p, "sleeping")
    BY <1>8, <2>1, PhaseTypes DEF ClaimSession, TypeOK, Phases, Looping, Goto
  <2>2. CASE ~(UNCHANGED <<cycles, session, runs, haltedRuns>> /\ Goto(p, "sleeping"))
    <3> DEFINE s == SessionAt[ts[p]]
    <3>1. /\ s # NoSession /\ ClaimCycle(s) /\ Goto(p, "running")
          /\ session' = [session EXCEPT ![p] = s]
          /\ runs' = [runs EXCEPT ![s] = @ + 1]
          /\ haltedRuns' = IF TradingAllowed THEN haltedRuns
                           ELSE [haltedRuns EXCEPT ![p] = @ + 1]
      BY <1>8, <2>2 DEF ClaimSession
    <3>2. s \in Sessions
      BY <3>1, SupervisorAssumption DEF TypeOK
    <3>3. CyclesTypeOK'
      BY <3>1, <3>2, <1>b DEF CyclesTypeOK, ClaimCycle, CycleRow
    <3>4. pc' \in [Owners -> Phases]
      BY <3>1, PhaseTypes DEF Phases, Looping
    <3>5. session' \in [Owners -> Sessions \cup {NoSession}]
          /\ runs' \in [Sessions -> Nat] /\ haltedRuns' \in [Owners -> Nat]
      BY <3>1, <3>2 DEF TypeOK
    <3> QED
      BY <1>8, <3>1, <3>3, <3>4, <3>5 DEF ClaimSession, TypeOK, Goto
  <2> QED
    BY <2>1, <2>2
<1>9. ASSUME NEW p \in Owners, EnterCycle(p)
      PROVE  TypeOK'
  <2>1. LeaseTypeOK'
    BY <1>9, <1>b, RenewLeaseTypes, TakeLeaseTypes
    DEF EnterCycle, LeaseRefused, LeaseTypeOK
  <2>2. pc' \in [Owners -> Phases] /\ result' \in [Owners -> Results]
    BY <1>9, PhaseTypes DEF EnterCycle, Phases, Looping, Results, TypeOK
  <2> QED
    BY <1>9, <2>1, <2>2 DEF EnterCycle, TypeOK, Goto
<1>10. ASSUME NEW p \in Owners, EndCycle(p)
      PROVE  TypeOK'
  <2>1. pc' \in [Owners -> Phases] /\ result' \in [Owners -> Results]
    BY <1>10, PhaseTypes DEF EndCycle, Phases, Looping, TypeOK
  <2> QED
    BY <1>10, <2>1 DEF EndCycle, TypeOK, Goto
<1>11. ASSUME NEW p \in Owners, Complete(p)
      PROVE  TypeOK'
  <2>1. session[p] \in Sessions /\ result[p] \in Results
    BY <1>11 DEF Complete, TypeOK
  <2>2. CyclesTypeOK'
    BY <1>11, <1>b, <2>1 DEF Complete, CyclesTypeOK, CompleteCycle, CycleRow
  <2>3. unsafe' \in SUBSET Sessions
    BY <1>11, <2>1 DEF Complete, TypeOK
  <2>4. pc' \in [Owners -> Phases]
    BY <1>11, PhaseTypes DEF Complete, Phases, Looping
  <2> QED
    BY <1>11, <2>2, <2>3, <2>4 DEF Complete, TypeOK, Goto
<1>12. ASSUME NEW p \in Owners, ClearAcknowledgment(p)
      PROVE  TypeOK'
  BY <1>12, PhaseTypes DEF ClearAcknowledgment, TypeOK, Phases, Goto
<1>13. ASSUME NEW p \in Owners, Release(p)
      PROVE  TypeOK'
  <2>1. LeaseTypeOK'
    BY <1>13, <1>b, ReleaseLeaseTypes DEF Release, ReleaseLease, LeaseTypeOK
  <2>2. pc' \in [Owners -> Phases]
    BY <1>13, PhaseTypes DEF Release, Phases
  <2> QED
    BY <1>13, <2>1, <2>2 DEF Release, TypeOK, Goto
<1>14. ASSUME NEW p \in Owners, JournalFails(p) \/ Crash(p)
      PROVE  TypeOK'
  <2>1. pc' \in [Owners -> Phases]
    BY <1>14, PhaseTypes DEF JournalFails, Crash, Phases
  <2> QED
    BY <1>14, <2>1 DEF JournalFails, Crash, TypeOK, Goto
<1>15. ASSUME ControlChanges \/ RequestStart
      PROVE  TypeOK'
  <2>1. ControlTypeOK'
    <3>1. CASE ControlChanges
      BY <1>b, <3>1, ControlTypes DEF ControlChanges
    <3>2. CASE RequestStart
      <4>1. control' = [control EXCEPT !.present = TRUE, !.stop = FALSE]
            /\ controlWrites' = controlWrites + 1
        BY <3>2 DEF RequestStart
      <4>2. control' \in ControlRow
        BY <1>b, <4>1, Zenon DEF ControlTypeOK, ControlRow
      <4> QED
        BY <1>b, <4>1, <4>2 DEF ControlTypeOK
    <3> QED
      BY <1>15, <3>1, <3>2
  <2>2. haltedRuns' \in [Owners -> Nat]
    BY <1>15 DEF ControlChanges, RequestStart, ForgetHalt, TypeOK
  <2> QED
    BY <1>15, <2>1, <2>2 DEF ControlChanges, RequestStart, TypeOK
<1>16. CASE ClockTicks
  <2>1. LeaseTypeOK' /\ now' <= MaxTime
    BY <1>16, LeaseAssumption DEF ClockTicks, Tick, TypeOK, LeaseTypeOK
  <2> QED
    BY <1>16, <2>1 DEF ClockTicks, TypeOK
<1>17. CASE UNCHANGED vars
  BY <1>17 DEF vars, TypeOK
<1> QED
  BY <1>1, <1>2, <1>3, <1>4, <1>5, <1>6, <1>7, <1>8, <1>9, <1>10, <1>11,
     <1>12, <1>13, <1>14, <1>15, <1>16, <1>17
  DEF Next, Step

\* Every reachable state has its declared types; in particular a supervisor that
\* completes a cycle knows whose, and the table only ever says what
\* claim_supervisor_cycle understands.
THEOREM SupervisorTypes == Spec => []TypeOK
  BY TypeInit, TypeStep, PTL DEF Spec

-----------------------------------------------------------------------------
(* The cycle table.                                                        *)

\* A supervisor starts a run of s.
Claims(p, s) ==
    /\ Claimable(s)
    /\ ClaimCycle(s)
    /\ session' = [session EXCEPT ![p] = s]
    /\ runs' = [runs EXCEPT ![s] = @ + 1]
    /\ UNCHANGED unsafe

\* A supervisor stores what its run of s came to.
Stores(p, s, outcome) ==
    /\ session[p] = s
    /\ CompletionAdmitted(s, outcome)
    /\ CompleteCycle(s, outcome)
    /\ session' = [session EXCEPT ![p] = NoSession]
    /\ unsafe' = IF outcome = "safety_failure" THEN unsafe \cup {s} ELSE unsafe
    /\ UNCHANGED runs

\* No row changes; a supervisor may give its cycle up.
Leaves == /\ UNCHANGED <<cycles, runs, unsafe>>
          /\ \A p \in Owners : session'[p] \in {session[p], NoSession}

LEMMA TableSteps ==
    ASSUME TypeOK, [Next]_vars
    PROVE  \/ \E p \in Owners, s \in Sessions : Claims(p, s)
           \/ \E p \in Owners, s \in Sessions, r \in Results : Stores(p, s, r)
           \/ Leaves
<1> USE DEF leaseVars, controlVars, tableVars, processVars, historyVars
<1>1. ASSUME NEW p \in Owners, ClaimSession(p)
      PROVE  Leaves \/ \E s \in Sessions : Claims(p, s)
  <2>1. SessionAt[ts[p]] \in Sessions \cup {NoSession}
    BY SupervisorAssumption DEF TypeOK
  <2>2. CASE UNCHANGED <<cycles, session, runs, haltedRuns>>
    BY <1>1, <2>2 DEF ClaimSession, Leaves
  <2>3. CASE ~UNCHANGED <<cycles, session, runs, haltedRuns>>
    <3>1. Claims(p, SessionAt[ts[p]]) /\ SessionAt[ts[p]] # NoSession
      BY <1>1, <2>3 DEF ClaimSession, Claims
    <3> QED
      BY <2>1, <3>1
  <2> QED
    BY <2>2, <2>3
<1>2. ASSUME NEW p \in Owners, Complete(p)
      PROVE  Leaves \/ \E s \in Sessions, r \in Results : Stores(p, s, r)
  <2>1. session[p] \in Sessions /\ result[p] \in Results
    BY <1>2 DEF Complete, TypeOK
  <2>2. CASE CompletionAdmitted(session[p], result[p])
    <3>1. Stores(p, session[p], result[p])
      BY <1>2, <2>2 DEF Complete, Stores
    <3> QED
      BY <2>1, <3>1
  <2>3. CASE ~CompletionAdmitted(session[p], result[p])
    BY <1>2, <2>3 DEF Complete, Leaves, TypeOK
  <2> QED
    BY <2>2, <2>3
<1>3. ASSUME NEW p \in Owners, JournalFails(p) \/ Crash(p)
      PROVE  Leaves
  BY <1>3 DEF JournalFails, Crash, Leaves, TypeOK
<1>4. ASSUME UNCHANGED <<cycles, runs, unsafe, session>>
      PROVE  Leaves
  BY <1>4 DEF Leaves
<1>5. ASSUME NEW p \in Owners,
             \/ Launch(p) \/ AcquireLease(p) \/ Acknowledge(p) \/ Wake(p)
             \/ ReadControl(p) \/ Renew(p) \/ Heartbeat(p) \/ EnterCycle(p)
             \/ EndCycle(p) \/ ClearAcknowledgment(p) \/ Release(p)
      PROVE  Leaves
  BY <1>4, <1>5
  DEF Launch, AcquireLease, Acknowledge, Wake, ReadControl, Renew, Heartbeat,
      EnterCycle, EndCycle, ClearAcknowledgment, Release
<1>6. ASSUME ControlChanges \/ RequestStart \/ ClockTicks \/ UNCHANGED vars
      PROVE  Leaves
  BY <1>4, <1>6 DEF ControlChanges, RequestStart, ClockTicks, vars
<1> QED
  BY <1>1, <1>2, <1>3, <1>5, <1>6 DEF Next, Step

LEMMA CountedStep == TypeOK /\ Counted /\ [Next]_vars => Counted'
<1> SUFFICES ASSUME TypeOK, Counted, [Next]_vars
             PROVE  Counted'
  OBVIOUS
<1>1. ASSUME NEW p \in Owners, NEW s \in Sessions, Claims(p, s)
      PROVE  Counted'
  BY <1>1, CycleAssumption
  DEF Claims, Claimable, ClaimCycle, Counted, TypeOK, CyclesTypeOK, CycleRow
<1>2. ASSUME NEW p \in Owners, NEW s \in Sessions, NEW r \in Results,
             Stores(p, s, r)
      PROVE  Counted'
  BY <1>2 DEF Stores, CompleteCycle, Counted, TypeOK, CyclesTypeOK, CycleRow
<1>3. CASE Leaves
  BY <1>3 DEF Leaves, Counted
<1> QED
  BY <1>1, <1>2, <1>3, TableSteps

LEMMA HoldersStep == TypeOK /\ Holders /\ [Next]_vars => Holders'
<1> SUFFICES ASSUME TypeOK, Holders, [Next]_vars
             PROVE  Holders'
  OBVIOUS
<1>1. ASSUME NEW p \in Owners, NEW s \in Sessions, Claims(p, s)
      PROVE  Holders'
  BY <1>1 DEF Claims, ClaimCycle, Holders, TypeOK, CyclesTypeOK, CycleRow
<1>2. ASSUME NEW p \in Owners, NEW s \in Sessions, NEW r \in Results,
             Stores(p, s, r)
      PROVE  Holders'
  BY <1>2, SupervisorAssumption
  DEF Stores, CompleteCycle, Holders, TypeOK, CyclesTypeOK, CycleRow
<1>3. CASE Leaves
  BY <1>3, SupervisorAssumption DEF Leaves, Holders
<1> QED
  BY <1>1, <1>2, <1>3, TableSteps

LEMMA OvertakenStep == TypeOK /\ Holders /\ Overtaken /\ [Next]_vars => Overtaken'
<1> SUFFICES ASSUME TypeOK, Holders, Overtaken, [Next]_vars
             PROVE  Overtaken'
  OBVIOUS
<1>a. unsafe \subseteq Sessions
  BY DEF TypeOK
<1>1. ASSUME NEW p \in Owners, NEW s \in Sessions, Claims(p, s)
      PROVE  Overtaken'
  BY <1>1, <1>a
  DEF Claims, Claimable, ClaimCycle, Overtaken, TypeOK, CyclesTypeOK, CycleRow
<1>2. ASSUME NEW p \in Owners, NEW s \in Sessions, NEW r \in Results,
             Stores(p, s, r)
      PROVE  Overtaken'
  <2>1. \A q \in Owners : session'[q] = IF q = p THEN NoSession ELSE session[q]
    BY <1>2 DEF Stores, TypeOK
  <2>2. \A t \in Sessions :
          /\ cycles'[t].attempts = cycles[t].attempts
          /\ cycles'[t].outcome = IF t = s THEN r ELSE cycles[t].outcome
    BY <1>2 DEF Stores, CompleteCycle, TypeOK, CyclesTypeOK, CycleRow
  <2>3. CASE r = "safety_failure"
    BY <1>2, <1>a, <2>1, <2>2, <2>3, SupervisorAssumption
    DEF Stores, Holders, Overtaken
  <2>4. CASE r # "safety_failure"
    <3>1. unsafe' = unsafe
      BY <1>2, <2>4 DEF Stores
    <3>2. s \in unsafe => cycles[s].attempts >= 2
      BY <1>2 DEF Stores, Overtaken
    <3> QED
      BY <1>a, <2>1, <2>2, <3>1, <3>2, SupervisorAssumption DEF Overtaken
  <2> QED
    BY <2>3, <2>4
<1>3. CASE Leaves
  BY <1>3, <1>a, SupervisorAssumption DEF Leaves, Overtaken
<1> QED
  BY <1>1, <1>2, <1>3, TableSteps

-----------------------------------------------------------------------------
(* The switches.                                                           *)

LEMMA HaltedStep == TypeOK /\ Halted /\ [Next]_vars => Halted'
<1> SUFFICES ASSUME TypeOK, Halted, [Next]_vars
             PROVE  Halted'
  OBVIOUS
<1> USE DEF leaseVars, controlVars, tableVars, processVars, historyVars
<1>1. ASSUME NEW p \in Owners, ReadControl(p)
      PROVE  Halted'
  BY <1>1 DEF ReadControl, Goto, TradingAllowed, Halted, TypeOK
<1>2. ASSUME NEW p \in Owners, Heartbeat(p)
      PROVE  Halted'
  BY <1>2 DEF Heartbeat, Goto, TradingAllowed, Halted, TypeOK
<1>3. ASSUME NEW p \in Owners, ClaimSession(p)
      PROVE  Halted'
  <2>1. /\ pc' = [pc EXCEPT ![p] = "running"] \/ pc' = [pc EXCEPT ![p] = "sleeping"]
        /\ \/ haltedRuns' = haltedRuns
           \/ ~TradingAllowed /\ haltedRuns' = [haltedRuns EXCEPT ![p] = @ + 1]
        /\ UNCHANGED <<control, tradingSeen>>
        /\ haltedRuns[p] = 0
    BY <1>3 DEF ClaimSession, Goto, Halted, TypeOK
  <2> QED
    BY <2>1 DEF TradingAllowed, Halted, TypeOK
<1>4. ASSUME NEW p \in Owners, Acknowledge(p)
      PROVE  Halted'
  <2>1. control'.enabled = control.enabled /\ control'.stop = control.stop
    BY <1>4 DEF Acknowledge, TypeOK, ControlTypeOK, ControlRow
  <2>2. /\ UNCHANGED <<haltedRuns, tradingSeen>>
        /\ pc' = [pc EXCEPT ![p] = "sleeping"] \/ pc' = [pc EXCEPT ![p] = "releasing"]
    BY <1>4 DEF Acknowledge, Goto
  <2> QED
    BY <2>1, <2>2 DEF TradingAllowed, Halted, TypeOK
<1>5. ASSUME NEW p \in Owners, Renew(p)
      PROVE  Halted'
  BY <1>5 DEF Renew, Goto, TradingAllowed, Halted, TypeOK
<1>6. ASSUME NEW p \in Owners, JournalFails(p) \/ Crash(p)
      PROVE  Halted'
  BY <1>6 DEF JournalFails, Crash, Goto, TradingAllowed, Halted, TypeOK
<1>7. ASSUME NEW p \in Owners,
             \/ Launch(p) \/ AcquireLease(p) \/ Wake(p) \/ EnterCycle(p)
             \/ EndCycle(p) \/ Complete(p) \/ ClearAcknowledgment(p) \/ Release(p)
      PROVE  Halted'
  <2>1. /\ UNCHANGED <<control, haltedRuns, tradingSeen>>
        /\ \E phase \in Phases \ {"renewing", "renewed", "claiming"} :
              pc' = [pc EXCEPT ![p] = phase]
    BY <1>7
    DEF Launch, AcquireLease, Wake, EnterCycle, EndCycle, Complete,
        ClearAcknowledgment, Release, Goto, Phases, Looping
  <2> QED
    BY <2>1 DEF TradingAllowed, Halted, TypeOK
<1>8. ASSUME ControlChanges \/ RequestStart
      PROVE  Halted'
  <2>1. UNCHANGED <<pc, tradingSeen>> /\ ForgetHalt
    BY <1>8 DEF ControlChanges, RequestStart
  <2>2. CASE TradingAllowed'
    BY <2>1, <2>2 DEF ForgetHalt, Halted
  <2>3. CASE ~TradingAllowed'
    BY <2>1, <2>3 DEF ForgetHalt, Halted
  <2> QED
    BY <2>2, <2>3
<1>9. CASE ClockTicks \/ UNCHANGED vars
  BY <1>9 DEF ClockTicks, vars, TradingAllowed, Halted
<1> QED
  BY <1>1, <1>2, <1>3, <1>4, <1>5, <1>6, <1>7, <1>8, <1>9 DEF Next, Step

-----------------------------------------------------------------------------
(* The lease.                                                              *)

\* The phases in which a supervisor relies on its lease.
Fenced == Looping \cup {"leased", "clearing"}

\* What a step of p that acquires, renews or leaves the lease alone does to the
\* row.
LEMMA LeaseSteps ==
    ASSUME TypeOK, NEW p \in Owners,
           \/ RenewLease(cred[p], ts[p]) \/ TakeLease(p, ts[p])
           \/ LeaseRefused(cred[p], ts[p]) \/ ReleaseLease(cred[p])
           \/ UNCHANGED lease
    PROVE  /\ lease'.generation >= lease.generation
           /\ lease'.generation = lease.generation => lease'.owner = lease.owner
<1>a. lease \in LeaseRow
  BY DEF TypeOK, LeaseTypeOK
<1>1. CASE RenewLease(cred[p], ts[p])
  BY <1>a, <1>1 DEF RenewLease, LeaseRow
<1>2. CASE TakeLease(p, ts[p])
  BY <1>a, <1>2 DEF TakeLease, LeaseRow
<1>3. CASE ReleaseLease(cred[p])
  BY <1>a, <1>3 DEF ReleaseLease, LeaseRow
<1>4. CASE LeaseRefused(cred[p], ts[p]) \/ UNCHANGED lease
  BY <1>a, <1>4 DEF LeaseRefused, LeaseRow
<1> QED
  BY <1>1, <1>2, <1>3, <1>4

\* A step that keeps the credentials and the pid, and lets nobody into the loop,
\* keeps Acknowledged if the lease row moves as in LeaseSteps.
LEMMA AcknowledgedKept ==
    ASSUME TypeOK, Acknowledged, UNCHANGED cred,
           lease'.generation \in Nat,
           lease'.generation >= lease.generation,
           lease'.generation = lease.generation => lease'.owner = lease.owner,
           supervisorPid' \in {supervisorPid, NoOwner},
           \A q \in Owners : /\ pc'[q] \in Fenced => pc[q] \in Fenced
                             /\ pc'[q] \in Fenced \ {"leased"} =>
                                   pc[q] \in Fenced \ {"leased"}
    PROVE  Acknowledged'
<1>1. \A q \in Owners : cred[q].generation \in Nat
  BY DEF TypeOK, Credentials
<1>2. lease.generation \in Nat
  BY DEF TypeOK, LeaseTypeOK, LeaseRow
<1>3. "leased" \notin Looping \cup {"clearing"}
  BY DEF Looping
<1> QED
  BY <1>1, <1>2, <1>3 DEF Acknowledged, Fenced

LEMMA AcknowledgedStep == TypeOK /\ Acknowledged /\ [Next]_vars => Acknowledged'
<1> SUFFICES ASSUME TypeOK, Acknowledged, [Next]_vars
             PROVE  Acknowledged'
  OBVIOUS
<1> USE DEF leaseVars, controlVars, tableVars, processVars, historyVars
<1>a. TypeOK'
  BY TypeStep
<1>b. lease.generation \in Nat /\ lease'.generation \in Nat
      /\ \A q \in Owners : cred[q].generation \in Nat
  BY <1>a DEF TypeOK, LeaseTypeOK, LeaseRow, Credentials
<1>1. ASSUME NEW p \in Owners, AcquireLease(p)
      PROVE  Acknowledged'
  <2>1. CASE TakeLease(p, ts[p]) /\ cred' = [cred EXCEPT ![p] = NextCredentials(p)]
             /\ Goto(p, "leased")
    <3>1. /\ lease'.generation = lease.generation + 1 /\ lease'.owner = p
          /\ UNCHANGED supervisorPid
      BY <1>1, <2>1 DEF AcquireLease, TakeLease
    <3>2. /\ cred'[p].owner = p /\ cred'[p].generation = lease.generation + 1
          /\ pc'[p] = "leased"
          /\ \A q \in Owners \ {p} : cred'[q] = cred[q] /\ pc'[q] = pc[q]
      BY <2>1 DEF NextCredentials, Goto, TypeOK
    <3> QED
      BY <1>b, <3>1, <3>2 DEF Acknowledged, Looping
  <2>2. CASE LeaseRefused(NoCredentials, ts[p]) /\ Goto(p, "stopped")
             /\ UNCHANGED cred
    BY <1>1, <1>b, <2>2, AcknowledgedKept
    DEF AcquireLease, LeaseRefused, Goto, TypeOK, Fenced, Looping
  <2> QED
    BY <1>1, <2>1, <2>2 DEF AcquireLease
<1>2. ASSUME NEW p \in Owners, Acknowledge(p)
      PROVE  Acknowledged'
  <2>1. CASE LeaseMatches(cred[p], ts[p]) /\ supervisorPid' = p /\ Goto(p, "sleeping")
    <3>1. /\ UNCHANGED <<lease, cred>> /\ pc[p] = "leased"
          /\ \A q \in Owners \ {p} : pc'[q] = pc[q]
      BY <1>2, <2>1 DEF Acknowledge, Goto, TypeOK
    <3>2. lease.owner = p
      BY <2>1, <3>1 DEF LeaseMatches, Acknowledged
    <3> QED
      BY <2>1, <3>1, <3>2 DEF Acknowledged
  <2>2. CASE UNCHANGED supervisorPid /\ Goto(p, "releasing")
    BY <1>2, <1>b, <2>2, AcknowledgedKept
    DEF Acknowledge, Goto, TypeOK, Fenced, Looping
  <2> QED
    BY <1>2, <2>1, <2>2 DEF Acknowledge
<1>3. ASSUME NEW p \in Owners,
             \/ Renew(p) \/ EnterCycle(p) \/ Release(p) \/ Launch(p) \/ Wake(p)
             \/ ReadControl(p) \/ Heartbeat(p) \/ ClaimSession(p) \/ EndCycle(p)
             \/ Complete(p) \/ ClearAcknowledgment(p) \/ JournalFails(p)
             \/ Crash(p)
      PROVE  Acknowledged'
  <2>1. /\ lease'.generation >= lease.generation
        /\ lease'.generation = lease.generation => lease'.owner = lease.owner
    BY <1>3, LeaseSteps
    DEF Renew, EnterCycle, Release, Launch, Wake, ReadControl, Heartbeat,
        ClaimSession, EndCycle, Complete, ClearAcknowledgment, JournalFails,
        Crash
  <2>2. UNCHANGED cred /\ supervisorPid' \in {supervisorPid, NoOwner}
    BY <1>3
    DEF Renew, EnterCycle, Release, Launch, Wake, ReadControl, Heartbeat,
        ClaimSession, EndCycle, Complete, ClearAcknowledgment, JournalFails,
        Crash
  <2>3. /\ pc'[p] \in Fenced => pc[p] \in Fenced
        /\ pc'[p] \in Fenced \ {"leased"} => pc[p] \in Fenced \ {"leased"}
        /\ \A q \in Owners \ {p} : pc'[q] = pc[q]
    BY <1>3
    DEF Renew, EnterCycle, Release, Launch, Wake, ReadControl, Heartbeat,
        ClaimSession, EndCycle, Complete, ClearAcknowledgment, JournalFails,
        Crash, Goto, TypeOK, Fenced, Looping
  <2> QED
    BY <1>b, <2>1, <2>2, <2>3, AcknowledgedKept
<1>4. ASSUME ControlChanges \/ RequestStart \/ ClockTicks \/ UNCHANGED vars
      PROVE  Acknowledged'
  <2>1. /\ UNCHANGED <<lease, cred, pc>>
        /\ supervisorPid' \in {supervisorPid, NoOwner}
    BY <1>4 DEF ControlChanges, RequestStart, ClockTicks, Tick, vars
  <2> QED
    BY <1>b, <2>1, AcknowledgedKept
<1> QED
  BY <1>1, <1>2, <1>3, <1>4 DEF Next, Step

-----------------------------------------------------------------------------
(* Theorems.                                                               *)

LEMMA IInvInit == Init => IInv
<1> SUFFICES ASSUME Init
             PROVE  IInv
  OBVIOUS
<1>1. TypeOK
  BY TypeInit
<1>2. Counted
  BY CycleAssumption DEF Init, Counted, CyclesInit, NoCycle
<1>3. Holders /\ Overtaken
  BY SupervisorAssumption DEF Init, Holders, Overtaken
<1>a. \A p \in Owners : /\ haltedRuns[p] = 0 /\ pc[p] = "idle"
                        /\ cred[p] = NoCredentials
  BY DEF Init
<1>b. \A n \in Nat : n = 0 => n <= 1 /\ ~(n > 0)
  OBVIOUS
<1>4. Halted
  BY <1>1, <1>a, <1>b DEF Halted, TypeOK
<1>5. Acknowledged
  <2>1. lease.generation = 0 /\ \A p \in Owners : cred[p].generation = 0
    BY <1>a DEF Init, LeaseInit, NoLease, NoCredentials
  <2>2. 0 <= 0
    OBVIOUS
  <2>3. \A p \in Owners : pc[p] \notin Looping \cup {"leased", "clearing"}
    BY <1>a DEF Looping
  <2>4. \A p \in Owners : cred[p].generation <= lease.generation
    BY <2>1, <2>2
  <2> QED
    BY <2>3, <2>4 DEF Acknowledged
<1> QED
  BY <1>1, <1>2, <1>3, <1>4, <1>5 DEF IInv

LEMMA IInvStep == IInv /\ [Next]_vars => IInv'
  BY TypeStep, CountedStep, HoldersStep, OvertakenStep, HaltedStep,
     AcknowledgedStep
  DEF IInv

\* The inductive invariant, from which the theorems below follow, holds in every
\* reachable state.
THEOREM SupervisorInvariant == Spec => []IInv
  BY IInvInit, IInvStep, PTL DEF Spec

\* The operator runs at most max_cycle_attempts times for a session, whatever
\* crashes and overlaps.
THEOREM BoundedAttempts == Spec => []AttemptsBounded
<1>1. IInv => AttemptsBounded
  BY DEF IInv, Counted, AttemptsBounded
<1> QED
  BY <1>1, SupervisorInvariant, PTL

\* After a pause or a stop each supervisor starts at most one more run.
THEOREM HaltIsObeyed == Spec => []HaltBoundsRuns
<1>1. IInv => HaltBoundsRuns
  BY DEF IInv, Halted, HaltBoundsRuns
<1> QED
  BY <1>1, SupervisorInvariant, PTL

\* A success is never taken back nor repeated, although completion is unfenced.
THEOREM SuccessStands == Spec => SuccessIsFinal
<1>1. IInv /\ [Next]_vars =>
        [\A s \in Sessions : cycles[s].outcome = "successful" =>
            cycles'[s].outcome = "successful" /\ runs'[s] = runs[s]]_vars
  <2> SUFFICES ASSUME IInv, [Next]_vars, NEW s \in Sessions,
                      cycles[s].outcome = "successful"
               PROVE  cycles'[s].outcome = "successful" /\ runs'[s] = runs[s]
    OBVIOUS
  <2> USE DEF IInv, TypeOK, CyclesTypeOK, CycleRow
  <2>1. ASSUME NEW p \in Owners, NEW t \in Sessions, Claims(p, t)
        PROVE  cycles'[s].outcome = "successful" /\ runs'[s] = runs[s]
    BY <2>1 DEF Claims, Claimable, ClaimCycle
  <2>2. ASSUME NEW p \in Owners, NEW t \in Sessions, NEW r \in Results,
               Stores(p, t, r)
        PROVE  cycles'[s].outcome = "successful" /\ runs'[s] = runs[s]
    BY <2>2 DEF Stores, CompletionAdmitted, CompleteCycle
  <2>3. CASE Leaves
    BY <2>3 DEF Leaves
  <2> QED
    BY <2>1, <2>2, <2>3, TableSteps
<1> QED
  BY <1>1, SupervisorInvariant, PTL DEF Spec, SuccessIsFinal

\* With the default of two attempts, no session with a recorded safety failure
\* is run again: only another attempt can hide the failure, and then none is
\* left.  With three attempts this is false.
THEOREM SafetyStands ==
    ASSUME MaxAttempts <= 2
    PROVE  Spec => SafetyNeverRetried
<1>1. IInv /\ [Next]_vars => [\A s \in unsafe : runs'[s] = runs[s]]_vars
  <2> SUFFICES ASSUME IInv, [Next]_vars, NEW s \in unsafe
               PROVE  runs'[s] = runs[s]
    OBVIOUS
  <2>1. ASSUME NEW p \in Owners, NEW t \in Sessions, Claims(p, t)
        PROVE  runs'[s] = runs[s]
    <3>1. t # s
      BY <2>1, CycleAssumption
      DEF Claims, Claimable, IInv, Overtaken, TypeOK, CyclesTypeOK, CycleRow
    <3> QED
      BY <2>1, <3>1 DEF Claims, IInv, TypeOK
  <2>2. ASSUME NEW p \in Owners, NEW t \in Sessions, NEW r \in Results,
               Stores(p, t, r)
        PROVE  runs'[s] = runs[s]
    BY <2>2 DEF Stores
  <2>3. CASE Leaves
    BY <2>3 DEF Leaves
  <2> QED
    BY <2>1, <2>2, <2>3, TableSteps DEF IInv
<1> QED
  BY <1>1, SupervisorInvariant, PTL DEF Spec, SafetyNeverRetried

\* clear_supervisor_acknowledgment never erases another supervisor's pid.
THEOREM OwnPidOnly == Spec => ClearsOwnPidOnly
<1>1. IInv /\ [Next]_vars =>
        [\A p \in Owners : pc[p] = "clearing" /\ pc'[p] = "releasing" =>
            supervisorPid' = supervisorPid \/ supervisorPid \in {p, NoOwner}]_vars
  <2> SUFFICES ASSUME IInv, [Next]_vars, NEW p \in Owners,
                      pc[p] = "clearing", pc'[p] = "releasing"
               PROVE  supervisorPid' = supervisorPid
                      \/ supervisorPid \in {p, NoOwner}
    OBVIOUS
  <2> USE DEF tableVars, processVars, historyVars
  <2>1. ClearAcknowledgment(p)
    BY DEF Next, Step, Launch, AcquireLease, Acknowledge, Wake, ReadControl,
           Renew, Heartbeat, ClaimSession, EnterCycle, EndCycle, Complete,
           ClearAcknowledgment, Release, JournalFails, Crash, ControlChanges,
           RequestStart, ClockTicks, Goto, vars, IInv, TypeOK
  <2>2. CASE MayClear(p)
    <3>1. cred[p].owner = p /\ cred[p].generation > 0
          /\ cred[p].generation <= lease.generation
      BY DEF IInv, Acknowledged
    <3>2. lease.generation > 0
      BY <3>1 DEF IInv, TypeOK, LeaseTypeOK, LeaseRow, Credentials
    <3> QED
      BY <2>2, <3>1, <3>2 DEF MayClear, IInv, Acknowledged
  <2>3. CASE ~MayClear(p)
    BY <2>1, <2>3 DEF ClearAcknowledgment
  <2> QED
    BY <2>2, <2>3
<1> QED
  BY <1>1, SupervisorInvariant, PTL DEF Spec, ClearsOwnPidOnly
-----------------------------------------------------------------------------
(* The refinement: supervisors and their tables are runs of sessions.      *)

\* A supervisor that is in no cycle holds no session of one.
Free == \A p \in Owners : pc[p] \notin {"running", "acting", "completing"} =>
            session[p] = NoSession

LEMMA FreeStep == TypeOK /\ Free /\ [Next]_vars => Free'
<1> SUFFICES ASSUME TypeOK, Free, [Next]_vars, NEW q \in Owners,
                    pc'[q] \notin {"running", "acting", "completing"}
             PROVE  session'[q] = NoSession
  BY DEF Free
<1> USE DEF leaseVars, controlVars, tableVars, processVars, historyVars
<1>0. /\ pc \in [Owners -> Phases]
      /\ session \in [Owners -> Sessions \cup {NoSession}]
      /\ pc[q] \notin {"running", "acting", "completing"} => session[q] = NoSession
  BY DEF TypeOK, Free
<1>1. ASSUME NEW p \in Owners,
             \/ Launch(p) \/ AcquireLease(p) \/ Acknowledge(p) \/ Wake(p)
             \/ ReadControl(p) \/ Renew(p) \/ Heartbeat(p) \/ ClearAcknowledgment(p)
             \/ Release(p)
      PROVE  session'[q] = NoSession
  BY <1>0, <1>1
  DEF Launch, AcquireLease, Acknowledge, Wake, ReadControl, Renew, Heartbeat,
      ClearAcknowledgment, Release, Goto
<1>2. ASSUME NEW p \in Owners, EnterCycle(p) \/ EndCycle(p)
      PROVE  session'[q] = NoSession
  BY <1>0, <1>2 DEF EnterCycle, EndCycle, Goto
<1>3. ASSUME NEW p \in Owners, ClaimSession(p)
      PROVE  session'[q] = NoSession
  BY <1>0, <1>3 DEF ClaimSession, Goto
<1>4. ASSUME NEW p \in Owners, Complete(p) \/ JournalFails(p) \/ Crash(p)
      PROVE  session'[q] = NoSession
  BY <1>0, <1>4 DEF Complete, JournalFails, Crash, Goto
<1>5. ASSUME ControlChanges \/ RequestStart \/ ClockTicks \/ UNCHANGED vars
      PROVE  session'[q] = NoSession
  BY <1>0, <1>5 DEF ControlChanges, RequestStart, ClockTicks, vars
<1> QED
  BY <1>1, <1>2, <1>3, <1>4, <1>5 DEF Next, Step

LEMMA FreeAlways == Spec => []Free
<1>1. Init => Free
  BY DEF Init, Free
<1> QED
  BY <1>1, FreeStep, SupervisorTypes, PTL DEF Spec

\* A claim is a supervisor's own and starts from no cycle; so is what it stores.
LEMMA RunsSteps ==
    ASSUME TypeOK, Free, [Next]_vars
    PROVE  \/ \E p \in Owners, s \in Sessions : session[p] = NoSession /\ Claims(p, s)
           \/ \E p \in Owners, s \in Sessions, r \in Results : Stores(p, s, r)
           \/ \E p \in Owners : /\ session' = [session EXCEPT ![p] = NoSession]
                                /\ UNCHANGED <<cycles, runs, unsafe>>
           \/ UNCHANGED <<cycles, runs, unsafe, session>>
<1> USE DEF leaseVars, controlVars, tableVars, processVars, historyVars
<1>1. ASSUME NEW p \in Owners, ClaimSession(p)
      PROVE  \/ UNCHANGED <<cycles, runs, unsafe, session>>
             \/ \E s \in Sessions : session[p] = NoSession /\ Claims(p, s)
  <2>1. SessionAt[ts[p]] \in Sessions \cup {NoSession}
    BY SupervisorAssumption DEF TypeOK
  <2>2. session[p] = NoSession
    BY <1>1 DEF ClaimSession, Free
  <2>3. CASE UNCHANGED <<cycles, session, runs, haltedRuns>>
    BY <1>1, <2>3 DEF ClaimSession
  <2>4. CASE ~UNCHANGED <<cycles, session, runs, haltedRuns>>
    <3>1. Claims(p, SessionAt[ts[p]]) /\ SessionAt[ts[p]] # NoSession
      BY <1>1, <2>4 DEF ClaimSession, Claims
    <3> QED
      BY <2>1, <2>2, <3>1
  <2> QED
    BY <2>3, <2>4
<1>2. ASSUME NEW p \in Owners, Complete(p)
      PROVE  \/ \E s \in Sessions, r \in Results : Stores(p, s, r)
             \/ /\ session' = [session EXCEPT ![p] = NoSession]
                /\ UNCHANGED <<cycles, runs, unsafe>>
  <2>1. session[p] \in Sessions /\ result[p] \in Results
    BY <1>2 DEF Complete, TypeOK
  <2>2. CASE CompletionAdmitted(session[p], result[p])
    <3>1. Stores(p, session[p], result[p])
      BY <1>2, <2>2 DEF Complete, Stores
    <3> QED
      BY <2>1, <3>1
  <2>3. CASE ~CompletionAdmitted(session[p], result[p])
    BY <1>2, <2>3 DEF Complete
  <2> QED
    BY <2>2, <2>3
<1>3. ASSUME NEW p \in Owners, JournalFails(p) \/ Crash(p)
      PROVE  /\ session' = [session EXCEPT ![p] = NoSession]
             /\ UNCHANGED <<cycles, runs, unsafe>>
  BY <1>3 DEF JournalFails, Crash
<1>4. ASSUME NEW p \in Owners,
             \/ Launch(p) \/ AcquireLease(p) \/ Acknowledge(p) \/ Wake(p)
             \/ ReadControl(p) \/ Renew(p) \/ Heartbeat(p) \/ EnterCycle(p)
             \/ EndCycle(p) \/ ClearAcknowledgment(p) \/ Release(p)
      PROVE  UNCHANGED <<cycles, runs, unsafe, session>>
  BY <1>4
  DEF Launch, AcquireLease, Acknowledge, Wake, ReadControl, Renew, Heartbeat,
      EnterCycle, EndCycle, ClearAcknowledgment, Release
<1>5. ASSUME ControlChanges \/ RequestStart \/ ClockTicks \/ UNCHANGED vars
      PROVE  UNCHANGED <<cycles, runs, unsafe, session>>
  BY <1>5 DEF ControlChanges, RequestStart, ClockTicks, vars
<1> QED
  BY <1>1, <1>2, <1>3, <1>4, <1>5 DEF Next, Step

LEMMA SessionRunsInit == Init => SessionsRun!Init
<1> SUFFICES ASSUME Init PROVE SessionsRun!Init
  OBVIOUS
<1>1. Successful = {}
  BY DEF Init, CyclesInit, NoCycle, Successful
<1> QED
  BY <1>1 DEF Init, SessionsRun!Init

LEMMA SessionRunsStep ==
    IInv /\ Free /\ [Next]_vars => [SessionsRun!Next]_(SessionsRun!vars)
<1> SUFFICES ASSUME IInv, Free, [Next]_vars
             PROVE  SessionsRun!Next \/ UNCHANGED SessionsRun!vars
  OBVIOUS
<1>0. /\ TypeOK /\ Counted /\ Overtaken /\ NoSession \notin Sessions
      /\ cycles \in [Sessions -> CycleRow] /\ unsafe \subseteq Sessions
      /\ session \in [Owners -> Sessions \cup {NoSession}]
  BY SupervisorAssumption DEF IInv, TypeOK, CyclesTypeOK
<1>1. ASSUME NEW p \in Owners, NEW s \in Sessions, session[p] = NoSession, Claims(p, s)
      PROVE  SessionsRun!Start(p, s)
  <2>1. /\ s \notin Successful /\ runs[s] < MaxAttempts
        /\ s \in unsafe => runs[s] >= 2
    BY <1>0, <1>1 DEF Claims, Claimable, Successful, Counted, Overtaken
  <2>2. Successful' = Successful
    BY <1>0, <1>1 DEF Claims, Claimable, ClaimCycle, Successful, CycleRow
  <2> QED
    BY <1>1, <2>1, <2>2 DEF Claims, SessionsRun!Start
<1>2. ASSUME NEW p \in Owners, NEW s \in Sessions, NEW r \in Results, Stores(p, s, r)
      PROVE  \/ SessionsRun!Succeed(p) \/ SessionsRun!FailUnsafely(p)
             \/ SessionsRun!GiveUp(p)
  <2>1. SessionsRun!Stop(p) /\ session[p] = s
    BY <1>0, <1>2 DEF Stores, SessionsRun!Stop
  <2>2. \A t \in Sessions :
           cycles'[t].outcome = IF t = s THEN r ELSE cycles[t].outcome
    BY <1>0, <1>2 DEF Stores, CompleteCycle, CycleRow
  <2>3. CASE r = "successful"
    <3>1. Successful' = Successful \cup {s} /\ unsafe' = unsafe
      BY <1>2, <2>2, <2>3 DEF Stores, Successful
    <3> QED
      BY <2>1, <3>1 DEF SessionsRun!Succeed
  <2>4. CASE r # "successful"
    <3>1. s \notin Successful
      BY <1>2, <2>4 DEF Stores, CompletionAdmitted, Successful
    <3>2. Successful' = Successful
      BY <2>2, <2>4, <3>1 DEF Successful
    <3>3. CASE r = "safety_failure"
      BY <1>2, <2>1, <3>1, <3>2, <3>3 DEF Stores, SessionsRun!FailUnsafely
    <3>4. CASE r # "safety_failure"
      BY <1>2, <2>1, <3>2, <3>4 DEF Stores, SessionsRun!GiveUp
    <3> QED
      BY <3>3, <3>4
  <2> QED
    BY <2>3, <2>4
<1>3. ASSUME NEW p \in Owners, session' = [session EXCEPT ![p] = NoSession],
             UNCHANGED <<cycles, runs, unsafe>>
      PROVE  SessionsRun!GiveUp(p) \/ UNCHANGED SessionsRun!vars
  <2>1. Successful' = Successful
    BY <1>3 DEF Successful
  <2>2. CASE session[p] = NoSession
    BY <1>0, <1>3, <2>1, <2>2 DEF SessionsRun!vars
  <2>3. CASE session[p] # NoSession
    BY <1>3, <2>1, <2>3 DEF SessionsRun!GiveUp, SessionsRun!Stop
  <2> QED
    BY <2>2, <2>3
<1>4. UNCHANGED <<cycles, runs, unsafe, session>> => UNCHANGED SessionsRun!vars
  BY DEF SessionsRun!vars, Successful
<1> QED
  BY <1>0, <1>1, <1>2, <1>3, <1>4, RunsSteps DEF SessionsRun!Next

\* Whatever crashes, overlaps or completes late, what supervisors do to the
\* sessions is what SessionRuns allows, for any number of attempts.
THEOREM SupervisorRefinement == Spec => ImplementsSessionRuns
  BY SessionRunsInit, SessionRunsStep, SupervisorInvariant, FreeAlways, PTL
  DEF Spec, ImplementsSessionRuns, SessionsRun!Spec

=============================================================================
