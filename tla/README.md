# Verification of the paper-trading core of algotrader

algotrader is a research and paper-trading system. Most of its 343k lines of
Python compute signals, backtests and reports from files and share no state.
The part that can go wrong in ways a unit test hardly reaches is small: the
code that turns a plan into an order at the broker, remembers that it did so in
an SQLite journal, and survives overlapping, crashing and restarted processes.
That part is modelled here.

All source paths below are under `src/src/algotrader/`.

## The system

| Component | State it keeps | Operations | Hard behaviour |
| --- | --- | --- | --- |
| Order journal (`execution/order_journal.py`) | SQLite tables `orders`, `order_events`, `cancel_intents`, `cancel_events`, `runtime_leases`, `runtime_control`, `supervisor_cycles` | reserve, claim, mark ambiguous, record observation; the same for cancels; acquire, renew, release a lease; set the operator switches; claim and complete a supervisor cycle; backup, restore | every process on the machine shares the file; most methods are one transaction, some are two; timestamps are the caller's |
| Durable submit (`execution/durable_submit.py`) | none of its own | reserve, acquire/release lease, execute: claim, call the broker once, record or mark ambiguous | lost answers, failures while recording a failure, a crash between any two steps |
| Autopilot loop (`execution/paper_autopilot_loop.py`) | one cycle's plan, broker snapshot, lease credentials | run one cycle | works with a clock reading, a pause flag and a snapshot taken earlier |
| Autopilot control (`execution/paper_autopilot_control.py`) | none of its own | pause, resume, stop, start, offline reconcile, one-cycle, backup, restore | runs beside an active cycle |
| Supervisor (`execution/paper_autopilot_supervisor.py`) | lease token, session-cycle rows, acknowledgement, heartbeat | renew, run a session's cycle at most once, honour pause/stop | lease lost while a cycle runs; crash inside a cycle |
| Durable cancellation (`execution/durable_cancel.py`, `cancellation_reconciliation.py`, `paper_cancellation_*.py`) | `cancel_intents`, `cancel_events` rows | reserve intent, claim, cancel once, observe, reconcile | the order may fill while it is cancelled |
| Strategy sleeve ledger (`execution/strategy_sleeve_ledger.py`) | a second SQLite file: sleeves and intents | adopt, reserve intent, reconcile intent | two databases that are never written together |
| Paper mutation OMS (`execution/paper_mutation_oms.py`) | a lock file, a lifecycle log, `latest_run.json`, a cancel journal of its own | run the certification drill: submit, look up, cancel once, poll, report | what a run knows of earlier ones it reads from files others empty and overwrite |
| Crypto probe lifecycle (`core/crypto_bounded_probe_lifecycle.py` and its operator) | state files | a sibling submission path | mostly sequential |
| Risk engine, portfolio, local/fake broker, simulator, in-memory ledger | in-process objects | evaluate, apply fills | sequential |
| Signals, screener, strategy router, research, advisory, certification, daily lab, CLI | files they read and write | compute and report | none concurrent |

Interaction: a cycle (started by the supervisor, by `one-cycle`, or by hand) reads
the operator switches, takes the `paper-autopilot` lease, observes the broker,
plans, reconciles the journal's unresolved rows from what it saw, reserves a row
for the plan's client order id, reserves a sleeve intent, claims the row under
the lease, calls the broker, records the answer, asks the broker again, records
that, and releases the lease. Operators meanwhile pause, stop or run the offline
reconcile. Processes meet only in the journal file and at the broker.

What makes each component correct:

- journal and coordinator: an order is submitted at most once, never before the
  journal has evidence of the attempt, never beside another order of open fate;
  a terminal row is true; an order that reached the broker ends with a terminal row;
- lease: claims are ordered by fencing generation;
- switches: after a halt, at most the call already claimed goes out;
- supervisor: one completed cycle per session, a safety failure is never retried;
- cancellation: one cancel call per order, a canceled row is true, an ambiguous cancel
  converges with the order's own end;
- sleeves: every fill is booked once and to its own strategy, nobody sells what the
  other owns, the sleeves' quantities add up to the broker's position;
- drill: one run inside its lock, one cancel call per order however often it is repeated,
  and a report that is true for good.

## Modules

| Module | Models |
| --- | --- |
| `RuntimeLease` | the `runtime_leases` row: acquire, renew, refuse, release, the fence check |
| `RuntimeControl` | the `runtime_control` row: switches and their generation |
| `OrderJournal` | the `orders` rows; EXTENDS the two above because they are one file and one transaction may read all three |
| `PaperBroker` | the broker as the code sees it: orders, fills and ends (an environment) |
| `DurableSubmit` | the processes: cycles and offline reconciles over the journal and the broker |
| `SerialSubmission` | an abstract specification: what the coordinator promises, implemented by `DurableSubmit` and by `SleeveCycle` |
| `OneShotCancel` | an abstract specification: what cancelling an order promises, implemented by `DurableCancel` and by `MutationDrill` |
| `SessionRuns` | an abstract specification: what the supervisors promise of a session |
| `StrategyAccounts` | an abstract specification: what the sleeves promise to strategies that share an account |
| `SessionCycles` | the `supervisor_cycles` rows: claim and complete a session's cycle |
| `AutopilotSupervisor` | the supervisor processes over lease, switches and session cycles |
| `CancelJournal` | the `cancel_intents` rows, on top of `OrderJournal`: a cancel's claim reads switches and lease, its reconciliation writes both rows |
| `DurableCancel` | the processes: cancel commands, reconciliations of unresolved cancels and the cycles that record the same orders |
| `SleeveLedger` | the second database: sleeves, intents, and what each transaction admits |
| `SleeveCycle` | the cycles of the two strategies over both databases and the broker |
| `MutationDrill` | the certification drill of the paper mutation OMS, its files, its cancel journal and the broker |
| `RuntimeTypes`, `JournalTypes` | lemmas: lease, switch, row and broker operations keep their types |
| `DurableSubmitProofs` | type correctness of `DurableSubmit` |
| `DurableSubmitSafety` | its inductive invariant, the safety theorems, the refinement |
| `AutopilotSupervisorProofs` | type correctness, inductive invariant, safety theorems and refinement of `AutopilotSupervisor` |
| `DurableCancelProofs` | the same for `DurableCancel` |
| `SleeveProofs` | the same for `SleeveCycle` |
| `MutationDrillProofs` | the same for `MutationDrill` |
| `MCDurableSubmit`, `MCSupervisor`, `MCDurableCancel`, `MCSleeveCycle`, `MCMutationDrill` | instances for TLC |

`RuntimeLease`, `RuntimeControl` and `OrderJournal` are the ground that
`DurableSubmit` and `DurableCancel` stand on; `AutopilotSupervisor` uses the first two.
The compositions are checked separately: in `DurableSubmit` a cycle is a process and
holds the lease for a single run; in `AutopilotSupervisor` a whole cycle is one step
between its claim and its completion; `DurableCancel` starts from orders that were
submitted, because no cancel exists before; `SleeveCycle` reduces the journal and the
lease to what the sleeves depend on; `MutationDrill` uses `CancelJournal` and `PaperBroker`,
for its journal is another file with the same tables and nobody else in it.

### How `DurableSubmit` corresponds to the code

One step is one SQLite transaction or one broker call. `pc` says where a process is:

| `pc` of a run | the code it is about to execute |
| --- | --- |
| `idle` → `started`/`paused` | `run_paper_autopilot_loop`: `timestamp`, `_runtime_control_state` |
| → `leased` | `_runtime_lease_state` |
| → `observed` | `_observe_broker_state`, `_build_intent`, `_build_plan` |
| → `startup` | first `journal.unresolved` of `_prepare_order_journal` |
| → `preparing` | `_reconcile_journal_from_broker_snapshot`, one observation at a time |
| → `reserving` | second `journal.unresolved` |
| → `reserved` | `journal.reserve` |
| → `claimed` | `claim_pre_mutation_submit` |
| → `response` or `raised` | `submit_order` |
| → `called` | `record_broker_observation` of the answer, or `_mark_ambiguous` |
| → `post` → `releasing` | `_reconcile_after_action` |
| → `stopped` | `_release_runtime_lease`, or the process died |

`record_broker_observation` is two steps (`CheckObservation`, `WriteChecked`)
because the code reads and checks in one connection and writes in a later
transaction. `checked` holds the order between the two. What the caller does when
the call raises differs by caller, and `ObservationRefused` says how.

`ts` is the clock reading a cycle takes once and then uses for everything: its
lease can have expired long ago when it claims. `cred` is what the lease
returned. An owner id stands for one process: `run_id` is derived from a
microsecond timestamp. `BlockCycle` collects the code's reasons to give up
between planning and claiming (journal unavailable, sleeve refusal, missing
risk or freshness evidence); the reserved row stays, as in the code.

The broker knows an order once a call created it, then moves it forward by any
`Observations` value until an ending one; it never takes back a fill. It can
fail to list an order in the recent-order query (`ObserveAndPlan` sees any
subset), and an answer can be lost after the order was created.

`calls` and `haltedCalls` are history variables the properties need.

Abstracted: quantities become "some of it is filled or not"; status words the
journal does not know are one word, `held`; the plan is any plan that the
observed orders permit; report-only columns, hashes and the snapshot's age
(which only reach the report) are left out.

### How `AutopilotSupervisor` corresponds to the code

| `pc` of a supervisor | the code it is about to execute |
| --- | --- |
| `idle` → `starting` | `run`: `started_at` |
| → `leased`, or `stopped` | the first `acquire_runtime_lease`; refused, `run` raises |
| → `sleeping` | `acknowledge_supervisor_start`; fenced out, `run` returns without clearing |
| → `woken` | `sleeper`, then `occurred_at` of the next time round |
| → `renewing` | `get_runtime_control`; `stop_requested` leads to `clearing` |
| → `renewed` | `acquire_runtime_lease` with the token |
| → `claiming` | `update_heartbeat`; with trading off, back to `sleeping` |
| → `running` | `latest_completed_session`, `claim_supervisor_cycle` |
| → `acting` → `completing` | `operator_runner` |
| → `sleeping` | `complete_supervisor_cycle`; refused, it raises and leads to `clearing` |
| `clearing` → `releasing` → `stopped` | the `finally` block |

`ts` is `occurred_at`, read once per round and then used for the renewal, the
heartbeat and the session. `tradingSeen` is the `control.trading_enabled` read at
the start of the round. A `Renew` of an expired row takes a *new* lease, as
`acquire_runtime_lease` does, with a generation the supervisor then drops.
`complete_supervisor_cycle` is not fenced, so `Complete` has no lease guard.

The operator's cycle is reduced to what the supervisor can notice: it acquires the
lease a second time (`EnterCycle`) and ends with any result, which
`_operator_succeeded` and `_failure_outcome` sort into three. `JournalFails` is a
journal call that raises where the code unwinds through `finally`; `Crash` is a
process that dies.

`runs`, `unsafe` and `haltedRuns` are history variables. Left out: the reported
columns (`last_attempt_at`, `last_success_at`, `last_blocked_reason`,
`heartbeat_at`), the supervisor's error texts, and `max_loops`, which only tests set.

### How `DurableCancel` corresponds to the code

A canceller is one run of `paper_exact_cancellation`:

| `pc` of a canceller | the code it is about to execute |
| --- | --- |
| `idle` → `located` → `checked` | the local row, then `get_runtime_control`, both before the broker is asked |
| → `before` | the exact read by broker order id |
| → `recorded` | `record_broker_observation` of that read |
| → `planned` → `admitted` | the plan from the row as stored, then the switches again |
| → `reserved` | `reserve_cancel_intent` |
| → `leased` | `acquire_cancellation_lease`, with the owner of the order's own run |
| → `claimed`, or `releasing` | `claim_pre_mutation_cancel` |
| → `answered` or `raised` | `cancel_order_by_id`, the only call |
| `answered` → `after` → `outcome` → `releasing` | the read after it, `record_broker_observation`, `record_cancel_observation` |
| `raised`, `no outcome` → | `mark_cancel_ambiguous`, whose own failure is swallowed |
| `releasing unread` → `unread` → `fallback` → `fallback outcome` | after a raised call: release, then one more read and the two records |

Both records are two steps (`CheckOrder`/`WriteOrder`, `CheckCancel`/`WriteCancel`),
as in the code. `at` and `invokedAt` are separate because the coordinator records with
the time of the invocation while the fallback uses the time of its own read. A
reconciler is the exact observation of an unresolved cancel; it stamps its answer after
the answer came (`StampObservation`), and `Reconcile` is one transaction over both rows.
A watcher is a trading cycle reduced to what it writes of the same orders.

Two claims differ from the submit side: the intent's id is a hash of the observation
it was planned from, so another command's intent for the same order is another value;
and the lease is taken in the name of the run that submitted the order, so two
commands share an owner.

Left out: the identity and configuration checks, which are equalities of constants, and
the report the command writes.

### How `SleeveCycle` corresponds to the code

| `pc` of a run | the code it is about to execute |
| --- | --- |
| `idle` → `leased` | `run_paper_autopilot_loop`: timestamp, lease |
| → `counted` → `listed` | `_observe_broker_state`: `get_positions`, then the orders |
| → `settling` → `settled` | `_reconcile_pending_strategy_sleeve_intents` |
| → `planned` | the rest of `_strategy_sleeve_state` (adopt or compare), `_build_intent` |
| → `startup` → `preparing` | `_prepare_order_journal`: the unresolved rows and what was seen of them |
| → `reserving` → `reserved` | the second `unresolved`, `journal.reserve` |
| → `owned` | `_prepare_strategy_sleeve_intent`: `reserve_intent` in the other database |
| → `claimed` | `claim_pre_mutation_submit` |
| → `response`/`called` | `submit_order` and the record of its answer |
| → `post` → `closing` | `_reconcile_after_action`: the order listed again and recorded |
| → `releasing` → `idle` | `_reconcile_strategy_sleeve_after_action`, release |

The two stores are separate variables that no step changes together, except the
history. `SleeveLedger` has one operator per transaction, with its admission apart from its
effect. A settlement that was already made is admitted again and changes nothing, as the
code's early return does. The broker may answer with any status and quantity of `Answers`
and a canceled or expired order may have been filled in part; a sale never sells more
than was asked for, which is the broker's own promise (`MayAnswer`).

The two order queries of `_observe_broker_state` are one partial listing: each is
bounded, and together they may miss any order. The lease is reduced to its holder, and
any run may take it at any time: an earlier holder may always have let it expire, and
what a run does with a lost lease is to fail its claim. `Block` collects the refusals
between preparation and settlement. The ledger is never told that a plan was given up.

`net`, `adopted` and `calls` are history variables; `net` is what the broker would
report per strategy if it knew strategies.

### How `MutationDrill` corresponds to the code

| `pc` of a run | the code it is about to execute |
| --- | --- |
| `idle` → `begun` | `_has_local_submit_without_final_artifact` |
| → `opened` | the lifecycle log is kept or emptied |
| → `locked`, or `reporting` | `MutationProcessLock.acquire`; refused, the run only reports |
| → `cleared` | `_has_unresolved_prior_mutation` |
| → `planning` or `recovering` | `_observe_pre_mutation_state` and its blockers |
| → `attempted` | the `submit_attempt` line of the log |
| → `answered` or `unanswered` | `submit_order` |
| → `settling`, or `releasing` | the lookup by client order id |
| → `reserved` → `leased` | `_cancel_and_reconcile`: `reserve`, `acquire_lease` |
| → `cancelling` → `responded`/`raised` | the claim, `request_order_cancellation` |
| → `cancelled` → `polling` | the record of the answer or of the ambiguity, `release_lease` |
| → `releasing` → `reporting` → `idle` | the poll, `lock.release`, `latest_run.json` |

A process runs the drill again after it ended, so the next run in the model is the same
process or the other one. `Kill` loses the process and leaves its lock and its lease, after which
every run is refused; `Interrupt` is an exception that passes through the `finally` blocks.
An outcome is one of four kinds (nothing yet, blocked, unresolved, resolved): the code decides
from nothing else. The order ends in any of the broker's ways but `done_for_day`, which the other
modules' journals do not know either. Left out: the request's content and its checks, which
block before any call (`Block`), and the reports beside `latest_run.json`. `calls`, `reported` and
`missed` are history variables; `missed` says that the broker had the order and the listing the run
planned from left it out.

## Runs

| Run | Instance | Question |
| --- | --- | --- |
| `submit` | 2 runs, 2 orders, clock 0..1, lease 1, one control write | submission under overlap, expiry, crash, lost answer, halt; does the coordinator implement `SerialSubmission` |
| `reconcile` | 2 runs, 2 orders, 1 offline reconcile, a partial fill with a pending cancel and its end, clock stopped | are terminal rows true when old and new answers are recorded out of order, what reopens one, can the end of an order always be recorded, and does every order at the broker end with a terminal row |
| `terminal` | 1 run, 1 offline reconcile | can a terminal row reopen (it can: see below) |
| `supervisor` | 2 supervisors, 1 session, clock 0..2, lease 1, 2 attempts, one control write | all safety properties of the supervisor under overlap, expiry, crash, restart, halt and start request; does a stop end every supervisor, and is the session settled; do they implement `SessionRuns` |
| `safety_retry` | 2 supervisors, 1 session, clock 0..3, lease 1, three attempts, no control write | can a session be run again after a safety failure (it can: see below) |
| `cancel` | 2 cancel commands, 1 reconciliation, 1 order that is open or canceled, clock 0..1, lease 1, one control write | is an order cancelled at most once, and never without evidence, whatever was killed and repeated; can a cancel that worked be put on record; does it implement `OneShotCancel` |
| `cancel_outcomes` | 1 cancel command, 1 reconciliation, 1 trading cycle, a pending cancel and two different ends of the order, clock stopped | are terminal rows of both tables true, and do both rows converge after an ambiguous cancel |
| `cancel_stale` | 1 cancel command, 1 reconciliation, partial fills, clock 0..1 | can a reconciliation take back a fill (it can) |
| `sleeve` | 2 overlapping cycles of either strategy, two sales and a buy, an adopted position of 1, 2 session days with a cap of 1, partial fills | are sleeves true, sales within them, a quiet ledger equal to the broker, the cap kept, every end settleable; does it implement `StrategyAccounts`, and still `SerialSubmission` |
| `sleeve_live` | 2 runs of which one keeps going, 1 order, every end of it, 1 day | is every order that reached the broker settled in the end |
| `drill` | 2 processes that run the drill again and again, an order that is open, canceled or filled, 2 leases, clock 0..1 | one run inside at a time, true reports, no submit repeated of an order the broker listed; does it implement `OneShotCancel`: one cancel, and never without its evidence |
| `drill_forgets` | 1 process | can a run submit after an unresolved outcome (it can: see below) |

The instances are kept small enough that each finishes within a minute: what a larger one
would add is the subject of the theorems, which hold for every value of the constants.

Bounds of the `DurableSubmit` runs: `MaxTime` 1 with `Ttl` 1 lets a lease expire under a cycle, a second
cycle take over, and both race to the claim; a run is one process, so a
restarted cycle is the second run. Two orders are needed for two outstanding
ones; two runs for an overlap; a third of either adds nothing a pair cannot show,
since every guard is about one other order or one other holder, and the theorems
below hold for any number. `MaxControlWrites` 1 is one halt; what follows a halt
does not depend on how often switches were moved before. Runs end, and so do supervisors
once launched, and cancel commands; every bounded clock and every finite set of orders is
used up. So every cfg says CHECK_DEADLOCK FALSE. Symmetry permutes the two runs in
`submit` and `sleeve`, the two sales of one strategy in `sleeve`, the two commands in `cancel`
and the two processes in `drill`, none of which checks a liveness property.

`reconcile` takes the broker answers that can contradict each other: an accepted order, a partial
fill with a pending cancel, and the end with that fill. A pending cancel taken for an end, a
fill taken back and an end recorded before an older answer all need these three and no others.

The `terminal` run refutes what an error message and a test of the repository
say ("terminal order journal state cannot change."): a cycle checks an open
answer against a non-terminal row, the offline reconcile stores `filled`, and the
cycle then writes its older answer. `TerminalRowIsTrue` still holds (a terminal row never
lies) and `EventuallyJournaled` shows that the row is closed again as long as
somebody reconciles. `ReopensByOlderAnswerOnly` says how far it goes: nothing but the write of
an answer that was checked before the row was closed reopens it, no late
`mark_submit_ambiguous`, claim or reservation ever does, and the reopened row goes on blocking the
next order.

Bounds of the supervisor runs: an owner id belongs to one process, so the second
supervisor is the overlapping one and the restarted one. The session completes at time 1,
and the lease of 1 in a clock of 2 leaves time for a supervisor to claim it, lose the
lease, a successor to claim the same session and complete it, and the first to complete
after it; `SuccessIsFinal` needs all of that to be broken. One session is enough: every
guard of the claim and of the completion is about that session's row, and the theorems hold
for any number. One control write is a halt or a start request. Two attempts are the
configuration's default, and the smallest number with a retry. Liveness is checked on the
same instance, without symmetry.

The `safety_retry` run refutes the comment of `claim_supervisor_cycle` ("retrying
only unfinished local failures") and the name of a test
(`test_safety_and_ambiguous_failure_never_retries`): supervisor A claims a session
and loses its lease, B claims it again and stores `safety_failure`, A's late
completion stores `retryable_failure` over it, and the third attempt is granted. It
takes `max_cycle_attempts` of three or more; with the default of two, A and B have used
up the attempts (theorem `SafetyStands`).

Bounds of the cancellation runs: every guard of the cancellation code is about one
order and its own intent, so one order is enough; two commands are the overlap and the repeat
after a kill, with intents that differ in the time they were planned at (clock 0..1). The
lease of 1 can expire under a command, and the second then takes it over in the same owner's
name. `MaxAge` 1 keeps a plan fresh for the whole run, which admits more, not fewer,
invocations. `cancel` is about who may call the cancel and what it leaves, for which an order is
open or canceled; the answers in between and the other end are in `cancel_outcomes`. `cancel_outcomes` stops the clock: time
plays no part in whether a row is true. The staleness check therefore refuses nothing there; it does in
`cancel`, where `CanceledIsRecordable` says that it never stands in a true cancel's way, and what it
lets through is the subject of `cancel_stale`.

`record_cancel_observation` has the two transactions of the `terminal` run too (and an error
message "terminal cancel journal state cannot change."), so a command's older
`cancel_accepted` can replace a reconciliation's `canceled`; `TerminalRowsAreTrue` and
`CancelConverges` hold all the same. This is also why `OneShotCancel` has an `Unlearn` step:
what is known of a cancel can be forgotten again, but never be wrong. `cancel_stale` refutes `docs/deterministic_core.md:175-179`
("stale observations ... fail closed"): the time compared is the reader's clock after the
answer came, so an answer given before a partial fill can be stamped after the row that
knows of the fill, and then takes it back. The fill comes back with the next observation.

Bounds of the sleeve runs: two runs are the two scheduled tasks, or one task that was killed
and started again; each run may work for either strategy in each of its cycles. Two sales and a
buy with a held position of 1 are the smallest set in which one strategy adopts, sells,
could sell twice, and the other buys beside it; the cap of 1 binds within a session, and the
second session day lets a second order follow, and lets recovery find an intent of an
earlier session. `sleeve` lets an order be open or end after a fill of one unit ("canceled with a
part filled"), the end that a careless settlement would drop; `sleeve_live` has all four
answers, "rejected" with nothing filled among them, for one order. Mutants of the sleeve runs showed one redundancy worth
knowing: the ledger's own checks of a stale sleeve quantity (`IntentAdmitted`) can be
dropped without breaking a property as long as the journal refuses a claim beside an
unresolved row; they are a second line of defence.

Bounds of the drill runs: the drill has one order, and whatever two processes can do to it
by repeating themselves is reached with two processes that never stop repeating. Two leases let
a run come after one that was killed or interrupted with a lease; the lease of 1 in a clock of 1
expires under its holder. In `drill` the order is open, canceled or filled: the end the drill wants and one it does not.
`drill_forgets` adds a pending cancel and expired, which the outcome table calls unresolved. A run
that is refused the lock empties the log of the run that holds it, so a run that comes after a crash may not
know that the order was submitted. `ResubmitsOnlyUnlisted` says what is left of the protection: the broker's
listing, which the lock keeps valid up to the submit. The listing is bounded and may miss the order; then
only the broker's refusal of a client order id it knows keeps the order single. Three
properties of the drill are theorems without a run of their own, for they follow from
`OneShotCancel`: `AtMostOneCancel`, `CancelLeavesEvidence` and `CanceledRowIsTrue`.

The `drill_forgets` run refutes the name of a test
(`test_ambiguous_submit_without_broker_order_blocks_next_mutation`), which looks at one more run:
that run is blocked and overwrites `latest_run.json` with `blocked_unresolved_prior_mutation`,
which is not an unresolved outcome, so the run after it submits. The client order id is the same,
so the broker can still refuse a duplicate; that, and not the files, is what keeps the order single.

Fairness of `DurableSubmit` (`FairSpec`): weak fairness for the offline reconcile of each operator and
for the broker ending an order it accepted. Runs get none: every cycle may
have crashed. The operator's fairness is the runbook's instruction to reconcile until
the journal agrees; without it nothing in the code closes a row.

Fairness of `DurableCancel`: operators start a reconciliation while an unresolved cancel is
there, and a trading cycle goes on looking (weak fairness); each of their further steps
succeeds in the end when it is tried again and again (strong fairness), which a kill or a
locked database at any one of them does not contradict. Cancel commands get none, and
neither does the broker: `CancelConverges` speaks of orders it did cancel. The trading
cycle is needed because a cancel row can be terminal while a slow record reopens the order's
row; the reconciliation does not look at it any more.

Fairness of `SleeveCycle`: one scheduled task goes on starting cycles; it may be killed or fail
at any step, but not always at the same one, and the listing of orders is not always partial
(strong fairness of the steps that lead to a settlement). The broker ends open orders.
The other task gets no fairness: it may stop for good anywhere, with the lease, with a row, or
with an intent.

Fairness of `AutopilotSupervisor` (`FairSpec`): weak fairness for each supervisor's
next step after its launch, and for the clock. No call of the loop blocks for ever: SQLite
waits at most for its busy timeout, the sleep is bounded, and the operator's cycle ends or
raises. `Launch`, `JournalFails`, `Crash` and the operator get none. `StopIsObeyed` asks that the
stop is not withdrawn; `SessionsSettle` that trading stays allowed and that somebody
stays in the loop, which is exactly what an undisturbed supervisor does.

## Theorems

### `DurableSubmit`

All for any orders, plans, runs, operators, lease time and broker answers, from the
named ASSUMEs (`NoOwner`, `NoPlan`, `NoOrder`, `Absent` are distinct from the real values;
`Ttl` positive; `OrderOf` is a function; runs and operators are disjoint). `NoDeadEnd` also
uses `FillAssumption`: a broker that reports an order filled or partly filled names a
quantity. Without it the journal could store a fill without one, and the reconcile's check
against a shrinking fill (`paper_autopilot_control.py:921`) would compare something else.

`TypeCorrect` needs `Discipline`: a run past planning has a plan, nobody records
an order its own snapshot does not show. Without it, a row could be written with
"absent".

The safety theorems share one inductive invariant, `IInv`. Besides the properties themselves it says:

- `Evidence`: an order at the broker was called for; a run about to call the
  broker owns the row (`run` is its own), the row says attempted, nobody
  has called yet. This gives at-most-once, and, with the row's owner, that two
  runs are never both about to call.
- `Answers`: a process holds only answers the broker gave, and a final one is still
  what the broker would say. This is why an old snapshot cannot make a terminal
  row false even though `record_broker_observation` does not check again.
- `Halted`: no run is about to call while the count of halted calls is positive.
- `Fenced`: rows carry no generation the lease has not reached.
- `Fills`: a row that says filled, or partly, is of an order that has a fill.

`NoDeadEnd` is the safety half of `EventuallyJournaled`. The run shows that a row is closed
under fairness on two orders; the theorem, that for any number of them there is never
a state in which neither the record of a cycle nor the offline reconcile would accept the truth.
It needs `TerminalRowIsTrue` (a terminal row takes only its own state again), `Evidence`
(the order has a row) and `Fills` (no row claims a fill that the end does not have).

`OneOutstanding` follows because an admitted claim saw every other row resolved,
and by `TerminalRowIsTrue` resolved rows are over at the broker.
`Refinement` maps claimed rows, call counts and broker-ended orders onto
`SerialSubmission`: a committed claim is `Claim`, a broker call `Submit`, the broker
ending an order `Settle`, and everything else stutters.

`OnlyOlderAnswersReopen` needs `TerminalRowIsTrue` and `Answers`: a final answer that is written
late equals what the row says, so only one that was not final can change it; every other
transaction asks for a state that no terminal row has.

### `AutopilotSupervisor`

For any supervisors, sessions, calendar, lease time and number of attempts, from
`NoSession` and `NoOwner` being distinct from the real values, a positive `Ttl` and
`MaxAttempts`.

`TypeOK` is inductive by itself. The safety theorems use `IInv`, which adds:

- `Counted`: a session's row counts exactly the runs started for it. With the guard of
  the claim this is `AttemptsBounded`.
- `Holders`: a supervisor in a session's cycle (between its claim and its completion) made an
  attempt of its own, so two supervisors in the same session's cycle mean two attempts.
- `Overtaken`: a session with a recorded safety failure either still says so, or has
  used two attempts: only a supervisor that was overtaken can write over it. This gives
  `SafetyStands`, under its explicit hypothesis `MaxAttempts <= 2`.
- `Halted`: a supervisor that has started a run since the halt reads the switches again
  before it starts another one, and sees the halt. This gives `HaltBoundsRuns`.
- `Acknowledged`: as long as the lease row is still the one a supervisor acknowledged its
  start under, no other pid is recorded; the fence of
  `clear_supervisor_acknowledgment` asks for exactly that row.

`SuccessStands` and `OwnPidOnly` are action properties and follow from a step's guards and
`IInv`.

`SupervisorRefinement` maps the started runs, the session each supervisor is in, the rows that
say successful and the recorded safety failures onto `SessionRuns`: a granted claim is `Start`, a
completion `Succeed`, `FailUnsafely` or `GiveUp`, a crash `GiveUp`, and everything the lease,
the switches and the clock do stutters. It holds for any number of attempts, so it also says what
remains of the safety rule when there are more than two: a rerun after a safety failure takes a second
attempt that hid it. The step needs `Counted`, `Overtaken` and one more invariant, `Free`: a
supervisor outside a cycle holds no session.

### `DurableCancel`

For any cancel commands, reconciliations, cycles, orders, lease time and clock, from
`CancelAssumption` (the kinds of process are disjoint, every order was submitted by a run)
and the assumptions of the modules below. The invariant adds to `TypeOK`:

- `Holding`: a process past its first step has a target, and what it holds of the broker is an
  answer for that target.
- `Exclusive`: a command about to call the broker owns an intent that says attempted and
  nobody has called for it; two such commands are the same. The claim asks for the
  state "reserved", and no later write leads back to it.
- `Truthful`: a process holds only answers the broker gave, and one that ended the order is
  still what the broker would say; rows are over only after such an answer, and as it says. This
  carries `TerminalRowsAreTrue` through the four steps of a record.
- `Stamped`: no stamp a process holds and no row's time is later than the clock, and every order
  keeps its row. A reconciliation that looks now is then never refused as stale, which is what
  `CanceledRecordable` needs beside `Truthful`; it is the safety half of `CancelConverges`.
- `Called`: whoever records the outcome of a cancel has called the broker.

`CancelRefinement` maps the rows whose cancel was attempted, the calls, the orders the broker
canceled and the rows that say so onto `OneShotCancel`: the claim is `Attempt`, the call `Call`,
the broker's own change `Cancel`, and a record or a reconciliation `Learn` or `Unlearn`. `Exclusive` gives
the guard of `Call`, `Truthful` that of `Learn`.

### `SleeveCycle`

For any runs, orders, strategies' orders and sides, cap, held position and answers, from
`CycleAssumption` and the ledger's own. `IInv` is a conjunction of nine parts:

- `RowsInOrder`: the journal row comes before the intent, there is no order at the broker
  before the claim, and a final answer in a row is the broker's.
- `IntentsFirst`: an order at the broker has an intent, and a settled intent equals the
  broker's end.
- `ToldTrue`: an answer in a row, in a listing or about to be settled was the broker's, and
  a final one still is.
- `Progress`: what a run between two steps knows about its own order.
- `Alone`: two runs between the reservation of the row and the call are not at work on one order.
- `OnePending`: at most one intent is pending over both strategies.
- `Books`: `SleevesAreTrue`, and for the one pending intent: its sleeve still shows what it had
  before, the history equals that and what its order moved since, and a sale asks for at least
  one and at most what was there before.
- `Adoption`: before an adoption sleeves and adopted quantities are 0, and nothing is planned if a
  position is held; afterwards the adopted quantities add up to the held position.
- `WithinCap`: the intents of a session are within the cap; calls are a subset of intents.

`SellsOnlyItsOwn` follows from `Books`, `OnePending` and the quantity an intent was admitted
with: a sale in flight asks for no more than its sleeve has.

`AlwaysSettleable` is the safety half of `IntentsSettle`. `reconcile_intent` refuses when the
sleeve is not as the intent found it, when a settled intent has another result, and when a
sale is larger than its sleeve; `Books` and `IntentsFirst` exclude all three for any end
the broker gives, as long as a sale never sells more than was asked for (`MayAnswer`).

`SleeveRefinement` maps what a strategy owns at the broker (`adopted + net`), its sleeve, the
pending intents, the settled ones and the position nobody adopted onto `StrategyAccounts`. A reserved intent
is `Open`, an answer or a move of the broker `Fill`, the first settlement `Book`, an
adoption `Adopt`; a second settlement of the same intent, every step of the journal and of
the lease, and every crash stutters. `Fill` needs `SellsOnlyItsOwn` in the next state, `Book`
needs `Books` there, and `Adopt` and `Open` need `Adoption`.

`SleevesSubmitSerially` shows that the same cycles implement `SerialSubmission` too, as
`DurableSubmit` does: putting the ledger's intent between the journal's row and its claim takes
nothing from the coordinator's promise. It needs one more invariant, `Called`: an order is claimed
before it is called for, an order at the broker was called for, and a run about to call finds the
count at zero, for which `Alone` keeps a second run from the same order. Two consequences are
stated as theorems: `SleeveSubmitsOnce` from `Called`, and `SleevesOneAtATime` from the refinement
alone, by the invariant of the abstract specification that says two claimed orders are never both
open (`SerialKeepsOne`).

### `MutationDrill`

For any processes, orders, run id, lease time and broker answers, from `DrillAssumption` (the
drill's order and run id are among the orders and owners) and the assumptions of the modules below.
The invariant adds to `TypeOK`:

- `Locked`: whoever is inside holds the lock. A refused run never gets inside, and its release is of
  a lock it does not have.
- `Claimed`: the cancel was called at most once; a run about to call it finds the count at zero and
  the row attempted; once it was called the row stays attempted. The claim asks for the state
  "reserved", which no other write leads back to, so a log that was emptied and a report that was
  overwritten do not matter.
- `Knows`: what a run remembers of the order was the broker's answer, and a final one still is; a
  response that said canceled was true; a resolved outcome comes from a final answer.
- `Recorded`: the report and the cancel row are true. They stay so because an order ends once.
- `ResubmitsOnlyUnlisted` itself: only a run inside submits (`OrderOrigin`), so by `Locked` no order comes
  to exist between another run's listing and its submit.

`DrillRefinement` maps the drill's own cancel journal and broker order onto `OneShotCancel`, the
specification that `DurableCancel` implements too: two implementations that share no
process and no file keep the same promise. `Claimed` also says that a run with a response or an
exception in hand has called, which is what a record's `Learn` needs.

### Model-checked only

`EventuallyJournaled`, `StopIsObeyed`, `SessionsSettle`, `CancelConverges` and
`IntentsSettle`: liveness under fairness is outside what the prover handles. Of three of them
the part that is safety is proved (`NoDeadEnd`, `CanceledRecordable`, `AlwaysSettleable`: no state of
the tables ever refuses the answer that the fairness is about). The refutations of the violation
runs are TLC's too. Every safety property and every refinement that a passing run checks is also a
theorem; so are the drill's types (`DrillTyped`) and three properties of the drill that follow from the
refinement its run checks (`DrillCancelsOnce`, `DrillCancelEvidence`, `DrillCanceledTrue`).

## Not modelled, and the plan

Most of the repository's lines compute: signals, backtests, screening, evidence packets,
briefs, dashboards and the daily lab read files and write reports, in one process, without
state that two steps could disagree about. A state machine of a report builder would restate
it. The models therefore cover a small share of the lines and nearly all of
the code in which steps of several processes meet.

In order of use:

1. `JournalBackup`: restore while processes run that hold claims or a lease, and the loss
   of rows written after the backup.
2. `AutopilotSupervisor` composed with `DurableSubmit`: the supervisor's cycle and a
   `one-cycle` command that share the lease and the switches.
3. Algorithms as operators, against reference definitions: the cancellation planning policy
   and candidate selector, the lifecycle replay, the risk engine's limits,
   `crypto_bounded_probe_lifecycle`.
Not planned: broker adapters (I/O; the broker is an environment), signals, screener,
router and research (pure numerics), reports, packets and the CLI.
