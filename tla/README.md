# Verification of the trading agent

TLA+ models of the concurrent parts of the backend: how a trade proposal becomes an order and
a position, how a position leaves the books, how workflow runs live, step and start other
runs, how the trading mode changes, and how demo orders are to be approved automatically. TLC
checks small instances; TLAPS proves the main safety results for every value of the constants.
Paths below are relative to `src/backend/app/`.

## 1. The system

A *project* owns *workflows*. A scheduler (one asyncio loop) fires *runs*, Celery workers
execute their steps: market data, LLM prompts (the HAWK votes, SAGE), gates, approvals. A run
compiles a *trade proposal*; a person approves and executes it over HTTP, or the run's own
gate executes it. An execution places an entry, a stop-loss and take-profits on Binance
Futures and records an execution, a position and a journal row. A monitor run later finds the
position gone and finalises it. Screener runs rank coins and dispatch one run per coin. The
kill switch and the acknowledgement of losses block new trades; the trading mode decides
whether and where an order goes.

| component | state | operations | interacts by |
|---|---|---|---|
| `crypto/services/execution_service.py` | transaction of one execute call | `execute` | rows, advisory locks, exchange |
| `services/run_executor.py`, order steps | transaction of a run | `_run_exchange_execute`, `_auto_execute_trade_proposal`, promotion | rows, exchange; no locks |
| `agents/tools/exchange_tool.py` | none | `place_order`, `screen_usdt_symbols` | exchange, mode keys |
| `api/routes/v1/trading.py` | `trade_proposals` | approve, reject, execute | rows; raises into the session |
| `services/kill_switch.py`, `execution_preflight.py` | none (read positions, journal) | `check`, `expire_old_proposals`, `prepare_execution_plan` | rows |
| `services/risk_ack.py` | one `app_settings` row per project | record, read, consume | rows |
| `services/crypto_persistence.py` | proposals, votes | `save_trade_proposal` | called by the executor |
| `crypto/services/position_monitor.py` | none | `build_snapshot` | rows, exchange |
| `services/position_lifecycle.py` | positions, journal | `finalize_from_snapshot`, `finalize_from_monitor_output` | rows, exchange |
| `services/run_executor.py`, loop | step rows, index, in-memory context | `execute`, `resume_approved`, `resume_rejected`, `resume_from_blocked`, the step handlers | rows, LLM, order steps |
| `services/crypto_handoff_validator.py`, `hawk_output_repair.py`, `handoff_contracts.py` | none | validate, repair, contracts | called by the loop |
| `services/run_executor.py`, screener | flushed child runs | `_run_coin_screener` | rows, Celery messages |
| `worker/tasks`, `worker/celery_app.py` | messages, retries | `execute_run`, `resume_run`, `override_approve_run`, the beats | Celery, rows |
| `services/schedule_runner.py` | a tick's selected runs | `_tick` | rows, dispatch by subprocess |
| `services/recovery_worker.py` | none | requeue due runs, reap orphans | rows |
| `api/routes/v1/runs.py` | `runs` | approve, reject, retry, override-approve | rows, dispatch |
| `services/trading_mode.py`, `services/app_setting.py` | two settings rows, two Redis keys | PATCH, start-up sync, resolve | rows, Redis |
| `services/demo_auto_approval*.py`, `hawk_condition_watch.py` | one Redis key | the evaluator beat | Redis, Celery |
| `db/session.py`, `db/locks.py` | sessions, locks | commit, rollback, `advisory_xact_lock` | |

`PROJECT.json` lists every component, the modelled and the others, with the reason.

What is hard here: transactions over shared rows, with locks taken by some writers and not by
others; errors raised after a side effect on the exchange, which roll back the rows but not
the order; writes of changed attributes by primary key from stale copies; state kept in a
worker's memory across steps but not across deliveries; messages that are sent before a
commit, lost, repeated or late; two Redis keys that are one value; a counter in Redis without
a lock; a batch write that fails as a whole. The hazards in `PROJECT.json` name each at its
line.

What makes the parts correct: the cap and one open position per market under concurrent calls;
SUCCESS means protected; exposure stays tracked; a proposal is completed at most once; an
acknowledgement lets one trade through; a row is closed only for a trade that has left; a
clean-up takes no live stop; at most one scheduled run of a workflow is active; an order goes
the way the votes went; one stored proposal is one order; no completed step runs again; the
keys agree with the rows; a confirmation has a witness; screeners keep out of each other's
coins; nothing waits for ever.

## 2. Modules

Each component module has an `MC...` module with its instances and, but for `PositionBook`, a
`...Proofs` module.

| module | what it is |
|---|---|
| `OrderExecution` | execute calls with their locks and transactions, reviews, expiry, acknowledgement, exchange, closes |
| `PositionBook` | abstract book of positions, implemented by `OrderExecution`, and its ledger, implemented by `PipelineExecution` |
| `PipelineExecution` | the order paths without locks, composed with `OrderExecution` over the same tables |
| `PositionLifecycle` | monitor runs, the trades of a symbol, protection orders |
| `RunLifecycle` | run rows, routes, Celery tasks, scheduler, reaper, recovery, time |
| `StepLoop` | one run step by step: gates, votes, validators, jumps, stops, resumes |
| `Screener` | screeners, the runs they dispatch, commits, messages, exclusion |
| `TradingMode` | mode changes, start-up sync, orders that resolve the mode |
| `AutoApproval` | beats, the READY streak, the guards of the policy |

`RunLifecycle` and `StepLoop` look at the same executor from two sides: overlapping deliveries
of runs whose steps are opaque, and one delivery at a time of a run whose steps are not.
`StepLoop` abstracts the order to a step that fills or not; `PipelineExecution` is that step.

### OrderExecution and PositionBook

One `Request` is one call of `POST .../execute` of one project: one database transaction. `pc`
follows `execute`: `cap_lock`, `proposal_lock`, `replay`, `row_lock`, `checks`, `entry`,
`stop`, `targets`, `commit`, then an outcome. `tx` holds the flushed, uncommitted writes;
`CommitTx` moves them to the tables, `Rollback` drops them, both release every lock (`EndTx`),
as `get_db_session` and transaction-scoped advisory locks do. `StopRaised` commits before the
error leaves, as the code does at line 412; `EntryRaised` does not, so the handler's own
writes are lost.

* `PreCheck` reads status, expiry, open positions, journal and acknowledgement in one step.
  The code runs several statements; they all read committed rows, the cap lock keeps other
  execute calls from committing positions in between, and the proposal's row is locked.
  Checks on mode, filters, levels and prices are the free choice of `Refuse`.
* `born` is the start order of transactions: `created_at` defaults to `now()`, the start of
  the transaction, so the journal is ordered by it and not by commit time.
* `EntryRaised` chooses whether the order filled, because a time-out does not tell. The
  exchange's own duplicate check on the client order id is not assumed.
* `ReviewRead` and `ReviewWrite` are two steps: the route reads unlocked, then updates by id.
* With one project the cap lock makes the proposal lock redundant; it is modelled all the same.
* `FAILED` rows are never committed by this path: `ExecutionStatus` has the value for
  `PipelineExecution`.
* `PastLosses` is a streak of losses of earlier trades at the head of the journal; an OPEN row
  of a new trade breaks it, as in the code.

`PositionBook` says what the book promises: a trade enters once, only while there is room and
its market is free, a proposal completes at most once, positions are flagged and closed.
`RefinesBook` maps `book` to `position` and `complete` to the proposals with a SUCCESS row.
`LedgerSpec` is what is left of that promise when orders also come on the paths without locks:
no room, no market, no bar to an unprotected trade beside a complete one; still a completed
proposal and its position enter together, once, and a position that has closed stays closed.
`RefinesLedger` uses the same mapping.

### PipelineExecution

`path` says how a request gets to the exchange: `service` (the calls above), `auto` (a run
that compiles and executes), `resume` (a run approved after a wait), `route` (the branch of
execute that uses `place_order`). `PathMixes` is the set of mixes of paths that may meet. A
delivery is one transaction: `LoadProposal` asks the kill switch and reads the run's newest
row, `Compile` updates it and keeps it locked to the end of the run, `PreflightPass` reads
committed tables, `OrderFilled` and `Protect` talk to the exchange. The rows of the order
follow statement by statement, and `FinishRun` commits:

* `Insert` enters the partial unique index on the SUCCESS executions of a proposal: it waits
  for another uncommitted one and is refused by a committed one (`InsertConflict`: everything
  is rolled back, the order is not).
* `Refer` is the foreign key's `FOR KEY SHARE` on the proposal's row. Only a `FOR UPDATE`, which
  is what the service's calls take, conflicts with it; the `UPDATE` of a compiling run does
  not. So the route can insert and commit its SUCCESS while a run of the same proposal stands
  between its preflight and its order, and `RetryTradesNothingTwice` says so.
* `BurnAck` updates the acknowledgement's row, `Settle` the proposal's (not for the route). A
  resumed run locks its proposal only there.
* These waits can form rings. `Awaits` and `InRing` say who waits for whom, `DeadlockAbort` and
  `ServiceConflict` are Postgres's detector, which aborts one transaction of a ring.
* `LoadProposal` buffers the status only if it differs from the one read: SQLAlchemy leaves an
  unchanged attribute out of the `UPDATE`, even if the row gets another status before it.
* `ExposureIsRecorded` is of deliveries that finish. The row may be a FAILED execution, which is
  what an order that filled with its answer lost gets: exposure without a position, told from a
  refused order by nothing. A crash and a conflict at the index leave no row at all.
* A first save by each of two overlapping deliveries inserts two rows; those are different
  proposals here.
* The spot path, whose failing stop is a warning, and the unused status PENDING of an
  execution are not modelled.

### PositionLifecycle

One symbol and side; rows of other symbols never meet. `Enter` puts a trade on the exchange
with its `resting` orders, `RecordTrade` commits its row, `Exit` and `StopLost` are the
exchange's. A run takes a snapshot row by row (or reads an LLM's text), then for each entry
`SelectRow` (the newest tracked row of the symbol), `Confirm` (asks the exchange again, before
a close only), `Flag` or `Close` (flush, row locked), `Cleanup` (cancels order by order), and
`CommitRun`. Figures are sets of the exits they sum up, not amounts; `Reported` bounds the
trades whose exits the incomes show. `Fault` bounds refused requests, lost answers, dead
workers and switches of the mode.

`mode` is paper or an order-capable mode, and `SwitchMode` may come between any two steps, for
each read in the code resolves it anew. In paper mode a snapshot is stubs (`StartRun`); when
the run ends, `Hook` takes the snapshot only if the mode is not paper then, and hands the run's
last output to the text path otherwise. There `Confirm` asks the exchange in an order-capable
mode only: in paper mode the close the text reports stands, also for the row of a live trade,
and `Cleanup`, which goes by the row and not by the mode, then cancels that trade's stop.
`unasked` holds these trades; `ClosedIsFlat` and `LiveStopKept` except them, and
`lifecycle_paper.cfg` shows one.

Trades here are of an exchange account: simulated rows have no exposure and no orders there.
Rows that recorded no order ids, which the clean-up skips, and live detect-only mode are not
modelled.

### RunLifecycle

`run` holds the rows, all with `trigger = 'schedule'` (the ones the unique index constrains),
`task` the Celery messages and workers. SQLAlchemy writes the attributes that differ from the
loaded copy, by primary key: `Flush`. A worker loads (`Load`), marks the run running and
commits (`Start`), holds the row from its first completed step (`Advance`) and commits again
when the run waits, pauses, blocks, fails or completes (`Finish`). Routes do not look at the
status, so neither do their actions. `Raise` is Celery's retry, or `_mark_run_failed` after
the last one. The step index has the type `Nat`, not the range of the steps, because stale
workers can leave the status of one writer beside the index of another.

A tick goes through `FireSchedule` (guard, insert, commit, dispatch), `SelectOrphans`,
`WriteOrphans` (the select does not lock, the flush waits for rows), `RequeueDue` (one flush
for all due runs) and `Dispatch`, which may fail: the message is lost, the run stays queued.
Timestamps are abstracted to the side of the deadline that reads them. `StartedAges` waits
for a worker that stamped the row: it is killed at 600 s, the orphan timeout is 900 s.

### StepLoop

`wf` is the definition, a sequence of steps with what a jump or gate needs of its
configuration. `db` is what is committed, `tx` what the worker's session sees, `ctx` what only
the worker knows: the majority, the market price, the loop counters. `GoOn`, `Stop`, `Block`
and `Fail` are the four ways the code leaves a step. An LLM answer is a vote, its wording
(plain or alias) and a class of flaw; `Repaired`, `Critical`, `Filled` and `Judged` say what
repair and validator do with each. `Aligned` is the direction guard, called only when the
context has a majority. `history` records what has happened to the run besides its first
delivery, for the properties.

Free choices: what a prompt answers, whether a gate's number is reached, warm-up and kill-switch
verdicts, whether an order fills. One message at a time; requests come between deliveries
(overlap is `RunLifecycle`'s). `VoteFirst` and `VoteGated` say what the seeded trade pipelines
have in common: data and HAWKs, the vote, SAGE, one proposal, gates and the order, no second
vote and no jump back. Two HAWKs stand for the seeded three, hence both must agree.
`spot_short_unsupported` is not modelled (futures).

### Screener

A screening goes through `CountSlots`, `Survey` (the excluded pipelines' runs it can see, then
the ranking), a `Pass` or `Dispatch` per candidate, `LeaveLoop` and `Commit`. `row` is the
child run of a coin: `inserted` (flushed in the open transaction), `queued` once committed.
`message` counts the deliveries its message has left; `Miss` is one that finds no row. `Lose`
drops what a lost delivery inserted. Time is abstracted: the reaper may take a queued run and
`recent` may lapse at any time. Retries by people and overlapping deliveries of a screening
are left to `RunLifecycle`; `NEEDS_ATTENTION` positions do not count as held, as in the code.

### TradingMode

`row` is the pair of settings rows, `key` the pair of Redis keys, `lock` the rows a request has
updated. A request gets and puts one row, then the other (an unchanged value updates nothing
and locks nothing), sets one key, then the other, and commits. A start of an API process reads
the rows and sets the keys. An order resolves a pair and goes by the service or by
`place_order`, each with the guards of its path.

### AutoApproval

Time is in units of a few minutes: beats every 2, gap 2, key lifetime 3, task limit 1. A beat's
message starts late or again; `Evaluate` stamps the snapshot after the task took its `now`,
`Read` and `Write` are the GET and the SET or DELETE of the streak, `Decide` runs the guards
in the code's order (those on rows, caps and votes are one free choice). The key's lifetime
counts from the last tick, which allows more streaks than the code's. Because the snapshot is
stamped after `now`, its age is negative and the policy approves nothing: `approval_stale`.

The properties say less than the docs' "consecutive ticks". `StreakSpanBounded` bounds the
whole span by the count: for a count of 2, which the shipped policy requires, that is the gap
between the two ticks; of a longer streak it is the mean gap. `ConfirmedByAnother` takes a
redelivery of the same beat for another observation, and a reset that an overlapping tick
undoes does not violate it.

## 3. Runs

| run | instance | states | shows |
|---|---|---|---|
| `order_replay` | 2 calls, 2 reviews, 1 proposal, cap 1, streak 1, 1 acknowledgement, fairness | 99,759 | `TypeOK`, `SuccessIsProtected`, `ExposureIsTracked`, `SuccessIsFinal`, `CallsEnd`, `StaleLeavesPending` |
| `order_book` | 2 proposals, 2 markets, cap 1, streak 0, 2 acknowledgements | 693,229 | `CapRespected`, `OneTradePerAck`, `RefinesBook` |
| `run_guard` | 2 runs of a workflow, 2 messages, 1 shock | 871,211 | `OneActivePerWorkflow` |
| `run_liveness` | 1 run, 1 message, 1 retry, 2 shocks, fairness | 17,537 | `TypeOK`, `ActiveRunsSettle`, `TickEnds` |
| `pipeline_pairs` | 2 requests of a proposal on 5 pairs of paths, streak 1 of 1 past loss, fairness | 432,024 | `PipelineTypeOK`, `OneSuccessPerProposal`, `OpenIsProtected`, `ExposureIsRecorded`, `RetryTradesNothingTwice`, `DeliveriesEnd` |
| `lifecycle` | 2 trades, a snapshot run and a text run, 1 fault or switch, fairness | 443,316 | `TypeOK`, `ClosedIsFlat`, `NoOrphanOrders`, `LiveStopKept`, `FlatRowsClose` |
| `mode_switch` | 2 requests, 1 start, 2 orders, 1 fault, fairness | 44,182 | `TypeOK`, `RedisFollowsRows`, `PaperStopsTheTool`, `PatchesEnd` |
| `auto_approval` | 2 symbols, 3 beats, 1 fault, clock to 4 | 1,475,566 | `TypeOK`, `CountIsWitnessed`, `StreakSpanBounded`, `ConfirmedByAnother` |
| `step_loop` | 3 workflows, 3 answers, 2 events, fairness | 592,987 | `TypeOK`, `UndisturbedOrderFollowsVote`, `ValidationOnlyPlacesNoOrder`, `OrdersAreAccounted`, `NoStepTwice`, `WorkerStops` |
| `screener` | primary and secondary, 2 coins, cap 2, 2 attempts, 1 loss | 950,938 | `OneRunPerCoin`, `ExclusionHolds` |
| `approval_stale` | 2 beats | | `FreshReadyIsNotStale` violated |
| `step_majority` | the automatic pipeline, 1 event | | `RecoveredOrderFollowsVote` violated |

Why the bounds are enough. A hazard between execute calls is between two of them, one that
holds a lock or has committed and one that starts or waits; the cap and the duplicate check
are told apart by giving the markets apart here and room under the cap in `order_market.cfg`.
Two reviews are needed for a stale decision. In `order_book`, `LossLimit = 0` makes the streak
hold always, as the code does for that setting, so that the acknowledgement is on every path.
In `pipeline_pairs` a limit of one meets one past loss: the streak holds until a trade of the
run's own proposal is journalled, so that a retried run gets past its kill switch and only the
look for a SUCCESS row is left to stop it. The one switch of `lifecycle` may come before, in or
after either run, and each run may begin under either mode. In `run_guard`
two messages for two runs give each a live and a stale worker. Two trades give a symbol an old
and a new row, two runs every overlap of selection and commit. Three beats are the least that
can overlap, reset and confirm. Two events take a run through two gates, or one and a
recovery. Two screenings and two coins let one take a coin while the other looks. The proofs
remove the bounds for the safety properties they cover. Deadlock checking is off everywhere:
finite numbers of requests, faults and beats come to an end.

Symmetry is used in runs without liveness only, over reviews, runs, coins and symbols, which
no definition tells apart.

### Findings

Both violated properties quote the repository; `PROJECT.json` gives the lines.

* `approval_stale`: a fresh READY is refused as stale, because `age_s` is computed against a
  `now` taken before the snapshot was made. No sequence of ticks is ever approved.
* `step_majority`: a run that pauses for an LLM error at the compile step and recovers has no
  majority in its context; the direction guard, called "regardless", is not called, and the
  gate executes a proposal against the vote.

### Further configurations, run by hand

Each checks one property. `order_market.cfg` holds (403,571 states: the duplicate check alone
keeps a second position out of a market). In all others TLC finds the property violated: they
record what the code does against its own comments, or why a listed property is not stronger.

| configuration | property | what happens |
|---|---|---|
| `order_ack_attempts` | `OneAttemptPerAck` | a rejected entry raises, the request is rolled back and with it the burn of the acknowledgement (`execution_service.py:329`) |
| `order_unprotected_replay` | `UnprotectedIsNotReplayed` | a stale approval writes APPROVED over NEEDS_ATTENTION (`execution_service.py:397`) |
| `run_reaped_live` | `ReaperSparesLive` | `started_at` survives requeue and approval, so the reaper selects a run in execution (`recovery_worker.py:92`) |
| `run_due_starved` | `DueRunsAreRecovered` | two due runs of a workflow make the batch flush fail on every tick (`recovery_worker.py:86`) |
| `pipeline_cap` | `CapRespected` | two automatic runs pass the cap before either commits (`locks.py:5`) |
| `pipeline_double` | `SuccessIsFinal` | a resumed run's order follows a service call's commit (`locks.py:27`) |
| `pipeline_ack` | `OneTradePerAck` | two automatic runs rely on one acknowledgement (`run_executor.py:2884`) |
| `pipeline_promotes` | `RejectionStands` | the promotion overwrites a reviewer's REJECTED (`run_executor.py:1706`) |
| `lifecycle_figures` | `NoEarlierPnl` | the older row's entry, with both exits' income, is written to the newer row (`position_monitor.py:189`) |
| `lifecycle_paper` | `NeverClosedLive` | after a switch to PAPER the text path closes a live trade's row unasked (`position_lifecycle.py:371`) |
| `lifecycle_twice` | `FinalisedOnce` | two runs select, confirm and finalise the same row |
| `mode_torn_rows` | `PersistedPairAgrees` | an unchanged row is not locked: the rows end as a pair nobody asked for |
| `mode_paper_service` | `PaperNeverReachesService` | a runtime switch to PAPER, environment demo: the service still sends (`execution_service.py:31`) |
| `mode_demo_tool` | `DemoUsesService` | a runtime switch to DEMO, environment paper: the route uses `place_order` (`trading.py:236`) |
| `mode_demo_production` | `VirtualStaysVirtual` | a runtime switch to DEMO, environment live: an order resolved as demo goes to the production endpoint |
| `step_validation_order` | `ValidationOnlyBlocksExecution` | an override or a repeated message leads past the stop of a validation-only run |
| `step_alias` | `GateReadsRepaired` | a repaired vote stays in memory when the validator has no complaint; the gate reads the row and refuses it |
| `step_two_gates` | `ApprovalPassesOneGate` | an approval delivered twice passes the next gate too |
| `screener_dual` | `SecondaryExcludes` | both screeners look before either commits and dispatch the same coin (`commands/seed_crypto_workflow.py:1271`) |
| `screener_early` | `NoDeliveryTooEarly` | a worker takes the message of a run that is only flushed (contrast `schedule_runner.py:119`) |

## 4. Fairness

* `OrderExecution`: weak fairness of each started call (the event loop resumes it, exchange
  calls have time-outs, the database grants a free lock, and a lock is held by a call that can
  always move), of a review's write, and of the expiry sweep (a beat every 300 s). Nothing is
  assumed about starting calls, crashes or the exchange.
* `PipelineExecution`: weak fairness of each started request, for the same reasons; a worker
  that stops is killed by its time limit, which is a crash and ends the delivery. A ring of
  waits is broken by Postgres's detector after `deadlock_timeout`.
* `RunLifecycle`: weak fairness of each worker's step, of clocks, of a pending dispatch, and of
  the tick's select, write and requeue (the loop runs every 60 s and survives errors). Route
  calls, crashes and firing are not fair.
* `PositionLifecycle`: weak fairness of a run's steps and of recording a trade. Runs are
  started again by the schedule, hence a run's start is one of its steps. `FlatRowsClose`
  assumes no more than that the symbol stays flat and the mode order-capable: a run in paper
  mode takes no snapshot, and its text closes OPEN rows only.
* `TradingMode`: weak fairness of a request that has begun. `StepLoop`: of the worker.
* `AutoApproval` and `Screener`: none; only safety is stated.

## 5. Proofs

Every theorem holds for any value of the constants allowed by the named assumptions
(`ConstantsAssumption`, `PathAssumption`, `RunConstants`, `LifecycleConstants`,
`ModeConstants`, `ApprovalAssumption`, `StepLoopConstants`, `ScreenerConstants`). Each proof
module proves one inductive invariant and, where a theorem needs it, a second one on top of it.

**OrderExecutionProofs** (`TypeCorrect`, `CapTheorem`, `MarketTheorem`, `ProtectionTheorem`,
`TrackingTheorem`, `AckTheorem`, `FinalityTheorem`, `BookTheorem`). The central fact is mutual
exclusion: `pc` in `HoldsCap` means being the holder of `capLock`, so at most one call is
between its checks and its commit. `CapRespected` alone is not inductive, for the commit of a
second call would break it; the invariant therefore speaks of the room a call past the checks
still sees, and likewise of its market and of the SUCCESS rows of its proposal. SUCCESS enters
the buffer only with an accepted stop. The call that relies on a generation of the
acknowledgement burns it or finds it gone. From these, every step maps to a step of
`PositionBook` or a stutter.

**PipelineExecutionProofs** (`PipelineTypeTheorem`, `OneSuccessTheorem`,
`OpenProtectedTheorem`, `RetryTheorem`, `ExposureTheorem`, `LedgerTheorem`,
`ServiceOnlyTheorem`). The invariant says where a request is certain to hold its proposal's row
(`HasRow`: a call from its checks on, an automatic run from its compile step on, a resumed one
once it has settled), that nothing of an unfinished request is committed, that a buffer's
SUCCESS or OPEN is true of the exchange, and that the index holds one uncommitted SUCCESS of a
proposal and none beside a committed one. `OneSuccessPerProposal` needs the index, which is the
guard of the two commits.

* `RetryTheorem` is of calls and runs: they commit a SUCCESS only with the row, which an
  automatic run keeps from its compile step to its order, so that what its preflight found still
  holds of them (`OrdersFirst`). The route commits without the row and is excepted.
* `ExposureTheorem` follows what a delivery carries: exposure appears with its order, from
  `record` on its buffer names the outcome, and after `Settle` a SUCCESS carries its position,
  so the commit cannot lose it. The monitor closes such a row only when its market is flat. As
  the property, it says nothing of deliveries that crash or meet the index, and takes a FAILED
  row for the record of a lost answer.
* `LedgerTheorem` is the refinement step by step. Each step of a request either leaves the
  committed rows alone (`Silent`) or ends its transaction (`Enters`); that the latter is a step
  of the ledger needs `RowsPaired`, the positions a buffer holds at each control point, and
  from the main invariant that no success of the proposal has come in between. TLC agrees on
  the instance of `pipeline_pairs` with `PROPERTY RefinesLedger`.
* `ServiceOnlyTheorem` assumes of `PathMixes` that every request takes the path `service`. Then
  the cap lock keeps a second call of the proposal out of the index, no ring arises, and the
  only steps `OrderExecution` does not have, refusals by the index, cannot happen: its invariant
  says that a call at its stop has the proposal without success. The cap, the markets and
  `RefinesBook` follow; `pipeline_cap.cfg` shows that they do not survive the other paths.

**PositionLifecycleProofs** (`TypeTheorem`, `ClosedIsFlatTheorem`, `NoOrphanOrdersTheorem`,
`LiveStopKeptTheorem`, `OrderCapableTheorem`). An exited trade never comes back and `unasked`
only grows, so what `Confirm` saw of the symbol, or noted of the row, holds until the commit: a
buffered CLOSED is of a trade that has left (`Left`), and a clean-up is of the orders of such a
row. `OrderCapableTheorem` removes the exception: under `[]OrderCapable`, a mode that is never
paper, no row is closed while the exchange holds its trade.

**RunLifecycleProofs** (`GuardTheorem`, `TypeTheorem`). Every write that makes a run active
passes the index; every other write leaves it inactive or as active as it was. The type
invariant is strengthened by what `Flush` keeps of the rows' fields.

**StepLoopProofs** (`TypeTheorem`, `OrdersAccountedTheorem`, `NoStepTwiceTheorem`,
`GoForwardTheorem`, `ValidationOnlyTheorem`, `UndisturbedOrderTheorem`). One lemma says what
any step of the worker may do (`Walk`): write the current step's row, pay for an order with the
proposal it settles, and go forward, take an iteration of a loop, or stop. `StepsGoForward`,
that no other step goes back, is the safety half of `WorkerStops`. `OrdersAreAccounted` is
strengthened to count the open proposal as an order still to come; `NoStepTwice` to "nothing
ahead of the index is completed, nor the step at the index wherever the run can be taken up".

The two theorems about votes are of workflows of a shape, because the properties are: a
definition that compiled before its vote would break them. `ValidationOnlyTheorem` assumes
`VoteFirst` of the definitions with a vote, `UndisturbedOrderTheorem` assumes `VoteGated`; the
assumption `SeededShape` of `MCStepLoop` has TLC evaluate both on the instances, which are the
seeded pipelines with fewer HAWKs, so neither hypothesis is empty. `StopsAtVote` says that a
validation-only run in which nothing was forced has sent no order, never waits for an approval
and, wherever it can be taken up (retried, recovered, failed), stands at or before the vote,
where it stops. `VoteCarried` follows the majority: up to the vote there is no proposal; from the
vote to the compile step the context holds the majority of the committed HAWK rows; behind it
the proposal has that majority's direction and the rows it was counted from do not change.

**ScreenerProofs** (`TypeTheorem`, `OneRunTheorem`, `ExclusionTheorem`). A screening's runs are
unborn until it commits, and it commits once. What it found of one that had committed stays
true because runs neither appear there again nor come back to life, but for a message that
outlives its run when the reaper was first.

**TradingModeProofs** (`TypeTheorem`, `PaperStopsTheorem`, `RedisFollowsTheorem`). A request
that has updated a row holds its lock; while every request that writes holds both locks, keys
and rows differ only in what the holder has still to set.

**AutoApprovalProofs** (`TypeTheorem`, `StreakSpanBoundedTheorem`, `ConfirmedByAnotherTheorem`,
`CountIsWitnessedTheorem`). The stored streak, and every streak a delivery has read, spans no
more than its count allows, does not end in the future and ends with an observation of a
delivery that is past its write. That its ticks are consecutive beats is not proved. For the
count, every such streak counts no more than its witnesses, the deliveries that saw the symbol
READY within it. A write adds its own delivery, whose observation is not yet among those of the
streak it read, so the set grows with the count.

Every invariant and action property of the passing runs is a theorem, the two about votes for
the definitions of that shape. Only model-checked are
the liveness properties (`CallsEnd`, `StaleLeavesPending`, `ActiveRunsSettle`, `TickEnds`,
`DeliveriesEnd`, `FlatRowsClose`, `PatchesEnd`, `WorkerStops`: fairness and ENABLED are outside
the prover's reach) and all violations.

## 6. Not modelled

The modelled lines are about a tenth of the repository's implementation. Most of the rest has
no behaviour of its own to check: seed scripts and agent templates (the longest files), CLI and
operator commands, schemas, repositories and routes that create, read, update and delete single
rows, streaming chat, the event bus for the interface, the frontend.

* Arithmetic on prices and series (indicators, backtest, PnL, sizing, filters, market metrics):
  floating point, out of reach of TLC; where a decision depends on it, the decision is a free
  choice.
* The daily-loss gate and gates on a proposal's own figures: part of such a choice. Cron and
  calendar arithmetic: schedules fire at any time.
* LLM clients, model fallback, skills, trainer, memory and reflections: external services or
  text; what they may do to a run is the outcome of a step.
* Sub-workflows: a child runs in a committed session of its own inside the parent's step, so a
  parent that is delivered again runs it again; the parent is a step of `RunLifecycle` that
  says nothing of the child.
* The spot (ccxt) path of `place_order`, `max_uses` above 1 of an acknowledgement, PATCH and
  DELETE of runs, live detect-only monitoring, readiness and status reports, checkpoints,
  usage sums of the cost guard.
* Liveness of the policy in `AutoApproval` and of dispatched runs in `Screener`: the first
  approves nothing, the second depends on workers that `RunLifecycle` models.

What could follow: sub-workflows beside redelivered parents, and an abstract run that
`RunLifecycle` and `StepLoop` both refine.
