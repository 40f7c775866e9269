# Market data medallion: TLA+ specification, model checking and proofs

The repository ingests daily OHLCV bars from four vendors into an append-only *bronze*
layer, rebuilds *silver* and *gold* relations from it with dbt, backtests every strategy
variant of every asset, aggregates the runs in analytics marts, and publishes JSON that a
static site reads. It runs once a day in a GitHub workflow, unattended, on free tiers: quotas
run out, connections break and jobs die, and nobody looks. The specification is about what
must hold nevertheless.

## 1. The system

| Component | State | Operations | Interacts with |
|---|---|---|---|
| Bronze ingestion (`pipeline/bronze.py`, `pipeline/sources/*`) | `bronze.raw_candles`, `meta.ingest_runs`, one open transaction per connection | `ingest`: watermark, window, paged requests, insert, audit; `_record_failed_run`; `bronze.main` | the vendors by HTTP; other ingesters by row locks; its callers by `IngestResult` or an exception |
| Ingestion pass (`flows._ingest_all`) | the two circuit breakers, the failed and deferred lists | skip, short-circuit, defer, call | `ingest_asset` (a Prefect task with two retries); the vendors' quotas |
| Daily flow and workflow (`flows.daily_flow`, `.github/workflows/daily.yml`) | the warehouse's relations, the job's checkout, the pushed site | gates, dbt build, backtests, refresh, retention, export, freshness, commit and push | everything below, one after the other |
| Backtest engine (`pipeline/backtest/`) | a simulated position | `validate_ohlcv`, the strategies' `generate_signals`, `build_all_variants`, `run_backtest_windows`, `_simulate` | reads the indicators of gold, returns metrics |
| Backtest store (`write_backtest_result`, `retention.py`) | `gold.backtest_runs`, `gold.backtest_equity_curves` | write, prune, read latest, read curves | several flows at once, by the database only |
| Analytics marts (`dbt/models/marts/mart_{combination_analysis,overfitting_summary,strategy_leaderboard}.sql`) | none: functions of the runs | build | read by the export, rebuilt before and after the backtests |
| JSON export (`pipeline/export.py`) | the files of `exports/` | `export_json` | reads gold and marts, writes what the workflow commits |
| Other marts and staging (`dbt/models`) | none | build | read bronze |
| Bronze sync (`scripts/sync_bronze_to_remote.py`) | a staging table and a position in `TABLES` | `copy_table`, commit | two warehouses, both of which may be ingesting |
| Configuration, migrations, Power BI | | | see section 7 |

What is hard about it:

* **Interleaving.** The workflow's concurrency group excludes its own jobs only; `make`
  targets and `bronze.main` share the warehouse with it. A watermark is read before requests
  that take minutes and used after them; an export reads runs and their curves in two
  statements with a possible prune in between.
* **Partial failure.** A savepoint may roll back one attempt inside a connection whose other
  attempts survive; a commit may succeed and its acknowledgement be lost; one symbol's
  backtest may fail; the second of three marts may not be rebuilt; the job may die anywhere.
* **Refusals, retries, quotas.** 429 and 401/403 are never retried and open a breaker; 5xx is
  retried at two levels, and each retry spends a quota that other symbols share.
* **Files and copies without a transaction.** The export writes its files one by one and in place;
  the sync commits one table after the other. Either may stop anywhere.
* **Silence.** The layer is append-only behind a watermark: a day that is passed over or
  frozen half-formed is never repaired. NULL decides which variants a published rate counts.

What makes each component correct: bronze grows by whole, attributed, counted runs, without
unexplained holes and without forming bars; a refusal stops exactly the refusing source for
exactly the run; the site shows a consistent snapshot that never goes back; the store keeps the
newest runs with their curves and stays bounded; an exported directory is of one moment; a copied
warehouse is as sound as one that ingested itself; rates lie in [0, 1] and do not count what was
not measured; a backtest never looks ahead, neither in its signals nor inside a window nor across
the split.

## 2. Modules

| Module | What it is |
|---|---|
| `BronzeLayer` | abstract: what bronze promises to everything downstream, one commit at a time |
| `BronzeIngest` | detailed: `ingest`, the vendor clients' paging, both callers, transactions, locks, faults; `ImplementsLayer` is the refinement |
| `BronzeIngestInv` | the inductive invariant behind the refinement; the rank that every step of a job lowers |
| `BronzeLayerProofs`, `BronzeIngestProofs` | proofs |
| `IngestAll`, `IngestAllProofs` | the pass with its breakers against providers that refuse, at will or by a meter; proofs |
| `Publication` | abstract: what the website is promised, one snapshot at a time |
| `DailyFlow` | extends `IngestAll`: the job around the pass; `ImplementsPublication` is the refinement |
| `DailyFlowInv`, `DailyFlowProofs` | its inductive invariant, what opens its gates, how many steps are left; proofs |
| `BacktestStore` | runs and curves under concurrent write, prune and export |
| `ExportFiles` | extends `BacktestStore`: the directory each flow's export leaves |
| `StoreInv`, `StoreProofs` | the inductive invariants of the two, how many steps a flow has left; proofs |
| `SyncBronze` | two warehouses that ingest, over `BronzeLayer`, and are copied to each other |
| `SyncInv`, `SyncProofs` | its inductive invariant; proofs |
| `Marts`, `MartsProofs` | the marts' counts and rates in three-valued logic, the export's fallback and the index; proofs |
| `Engine` | variants, windows, `_simulate`'s loop, over any signals |
| `Strategies` | the five strategies' signals, validation, which strategies apply; pure definitions |
| `Backtest`, `EngineProofs` | `Engine` over the signals of `Strategies`; proofs of both |
| `MC*` | values for the constants |

`DailyFlow` composes the pass with the job. `Backtest` composes the engine with the strategies and
implements `Engine` with arbitrary signals, so that what holds of any signals needs no frames.
`SyncBronze` uses the promise of `BronzeLayer` where the code calls `ingest`. `DailyFlow` and `BacktestStore` look at one
daily flow from two sides: the first at one job with its gates and the day of its data, the
second at several jobs by hand and by schedule and at single runs.

### BronzeIngest

A candle is `[pair, day, run]`: a pair is `(source, symbol, granularity)`, prices are left out.
`job[w]` holds the locals of `ingest` and its caller, `job[w].pc` the place: `watermark` (before
`_watermark`), `fetch` (in `fetch_candles`, before a page), `insert` (inside the savepoint),
`record` (`_record_failed_run`), `leave` (the connection's `with` block ends). `txnRows[w]` and
`txnRuns[w]` are what `w`'s open transaction has inserted; `rows` and `runs` are committed.

* psycopg opens a transaction at the first statement, so `with conn.transaction()` is a
  savepoint and the commit is the end of the connection: once per attempt in `ingest_asset`,
  once for all pairs in `bronze.main`. `WriteFails` rolls back to the savepoint, `Escapes` rolls
  back everything, `CommitUnacknowledged` commits and raises.
* `WatermarkFails`: `ingest` catches the exception, but PostgreSQL refuses every later statement
  of the transaction, both savepoints included, so the exception of `_record_failed_run` leaves
  `ingest`.
* Under READ COMMITTED a statement sees committed rows and its own; an insert of a key that
  another open transaction holds waits. `InsertCandle` is enabled when the wait is over and tells
  a new row from a conflict then, which is what `ON CONFLICT DO NOTHING` and `rowcount` do.
* The audit row is inserted before the candles and updated after them; nobody sees it before
  the commit, so `FinishRun` adds it complete. If the fetch failed, the run goes through the same
  savepoint with no candles and status failed.
* Every vendor client is the same loop: Coinbase pages by 300 bars, the others ask once.
  `PageSpan` is the page's length. Kraken ignores the window and returns its last 720 bars, which
  the client filters; it is a vendor with one large page. `PageArrives` lets a vendor leave any
  days out and add bars nobody asked for, the forming one included; a duplicate within an answer
  is absorbed by the set, as it is by the primary key. `asked` is a history variable.
* The task's missing-key error never reaches `ingest_asset` in the flow, which checks the key
  first; `bronze.main` meets it (`SkipPair`).

### IngestAll

`outcome[p]` is what became of pair `p` in this run; the breakers are read off it, as
`auth_failed_sources` and `limited_sources` are sets of sources with such an outcome. A call is
`ingest_asset` with its retries as a whole: an outcome and a number of requests spent, none if the
window is empty or the database fails first. `budget` is the account's quota; Tiingo equities and
Tiingo FX are two sources with one account, and so two breakers behind one quota. `Leftover` is what
earlier runs of the same window and `bronze.main` may have left of it. `Refusing` names the sources that
may answer 429, 401 or 403 to any request, metered or not; the flow's instance has one that does and one
whose calls only fail. `CallMax` counts the requests of one page; a backfill from Coinbase, whose pages
are 300 days, may need more, and Coinbase is in no instance metered.

### DailyFlow and Publication

One variable `phase` says which step of the job is under way. Relations are stamps: per symbol,
the day of the data they were made from. `BuildCombos` and `BuildAggregates` are used twice, by
`run_dbt`, where a failure ends the job, and by `refresh_leaderboard`, where it is a warning. dbt
replaces a relation before it tests it, and a failing test skips what is downstream. A test of the
marts fails because of a *slip*: a symbol whose newest gold runs hold a number the test rejects.
`BacktestSymbol` and `BacktestFails` may make one and a later backtest replaces it; but the required
build comes before the backtests, so from the next run on it stops at the slip. `tree` is the
checkout, discarded unless `CommitExports` is reached; `site` is what was pushed. `warned` is history.

`Publication` knows the calendar, the day of the last candle and the site. `Publish` replaces the site
by any later snapshot that is whole, or flagged, within the freshness limit, and not over a snapshot
with a slip. It has no jobs, so it says what all interleavings of them may come to.

### BacktestStore and ExportFiles

A flow's `pc` follows `daily_flow` from the backtest loop (`backtest`, and `write` while
`write_backtest_result`'s transaction is open) over `prune` to the export: `export` (before the latest
runs are read), `curves` (before their curves are), `files` and `index`. `Recency` is the window function
of both `retention.py` and the export's `DISTINCT ON`. `executed_at` is the transaction's start, so two
flows may commit in another order than they are ranked in; `BeginWrite` and `CommitWrite` are separate
steps. A variant is a `(symbol, strategy)` pair and belongs to an asset; `BacktestFails` gives up the
asset's remaining variants, which is where `backtest_symbol` raises, and keeps the ones written;
`CommitUnacknowledged` does so after a commit whose answer was lost, so the run is there all the same.
`Configs` are the assets `config.yaml` may list when a flow starts. A variant may have no run: `Pasts` are
the contents the first flow may find, the empty table among them, and an asset that has only been added
may fail whenever it is tried. Ties of `executed_at` are left out: the clock is read once per transaction
and stands for a distinct microsecond. Row locks are left out too: two prunes that delete the same rows
(`retention.py:57`) do wait for each other in the database, and `Prune` is one step with the snapshot
its statement starts from. The outcome is the same, since what that snapshot supersedes stays superseded
and a row that is gone by then is passed over; how long the wait takes is not modelled. `before` and
`wrote` are history: what a job would have exported when it began, and what it has backtested.

A file of `exports/` is the `generated_at` it carries, or `Torn`. `WriteFile` is `_write_text` in place,
`PruneStale` is `_prune_stale` after the last file, `WriteIndex` the index. `Die` may tear the file that is
being written. The first export finds no directory or a whole one; `Die` leaves the interrupted ones.
The index lists every asset of the configuration, one without a run as pending, with nulls
(`export.py:544`) and without a file (`export.py:589`): `shown` are the assets it has numbers for. `dirty`
is history: whether a directory is between two exports.

### SyncBronze

`StartSync` picks a direction, "local -> managed, or back". `CopyTable` is `COPY (SELECT ...) TO STDOUT`
into the staging table, a snapshot of its own for each of `TABLES`; `InsertRuns` and `InsertCandles` are the
two `INSERT ... ON CONFLICT DO NOTHING` with their commits. The foreign key is checked for the rows that
are inserted (`Orphans`): if ingestion commits at the source between the two snapshots, a candle's
audit row may be missing at the target, and `ForeignKeyFails` ends the script. `Die` loses the open
transaction. Both warehouses go on ingesting: `BeginIngest` reads the watermark, `CommitIngest` adds
what `BronzeLayer!Append` allows one ingester, the days of its window that are not stored by then. `begun`
is history. Identities of runs are `[by, n]`, the warehouse and a number, where the code draws UUIDs.

### Marts

SQL's logic over `Null`. `Mart` is `mart_combination_analysis`, `Counts` and `Rates` the two
aggregates for one group, `Groups` the grouping sets, `Entry` what `export.py` publishes with and
without the mart, `Kept` the combinations an index over its byte budget is cut to. `EngineCan` is the
only assumption on what the engine measures: no position, no return; a round trip means a
position. Averages, medians and the leaderboard's ranks are left out.

### Engine, Strategies and Backtest

Prices and equity are left out of `Engine`; what is kept is when a run is in the market and which round
trips it counts. `green[c]` are component `c`'s signal bars, chosen once, as `build_all_variants`
computes them once. `Bar` is one turn of `_simulate`'s loop. Bars keep their number in the whole
frame inside windows too, so that looking across a boundary would be visible. The order of
variants of equal size is left open.

`Strategies` computes the signals from bars. Prices are whole numbers; averages are compared by their
sums and ratios crosswise, so no comparison is rounded, where pandas compares doubles. `SmaSum` is one
definition for both branches of `_sma_of_close` (`strategies.py:56-61`): production takes gold's `sma_20`
and `sma_50`, which `fct_ohlcv_indicators.sql:49-51,65-66` computes as the same averages of the same
closes, NULL until the window is full; that SQL is not modelled. `Ema` is the
recursion of `ewm(adjust=False)`; prices are scaled by `Scale`, chosen so that no division leaves a
remainder within the frame. The RSI is not defined where nothing moved, as in `cutlers_rsi`, and a
comparison with it is then FALSE. `Valid` is `validate_ohlcv` on the columns the strategies read; its
checks of order and duplicates hold by the shape of a frame, which is a function of bar numbers.
`StrategiesFor` and `Kept` are the two places where a strategy that needs volume is dropped:
the asset's class has no tape, or the frame's volumes are all absent.

## 3. Runs

| Run | Instance | Checks |
|---|---|---|
| `ingest_tasks` | 2 tasks, 1 pair, 1 retry, 2 requests per page, a day per page, 2 midnights, every fault; 2.0 M states | the layer's promise (`ImplementsLayer`), the inductive invariant (`IInv`), types |
| `ingest_main` | 2 workers of either kind, 2 pairs, two-day pages, lost connections, failing statements, missing keys, 2 midnights; 574 k | the same promise, and `NoLockCycle`: row locks never form a circle |
| `ingest_audit` | the same pairs and callers, retries, faults a connection survives, fair; 363 k | `EveryAttemptAudited`, `JobsEnd` |
| `flow` | 3 pairs, 2 symbols, a source that may refuse any call and one whose calls only fail, 2 midnights; a crash, failing builds, refreshes, backtests and pushes, slips; 6.9 M | `FlowInv` (inductive), `PublishedIsWhole`, `PublicationNeverRegresses`, `RejectionPublishesNothing`, `PublishedIsFresh`, `SlipShowsOnce`, `ImplementsPublication`; of the pass, `BreakerHolds`, `OnlyRefusalsDefer` |
| `store` | 2 flows, 2 jobs, an empty store or one generation in it, an asset with a single strategy and a combination and one that may be dropped, failing symbols, unacknowledged commits, crashes, torn files; 3.8 M | `FilesInv` (inductive), `ExportKeepsCurves`, `CurvesMatchRuns`, `NewestIsKept`, `StoreIsBounded`, `ExportIsThisRuns`, `DirectoryIsWhole` |
| `sync` | 2 syncs in any direction, a warehouse that ingests twice and one that ingests once, 2 midnights, a death anywhere; 3.4 M | `SyncInvariant` (inductive), `CopiesAreSound`, `WatermarkHidesNothing`, `SyncDelivers`, `OnlyRacesFail` |
| `marts` | 2 variants of different size and class, 4 measures per window and none, an index of 1 | `RatesAreShares`, `UnscoredIsNotADeath`, `SwitchKeepsVerdicts`, `IndexKeepsTheBest` |
| `engine` | 8 bars of 3 kinds (and 4 repeated, with missing volumes and a bad bar), pairs and a triple of strategies; 2.4 M | `HeldIsSignalled`, `RoundTripsAreStays`, `CombinationsOnlyFilter`, `SignalsAreCausal`, `WindowsAreWarm`, `RsiIsALatch` |
| `audit_watermark`, `deferred_resumes`, `flow_nothing`, `mart_never_measured` | the smallest instance that shows it | section 6 |

Why the bounds are enough. *Ingestion*: what goes wrong needs a second worker between two
statements of the first, a second attempt, a window of two pages and a midnight inside an
attempt; each instance has them, and the proofs remove the bound. A lock circle needs two keys in
opposite order, so two candles or two pairs. *The pass*: a refusal, a later pair of the same source
and one of another source. *The flow*: a failing run after a good one and a good one after that, on
different days, for two symbols; `StaleAfter`, three days in the repository, is one in the instance,
so that the check fails within its calendar. *The store*: `Keep` is 2 in the repository and 1 in the
instance, where a second generation is superseded at once, so that one overlapping flow is enough to take
away what the other has read; two assets, of which one may fail or go, after a day on which both were
backtested or on the first day ever, so that either may be pending when the other is shown. *The sync*: a candle whose run
was committed between the two snapshots, a copy back of what came from there, and two syncs whose
tables interleave. *The engine*: every strategy's window is a few bars long, so that it fills, signals,
and leaves bars for both windows; the MACD's warm-up outlasts the frame, so that the other end of the
clamp is met, and what a scored window of the MACD holds is left to the proof. `LastDay`, `MaxJobs`,
`MaxRuns` are the only bounds of the models themselves; they stop the clock and the number of
jobs and change no action.

Deadlock is not checked where a bounded model stops, once its last job is done; it is where the
model goes on for ever (`deferred_resumes`, `marts`). `NoLockCycle` and `JobsEnd` say what deadlock
freedom would.

## 4. Fairness

`BronzeIngest!FairSpec` has weak fairness of each worker's own steps: a running process goes on,
and a lock that stays free is granted. Vendor answers are part of these steps, since the clients
use a request timeout. Nothing obliges the clock, a job or a fault to come, and `JobsEnd` holds with
faults coming as often as retries allow. Weak fairness is enough: a waiting insert is enabled, and
stays so, once the holder has committed, which it does because waits form no circle.

`IngestAll!FairPassSpec` says that runs keep coming and work through their pairs (the cron
schedule) and that the key stays configured. No fairness is assumed of vendors: `deferred_resumes`
finds its counterexample although the quota is refilled for every run.

`DailyFlow`, `ExportFiles` and `SyncBronze` claim no liveness: a run may be killed on any day, and nothing
in the code brings a sync about.

## 5. Proofs

Every theorem holds for all values of the constants that satisfy the modules' named assumptions. Every
property that a passing run checks is proved, but for the liveness property `JobsEnd`. What theorems say beyond
the runs' properties is defined in the `...Inv` modules or beside the theorem; where it speaks of states and
steps of one module, TLC checked it on the runs' instances first.

* **`BronzeIngestProofs`: `Implementation`** (`Spec => ImplementsLayer`), `Invariance`,
  `TypeCorrect`. Only commits change what the layer sees, so the proof has to know, at a commit,
  everything that happened since the watermark was read. `ImplementsLayer` is no invariant, and
  its obvious consequences (unique keys, no gap) are not inductive: another worker may commit
  between watermark and insert. `IInv` states them for open transactions as well. Its parts:
  `FreshIds` (audit rows name finished attempts, each once), `KeysApart` (a key is held by a
  committed row or by one transaction), `Attributed` and `Counted` (every uncommitted candle
  belongs to the running attempt or to an audit row of its transaction, and is counted there),
  `WindowSound` (the window is contiguous with what is stored, the pages asked so far cover it
  without a hole, each fetched day is still to be inserted or stored), `RunsSound`, `Closed`, and
  `CommittedSound` for what is visible. The gap argument works because being stored and having been
  left out by the vendor are both monotone, so what others commit meanwhile only helps. A step
  changes one worker: one lemma (`Others`) covers those that did not move, one each the action of
  the one that did. Assumption: `IngestAssumption`.
  **`LocksFormNoCircle`** needs `Ascending` beside `IInv`: a transaction inserts its keys by pair and day,
  so of workers that all wait for each other, the one with the last key waits for a holder that should
  **`AttemptsAreAudited`** assumes that `Faults` has no failing watermark query, lost
  connection or crash; without the first of these `audit_watermark` refutes it.
  **`JobsRunOut`** and **`NobodyIsStuckForEver`** are the part of `JobsEnd` that needs no fairness. `Ahead`
  ranks a worker by the pairs and retries before it, the stage of its attempt, the days or candles left in
  that stage and the requests left for a page, compared lexicographically: a retry starts all the later
  ones again, so no single number would do without the sizes of the windows. Every step of a job lowers
  the rank, faults included, nobody else's step moves it, and ranks do not descend for ever
  (`NoEndlessDescent`). The other half: while jobs run, one of them waits for nobody, `NoLockCycle` applied
  to all of them, with the locks of workers that are not in a job ruled out by `Closed`. What is left to TLC
  is that weak fairness makes a step that can be taken be taken.
  **`BronzeIsSound`** is `Implementation` and `LayerIsSound` put together.
* **`BronzeLayerProofs`: `LayerIsSound`**: the layer's promise is enough; unique keys, provenance,
  exact counts, closed bars and `NoUnexplainedGap` follow from it. With `Implementation`, they hold of
  the code: `BronzeIsSound`.
* **`IngestAllProofs`: `BreakersHold`, `OnlyRefusalsStop`**, for any list of pairs, sources and quotas.
  `PassInv` adds that pairs not yet reached are waiting, without which a refusal could be followed by a
  pair that was called before it.
* **`DailyFlowProofs`: `FlowInvariance`** and with it `PublishedWhole`, `NeverRegresses`,
  `NothingAfterRejection`, `PublishedFresh`, `SlipsShowOnce` and **`FlowImplementsPublication`**
  (`Spec => ImplementsPublication`), for any symbols, pairs, calendar and faults. That the site does not
  go back is not inductive: it depends on the checkout, which depends on the warehouse at the time of the
  export. `FlowInv` orders all of them: every relation lags behind the one it is built from (`Lags`),
  the checkout behind the warehouse and the site behind the checkout (`Behind`, `Later`), each export is
  consistent in itself or flagged (`Sound`), and `Progress` says what the job has caught up with in each
  phase, among it that a job past the required build stands on a site and a warehouse without slips.
  `FlowKeepsBreakers` carries the breakers into the flow: whatever interrupts a job, each pass starts anew.
  **`PublishesNothingOnlyWhenRefused`** says how far what `flow_nothing` finds goes: the site is replaced only
  by a run with a success or with a 429, never by one that met broken sources, rejected or missing keys alone.
  The gates look at the outcomes once; `Gated` says that nothing writes to them until the next job.
  **`JobsTakeBoundedlyMany`**: `StepsLeft` falls with every step but the calendar's.
  Assumptions: `IngestAllAssumption`, `DailyFlowAssumption`.
* **`StoreProofs`: `StoreInvariance`**, `CurvesMatch`, `NewestStays`, `ExportsItsRuns`,
  `DirectoriesAreWhole`, `StoreStaysBounded`, `CurvesAreFound`, for any flows, variants, assets, generations and
  jobs. That pruning keeps the newest run rests on `Stamped` and `Apart`: no two runs, committed or about
  to be, share an `executed_at`, so a run counted alone is the newest. `Represented` says that the newest runs
  are up to date with every flow under way: for what it has backtested a run of its job or a newer one,
  for what it saw when it began one at least as new, which is what an export needs in spite of other
  flows' commits and prunings and says nothing of variants that have no run. `Configured` keeps what a
  flow writes and shows within its configuration; `Placed` says how far its directory is, and that
  nothing in it is newer than the flow's own export. The bound is a second induction
  (`BoundInv`): the runs of a variant are at most `Keep` plus those nobody has pruned since, each owned by
  a flow or by a death, and a flow owns at most one because it backtests a variant once.
  For the curves, `KeptOrReplaced` says that what an export has read is stored or has `Keep` newer runs:
  of those that a pruning takes, the latest has `Keep` newer ones, none of which is taken.
  **`FlowsTakeBoundedlyMany`**: a job needs at most two steps for each variant, one for each file and six
  more, and no other flow's step adds to them.
  Assumption: `BacktestStoreAssumption`, which includes that flows are finitely many.
* **`SyncProofs`: `SyncInvariance`**, `CopiesStaySound`, `WatermarksStayHonest`, `SyncsDeliver`,
  `QuietSyncsPass`, for any syncs, pairs, days and ingestion runs. That a bar may be inserted at the
  target without opening a gap below it is the hard part: the source's explanation of each day below is
  an earlier bar, which comes in the same statement, or an audit row, which has to be there already.
  `SyncInvariant` knows that whatever came from a warehouse is still there (`Originals`), so rows copied
  back find themselves; that every set of audit rows anywhere, the staging table included, holds a
  warehouse's runs up to some number without omission (`Consecutive`), so the foreign key of the bar
  vouches for the earlier runs; and that a bar is explained by the runs its warehouse knew when it was
  ingested (`Explained`), so later ones are not needed. A step makes a warehouse grow: `Growth` and the
  `Stays...` lemmas cover everyone that does not move. **`IngestionsAppend`** justifies the module's own
  abstraction: what it takes for an ingestion is an `Append` of `BronzeLayer` at that warehouse, copies between
  its watermark and its commit notwithstanding. Assumption: `SyncAssumption`.
* **`MartsProofs`: `SharesAreShares`, `UnscoredVariantsDoNotCount`, `VerdictsSurviveTheSwitch`, `IndexIsTheBest`**, for any
  finite set of variants and measures that satisfy `EngineCan`. The argument is that a comparison that
  is TRUE compared two numbers, so what was won was measured. The ranking of the index is a strict
  total order, so what is left out has `Top` better ones. **`UnmeasuredReadsFailed`** is the extent of what
  `mart_never_measured` finds: `coalesce(n_trades, 0) > 0` is never NULL, so no verdict ever is, and each
  unmeasured one is FALSE. **`SwitchAwardsNothing`**: where SQL and `export.py` differ, the first build takes
  verdicts back and awards none.
* **`EngineProofs`: `NoLookAhead`, `RoundTripsCounted`, `CombinationsFilter`, `EngineTypeCorrect`**, for
  frames of any length, any warm-up (also beyond the frame) and any split. The loop invariant says that
  `held` are the bars behind green ones up to `t` and `trades` the stays that ended by then.
  Only over the full period are combinations within their parts: a window of a combination may
  start elsewhere. **`BacktestIsEngine`** and `BacktestHasNoLookAhead` carry this over to the signals of the
  five strategies, and so do `BacktestCountsRoundTrips` and `BacktestCombinationsFilter`.
  **`SignalsSeeNoFuture`**: for any frames and parameters no signal would have been another had the frame ended at
  its bar. With `NoLookAhead` this gives the end-to-end statement, **`VariantsTradeOnThePast`**: whether a run is
  in the market on a bar is decided by the bars before it alone. **`RsiReversionIsALatch`** describes the loop
  without the loop: long wherever an entry lies behind with no exit since.
  **`ScoredWindowsAreWarm`**: no indicator is filling up inside a scored window, and the MACD's EMAs have had
  the bars there that `strategies.py:111-112` gives them to forget their seed. `Reached` and `Settled` say this
  of the bars, not of `warmup_bars`; that these are enough is the lemma `WarmupsAreEnough`.
  The EMA, the sum of a window and the RSI's position are recursive functions, and the library's induction
  theorems cannot be instantiated here. Each gets two lemmas: that a function satisfying the recursive equation
  exists (`...Exists`, by way of the least length for which none does, which `WFMin` provides), so the definition
  may be expanded, and its property, by the least bar that fails it. `WindowsAgree` and `CrossingsAgree` say that
  what is read of a frame up to a bar is the same in two frames that agree up to it.
  Assumptions: `EngineAssumption`, which includes that each combination has a longest warm-up, true of every
  finite set; `StrategiesAssumption`, that parameters are numbers in the ranges the constructors accept; and
  `BacktestAssumption`, that the inputs are frames of candles and the warm-ups those of the strategies.

Only model-checked: liveness, `JobsEnd`, whose safety part is proved (that `DeferredResumes` fails is section 6).
Fairness with ENABLED is beyond the prover.

## 6. Where the code and its documents disagree

Each has a run that must find the violation.

* `audit_watermark` (`bronze.py:61`). "Every attempt is audited in meta.ingest_runs, success or failure"
  (`bronze.py:46`). If the watermark query fails the transaction is in error and the audit insert is
  refused too.
* `deferred_resumes` (`flows.py:274`). Deferred symbols "resume on the next run" (`flows.py:331`). Each
  pass starts with the same pair; an early symbol whose vendor answers 5xx spends up to nine requests
  of the quota every day, and the last one may be deferred every day.
* `flow_nothing` (`flows.py:335`). "A run that ingested nothing must not overwrite exports/index.json"
  (`flows.py:310`). The gate that follows lets a run without a success pass if anything was deferred.
* `mart_never_measured` (`mart_combination_analysis.sql:117`). "Never measured out of sample must not be
  readable as failed out of sample" (lines 13-16). `NULL and coalesce(n_trades, 0) > 0` is
  `NULL and FALSE`, which is FALSE.

Noticed while modelling, and not given a run:

* `refresh_leaderboard`'s result is ignored (`flows.py:356`), so numbers whose tests failed are exported
  and the three marts may disagree; `PublishedIsWhole` excepts exactly these runs. When dbt stops after
  the first mart, "the three relations can never disagree" (`mart_combination_analysis.sql:5`) fails.
* A number that failed its test stays published until somebody repairs gold: the required build of every
  later run tests the marts over the same runs and fails before the backtests that would replace
  them (`flows.py:122`). `SlipShowsOnce` is this from the good side.
* A rejected credential ends a run that ingested from other sources (`flows.py:309`); the module's
  docstring still says that one failing pair never aborts the run.
* `bronze.main` loses the audit rows of reported pairs when its one connection is lost (`bronze.py:164`).
* A variant that bought once and never sold has `n_trades = 0` and is not credited with its win
  (`mart_combination_analysis.sql:114`); without the mart, `export.py:373` credits a variant that never
  traded whenever the market fell. `SwitchKeepsVerdicts` therefore speaks of traded windows.
* The windows begin behind the warm-up, so they do not "together cover every bar"
  (`engine.py:126-128`), and `split_ts` (`export.py:594`) is one variant's boundary where others differ.
* "Every indicator is NaN for its first `warmup_bars` bars" (`engine.py:141`) is not so for the MACD, whose
  EMAs have a value at bar 0, and is one bar late for moving averages, which have one at bar
  `warmup_bars - 1`. `WindowsAreWarm` speaks of the bars from which each indicator has its window
  (`Reached`), and for the MACD of its spans (`Settled`).
* A variant or an asset's strategy that is dropped from the configuration keeps its newest gold
  runs for ever, and the export still counts them (`export.py:81`), while "n_combinations always reports how
  many were actually evaluated" (`export.py:566`). Assets that are dropped do leave the export.
* At a sync's target `rows_inserted` of a copied run counts what it inserted at the source; where the
  target already had some of the days, `InsertedIsCounted` does not hold of it. Between the two commits of a sync
  an audit row may speak of bars that are not there yet; `WatermarkHidesNothing`, which asks about the days
  below stored bars, holds throughout.
* Kraken answers its last 720 days whatever is asked: an asset backfilled from it misses older days
  without an error, which to the layer are days the vendor left out.

## 7. Not modelled

* **Power BI** and published data: no program. **Configuration**: values, which are the constants
  here; loading and connection strings have no state. **Migrations**: keys, foreign keys and the cascade
  are in the modules that write the tables; access policies are not.
* Of the **export**: the shape of the files, the sizes that decide when the index is cut (that it may
  stay over its budget after the cut is a warning in the code), down-sampling of curves, `split_ts`.
* Of **locks**: `BronzeIngest` has the row locks of ingestion. Those of the store's prunes are left out (section
  2), and so are those a sync's inserts take at a target that ingests meanwhile: waiting there, or being
  chosen as the victim of a deadlock, is only covered as a sync that dies (`Die`).
* Of the **audit**: the audit insert failing by itself on a live connection (`bronze.py:152-157`) is not a
  fault of its own; it ends in the exception of a lost connection, with which it is taken together.
* Of the **index**: the rank key is rounded before it is compared (`export.py:392`), so that two
  combinations may tie which `Outranks` tells apart.
* Of the **engine**: prices, fills, costs, equity, drawdown and Sharpe ratio, which are floating-point
  arithmetic without control; the switch `combinations.enabled`. Of **validation**: the nullable indicator
  columns that no strategy but the crossing of averages reads.
* Of the **marts**: averages, medians, ranks; the FX, summary, reconciliation and data-quality marts,
  which are numeric SQL over silver. They appear in `DailyFlow` as relations that are rebuilt from bronze.
* A symbol's variants are written one by one; `DailyFlow` gives the symbol one stamp, `BacktestStore` has
  the variants.
* Whether a day a vendor published late is ever asked for again: it is not, below the watermark, and the
  layer's promise says no more than that the vendor was asked once.

## 8. Plan

In order of importance; the first ten are done.

1. `BronzeLayer`, `BronzeIngest` and the refinement. 2. `IngestAll`. 3. `DailyFlow` over it.
4. `BacktestStore`. 5. `Marts`. 6. `Engine`. 7. `ExportFiles`, and variants, assets and deaths in
   `BacktestStore`. 8. `Publication`, slips, and the refinement. 9. `SyncBronze`. 10. `Strategies` and
   `Backtest`.
11. `DataQuality`: gaps and duplicates against a reference definition over small calendars.
12. Proofs: that a sync ends, like the jobs; that the extent of `audit_watermark` is a failing watermark query
    and nothing else (`AttemptsAreAudited` has one direction); the counts of nested groups in `Marts`.
