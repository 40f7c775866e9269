------------------------------ MODULE DailyFlow ------------------------------
(***************************************************************************)
(* flows.daily_flow inside the workflow that runs it every day: ingestion, *)
(* the required dbt build, the backtests, the refresh of the marts they    *)
(* feed, retention, the export into the checkout, the freshness check and  *)
(* the commit that publishes the export.                                   *)
(*                                                                         *)
(* Relations are abstracted to stamps: the day whose data they were made   *)
(* from, per symbol.  The workflow's concurrency group runs one job at a   *)
(* time; every job starts from a fresh checkout, the warehouse persists.   *)
(***************************************************************************)
EXTENDS IngestAll

CONSTANTS
  NSymbols,     \* assets, numbered in the order of config.yaml
  SymbolOf,     \* SymbolOf[p]: the asset of pair p
  StaleAfter,   \* the freshness check's error_after, in days
  Faults,       \* what may go wrong, a subset of FaultKinds
  LastDay       \* bound: the calendar stops there

Symbols == 1 .. NSymbols
FaultKinds == {"crash", "build", "backtest", "refresh", "slip", "push"}

ASSUME DailyFlowAssumption ==
  /\ NSymbols \in Nat \ {0} /\ StaleAfter \in Nat /\ LastDay \in Nat
  /\ SymbolOf \in [1 .. NPairs -> 1 .. NSymbols]
  /\ Faults \subseteq {"crash", "build", "backtest", "refresh", "slip", "push"}

VARIABLES
  today,        \* the calendar day
  phase,        \* where the job is; "off" when none runs
  symbol,       \* the asset the backtest loop has come to
  inserted,     \* the last day a candle was inserted: max(ingested_at)
  bars,         \* bars[s]: the last day new bars of s were ingested
  prices,       \* silver and fct_ohlcv_indicators: bars as of their last build
  backtests,    \* gold.backtest_runs: prices[s] as of s's last backtest
  slip,         \* symbols whose newest gold runs fail a test of the marts
  combos,       \* mart_combination_analysis: backtests as of its last build
  board,        \* mart_strategy_leaderboard: combos as of its last build
  summary,      \* mart_overfitting_summary: combos as of its last build
  warned,       \* history: has the job's refresh of the marts failed?
  tree,         \* exports/ in the job's checkout
  site          \* exports/ as pushed: what the website shows

warehouse == <<prices, backtests, slip, combos, board, summary>>
flowVars == <<today, phase, symbol, inserted, bars, warehouse, warned, tree, site>>
vars == <<ingestVars, flowVars>>

Stamps == [Symbols -> 0 .. LastDay]
Phases == {"off", "ingest", "dbt_prices", "dbt_combos", "dbt_aggregates", "backtest",
           "refresh_combos", "refresh_aggregates", "prune", "export", "freshness", "commit"}
Export == [day: 0 .. LastDay, prices: Stamps, backtests: Stamps, combos: Stamps,
           board: Stamps, summary: Stamps, slip: SUBSET Symbols, warned: BOOLEAN]

TypeOK ==
  /\ IngestTypeOK
  /\ today \in 0 .. LastDay /\ phase \in Phases
  /\ symbol \in 1 .. NSymbols + 1 /\ (phase = "backtest" => symbol \in Symbols)
  /\ inserted \in 0 .. LastDay
  /\ {bars, prices, backtests, combos, board, summary} \subseteq Stamps
  /\ slip \subseteq Symbols /\ warned \in BOOLEAN
  /\ tree \in Export /\ site \in Export

Outcome(o) == {p \in Pairs : outcome[p] = o}

-----------------------------------------------------------------------------

\* The warehouse and the site as the first run leaves them.
Init ==
  LET start == [s \in Symbols |-> 0]
  IN /\ IngestInit /\ today = 0 /\ phase = "off" /\ symbol = 1 /\ inserted = 0
     /\ bars = start /\ prices = start /\ backtests = start
     /\ slip = {} /\ combos = start /\ board = start /\ summary = start /\ warned = FALSE
     /\ tree = [day |-> 0, prices |-> start, backtests |-> start, combos |-> start,
                board |-> start, summary |-> start, slip |-> {}, warned |-> FALSE]
     /\ site = tree

NewDay ==
  /\ today < LastDay
  /\ today' = today + 1
  /\ UNCHANGED <<ingestVars, phase, symbol, inserted, bars, warehouse, warned, tree, site>>

\* The schedule, or a dispatch by hand: a fresh checkout and a new pass.
StartJob ==
  /\ phase = "off"
  /\ phase' = "ingest" /\ symbol' = 1
  /\ tree' = site /\ warned' = FALSE
  /\ BeginPass
  /\ UNCHANGED <<today, inserted, bars, warehouse, site>>

GoTo(p) ==
  /\ phase' = p
  /\ UNCHANGED <<today, symbol, inserted, bars, tree, site>>

\* The job turns red: nothing it wrote into its checkout survives.
Fail == GoTo("off") /\ UNCHANGED warned

-----------------------------------------------------------------------------
(* Ingestion and its gates *)

\* A call that succeeds may still find nothing new: a holiday, an empty answer, an empty
\* window.  What arrives has been asked for.
Ingest ==
  /\ phase = "ingest" /\ IngestPass
  /\ \/ UNCHANGED <<inserted, bars>>
     \/ /\ outcome'[next] = "ok" /\ (Metered(next) => budget' # budget)
        /\ inserted' = today
        /\ bars' = [bars EXCEPT ![SymbolOf[next]] = today]
  /\ UNCHANGED <<today, phase, symbol, warehouse, warned, tree, site>>

\* Mutant: a rejected credential does not stop the run.
MayProceed_Rejected ==
  Outcome("ok") # {} \/ Outcome("deferred") \cup Outcome("limited") # {}

MayProceed ==
  /\ Outcome("auth") = {}
  /\ Outcome("ok") # {} \/ Outcome("deferred") \cup Outcome("limited") # {}

PassGates ==
  /\ phase = "ingest" /\ PassDone /\ MayProceed
  /\ GoTo("dbt_prices") /\ UNCHANGED <<ingestVars, warehouse, warned>>

AbortBeforeDbt ==
  /\ phase = "ingest" /\ PassDone /\ ~MayProceed
  /\ Fail /\ UNCHANGED <<ingestVars, warehouse>>

-----------------------------------------------------------------------------
(* dbt: every model replaces its relation, then its tests run, and a failing *)
(* model or test skips what is downstream of it.                             *)

BuildPrices ==
  /\ phase = "dbt_prices"
  /\ prices' = bars
  /\ GoTo("dbt_combos")
  /\ UNCHANGED <<ingestVars, backtests, slip, combos, board, summary, warned>>

\* The mart is rebuilt; a slip fails a test of this mart or of those built from it.
BuildCombos(from, to, otherwise) ==
  /\ phase = from
  /\ combos' = backtests
  /\ GoTo(to) \/ (slip # {} /\ GoTo(otherwise))
  /\ UNCHANGED <<ingestVars, prices, backtests, slip, board, summary>>

BuildAggregates(from, to, otherwise) ==
  /\ phase = from
  /\ board' = combos /\ summary' = combos
  /\ GoTo(IF slip = {} THEN to ELSE otherwise)
  /\ UNCHANGED <<ingestVars, prices, backtests, slip, combos>>

\* Mutant: a failing test is let pass before the backtests too.
RunDbt_Lenient ==
  \/ BuildPrices
  \/ /\ \/ BuildCombos("dbt_combos", "dbt_aggregates", "backtest")
        \/ BuildAggregates("dbt_aggregates", "backtest", "backtest")
     /\ UNCHANGED warned

\* run_dbt: required, so any failure ends the job.
RunDbt ==
  \/ BuildPrices
  \/ /\ \/ BuildCombos("dbt_combos", "dbt_aggregates", "off")
        \/ BuildAggregates("dbt_aggregates", "backtest", "off")
     /\ UNCHANGED warned

\* Mutant: the aggregates do not wait for the mart they are built from.
RefreshLeaderboard_Unordered ==
  \/ /\ BuildAggregates("refresh_combos", "refresh_aggregates", "prune")
     /\ warned' = (slip # {})
  \/ BuildCombos("refresh_aggregates", "prune", "prune") /\ warned' = (slip # {})

\* refresh_leaderboard: a failing test stops it, and its result is ignored.
RefreshLeaderboard ==
  \/ BuildCombos("refresh_combos", "refresh_aggregates", "prune") /\ warned' = (phase' = "prune")
  \/ /\ BuildAggregates("refresh_aggregates", "prune", "prune")
     /\ warned' = (slip # {})

\* Mutant: the result of a failed refresh is taken for a success.
DbtFails_Silent ==
  /\ \/ phase \in {"dbt_prices", "dbt_combos", "dbt_aggregates"} /\ "build" \in Faults /\ Fail
     \/ /\ phase \in {"refresh_combos", "refresh_aggregates"} /\ "refresh" \in Faults
        /\ GoTo("prune") /\ UNCHANGED warned
  /\ UNCHANGED <<ingestVars, warehouse>>

DbtFails ==
  /\ \/ phase \in {"dbt_prices", "dbt_combos", "dbt_aggregates"} /\ "build" \in Faults /\ Fail
     \/ /\ phase \in {"refresh_combos", "refresh_aggregates"} /\ "refresh" \in Faults
        /\ GoTo("prune") /\ warned' = TRUE
  /\ UNCHANGED <<ingestVars, warehouse>>

-----------------------------------------------------------------------------
(* Backtests, retention, export *)

\* Mutant: the refresh is forgotten.
BacktestDone_NoRefresh(s) ==
  /\ symbol' = s + 1
  /\ phase' = IF s = NSymbols THEN "prune" ELSE "backtest"
  /\ UNCHANGED <<ingestVars, today, inserted, bars, prices, combos, board, summary, warned,
                 tree, site>>

BacktestDone(s) ==
  /\ symbol' = s + 1
  /\ phase' = IF s = NSymbols THEN "refresh_combos" ELSE "backtest"
  /\ UNCHANGED <<ingestVars, today, inserted, bars, prices, combos, board, summary, warned,
                 tree, site>>

\* What the symbol's new runs make of the slips: those they replace are gone.
Slips(s, kept) == slip' \in {kept} \cup (IF "slip" \in Faults THEN {kept \cup {s}} ELSE {})

BacktestSymbol(s) ==
  /\ phase = "backtest" /\ symbol = s
  /\ backtests' = [backtests EXCEPT ![s] = prices[s]]
  /\ Slips(s, slip \ {s})
  /\ BacktestDone(s)

\* Mutant: a failed symbol is written out empty.
BacktestFails_Empty(s) ==
  /\ phase = "backtest" /\ symbol = s /\ "backtest" \in Faults
  /\ backtests' = [backtests EXCEPT ![s] = 0]
  /\ Slips(s, slip)
  /\ BacktestDone(s)

\* One malformed symbol must not cost the others their backtests.  The variants
\* written before the failure stay, with what slipped into them.
BacktestFails(s) ==
  /\ phase = "backtest" /\ symbol = s /\ "backtest" \in Faults
  /\ UNCHANGED backtests /\ Slips(s, slip)
  /\ BacktestDone(s)

\* Deletes superseded runs only: no stamp here sees it.
Prune ==
  /\ phase = "prune"
  /\ GoTo("export") /\ UNCHANGED <<ingestVars, warehouse, warned>>

ExportJson ==
  /\ phase = "export"
  /\ phase' = "freshness"
  /\ tree' = [day |-> today, prices |-> prices, backtests |-> backtests, combos |-> combos,
              board |-> board, summary |-> summary, slip |-> slip, warned |-> warned]
  /\ UNCHANGED <<ingestVars, today, symbol, inserted, bars, warehouse, warned, site>>

-----------------------------------------------------------------------------
(* The workflow's own steps *)

\* Mutant: warn_after alone.
Freshness_WarnOnly ==
  /\ phase = "freshness" /\ GoTo("commit")
  /\ UNCHANGED <<ingestVars, warehouse, warned>>

\* A gap of exactly StaleAfter days is on the edge, decided by the hour.
Freshness ==
  /\ phase = "freshness"
  /\ \/ today - inserted <= StaleAfter /\ GoTo("commit") /\ UNCHANGED warned
     \/ today - inserted >= StaleAfter /\ Fail
  /\ UNCHANGED <<ingestVars, warehouse>>

CommitExports ==
  /\ phase = "commit"
  /\ site' = tree
  /\ phase' = "off"
  /\ UNCHANGED <<ingestVars, today, symbol, inserted, bars, warehouse, warned, tree>>

\* The branch moved since the checkout: the push is refused.
PushRejected ==
  /\ phase = "commit" /\ "push" \in Faults
  /\ Fail /\ UNCHANGED <<ingestVars, warehouse>>

\* The runner dies, or a step with no error handling of its own raises.
Crash ==
  /\ phase # "off" /\ "crash" \in Faults
  /\ Fail /\ UNCHANGED <<ingestVars, warehouse>>

Next ==
  \/ NewDay \/ StartJob
  \/ Ingest \/ PassGates \/ AbortBeforeDbt
  \/ RunDbt \/ RefreshLeaderboard \/ DbtFails
  \/ \E s \in Symbols : BacktestSymbol(s) \/ BacktestFails(s)
  \/ Prune \/ ExportJson
  \/ Freshness \/ CommitExports \/ PushRejected \/ Crash

Spec == Init /\ [][Next]_vars

-----------------------------------------------------------------------------
(* Properties of what is published *)

\* The marts are published beside exactly the backtests they aggregate, unless the job's
\* own refresh of them failed and was let pass: a run that dies anywhere, and a refresh
\* that failed in an earlier run, leave no mixture behind.
PublishedIsWhole ==
  site.warned \/ (site.combos = site.backtests /\ site.board = site.combos
                   /\ site.summary = site.combos)

\* No later snapshot shows older data than an earlier one did, for any symbol and
\* whatever failed in between: not even marts that a failed refresh left behind.
NotOlder(new, old) == \A s \in Symbols : new[s] >= old[s]
PublicationNeverRegresses ==
  [][/\ site'.day >= site.day
     /\ NotOlder(site'.prices, site.prices)
     /\ NotOlder(site'.backtests, site.backtests)
     /\ NotOlder(site'.combos, site.combos)
     /\ NotOlder(site'.board, site.board)]_site

\* FALLO-26: a run that met a rejected credential publishes nothing, however much the
\* other sources brought in.
RejectionPublishesNothing == [][Outcome("auth") = {}]_site

\* Runs that bring in nothing may publish, but never more than StaleAfter days after the
\* last candle arrived: the gates, the export and the freshness check see different days.
PublishedIsFresh == [][site'.day - inserted <= StaleAfter]_site

\* "Their tests are the only thing standing between an arithmetic slip and a published
\* number": a slip gets past them once, in the run that makes it, whose refresh only
\* warns.  From then on every required build stops at it, so nothing is published over
\* it, not even the next run's repaired numbers.
SlipShowsOnce == [][site.slip = {} /\ (site'.slip # {} => site'.warned)]_site

\* The run, its faults and its gates are one way to keep Publication's promise.
Pub == INSTANCE Publication
ImplementsPublication == Pub!Spec

-----------------------------------------------------------------------------
(* What the repository says and the code does not keep *)

\* "A run that ingested nothing must not overwrite exports/index.json": what replaces the
\* site comes from a run in which some call succeeded.
NothingNewNothingPublished == [][Outcome("ok") # {}]_site
=============================================================================
