----------------------------- MODULE DailyFlowInv -----------------------------
(***************************************************************************)
(* Why DailyFlow keeps Publication's promise: every relation lags behind   *)
(* the one it is built from and only ever catches up, the checkout lags    *)
(* behind the warehouse and the site behind the checkout; and how far the  *)
(* job has come says which of them have caught up.                         *)
(***************************************************************************)
EXTENDS DailyFlow

Le(f, g) == \A s \in Symbols : f[s] <= g[s]

\* Nothing aggregates what is not there.
Lags ==
  /\ inserted <= today /\ \A s \in Symbols : bars[s] <= today
  /\ Le(prices, bars) /\ Le(backtests, prices)
  /\ Le(combos, backtests) /\ Le(board, combos) /\ Le(summary, combos)

\* An export lags behind the warehouse it was read from.
Behind(x) ==
  /\ x.day <= today
  /\ Le(x.prices, prices) /\ Le(x.backtests, backtests) /\ Le(x.combos, combos)
  /\ Le(x.board, board) /\ Le(x.summary, summary)

Later(x, y) ==
  /\ x.day <= y.day
  /\ Le(x.prices, y.prices) /\ Le(x.backtests, y.backtests) /\ Le(x.combos, y.combos)
  /\ Le(x.board, y.board) /\ Le(x.summary, y.summary)

\* An export is consistent in itself.
Sound(x) ==
  /\ \A s \in Symbols : x.prices[s] <= x.day
  /\ Le(x.backtests, x.prices) /\ Le(x.combos, x.backtests)
  /\ Le(x.board, x.combos) /\ Le(x.summary, x.combos)
  /\ \/ x.warned
     \/ x.combos = x.backtests /\ x.board = x.combos /\ x.summary = x.combos /\ x.slip = {}

Unwritten == {"ingest", "dbt_prices", "dbt_combos", "dbt_aggregates", "backtest",
              "refresh_combos", "refresh_aggregates", "prune", "export"}
Built == {"backtest", "refresh_combos", "refresh_aggregates", "prune", "export",
          "freshness", "commit"}

\* What the job has reached: a slip it publishes is one it has just made, for the required
\* build lets none through.
Progress ==
  /\ phase \in {"ingest", "dbt_prices", "dbt_combos", "dbt_aggregates"} => symbol = 1
  /\ phase \in Unwritten => tree = site
  /\ phase \in Built => site.slip = {} /\ Outcome("auth") = {}
  /\ phase \in {"dbt_prices", "dbt_combos", "dbt_aggregates"} => Outcome("auth") = {}
  /\ site.slip # {} => slip # {}
  /\ phase \in {"freshness", "commit"} => tree.slip \subseteq slip
  /\ phase = "refresh_aggregates" => combos = backtests
  /\ phase \in {"prune", "export"} =>
       warned \/ (combos = backtests /\ board = combos /\ summary = combos /\ slip = {})
  /\ phase = "commit" => tree.day - inserted <= StaleAfter

FlowInv ==
  /\ TypeOK /\ PassInv
  /\ Lags
  /\ Behind(tree) /\ Sound(tree)
  /\ Later(site, tree) /\ Sound(site)
  /\ Progress

-----------------------------------------------------------------------------
(* What lets a job publish, and why it ends *)

\* Behind the gates the pass is over and the gates' condition still holds: nothing but a new
\* job writes to the outcomes they looked at.
Gated == phase \notin {"off", "ingest"} => PassDone /\ MayProceed

\* A run publishes without a single success only behind a 429: the one exception to
\* NothingNewNothingPublished.
OnlyRefusalsPublishNothing == [][Outcome("ok") # {} \/ Outcome("limited") # {}]_site

\* Steps from a phase to the end of the job: pairs and assets are taken one by one.
StepsLeft ==
  CASE phase = "off"                -> 0
    [] phase = "commit"             -> 1
    [] phase = "freshness"          -> 2
    [] phase = "export"             -> 3
    [] phase = "prune"              -> 4
    [] phase = "refresh_aggregates" -> 5
    [] phase = "refresh_combos"     -> 6
    [] phase = "backtest"           -> 7 + NSymbols - symbol
    [] phase = "dbt_aggregates"     -> 7 + NSymbols
    [] phase = "dbt_combos"         -> 8 + NSymbols
    [] phase = "dbt_prices"         -> 9 + NSymbols
    [] phase = "ingest"             -> 11 + NSymbols + NPairs - next

\* Each step of a job is one of those, whatever fails; only the calendar goes on beside it.
JobsRunOut == [][phase # "off" => StepsLeft' < StepsLeft \/ NewDay]_vars
=============================================================================
