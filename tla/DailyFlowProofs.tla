--------------------------- MODULE DailyFlowProofs ---------------------------
(***************************************************************************)
(* The daily flow keeps Publication's promise for every number of assets   *)
(* and pairs, every set of faults and every length of the calendar: first  *)
(* the order of the stamps, which every action keeps, then the progress of *)
(* the job, then the refinement; last, what opens the gates and that the   *)
(* job ends.                                                               *)
(***************************************************************************)
EXTENDS DailyFlowInv, IngestAllProofs

\* The part of the invariant that is about data, not about the job.
DataInv ==
  /\ Lags
  /\ Behind(tree) /\ Sound(tree)
  /\ Later(site, tree) /\ Sound(site)

LEMMA LeReflexive == ASSUME NEW f \in Stamps PROVE Le(f, f)
BY DailyFlowAssumption DEF Le, Stamps

LEMMA LeTransitive ==
  ASSUME NEW f \in Stamps, NEW g \in Stamps, NEW h \in Stamps, Le(f, g), Le(g, h)
  PROVE  Le(f, h)
BY DailyFlowAssumption DEF Le, Stamps

LEMMA StampTypes ==
  ASSUME TypeOK
  PROVE  /\ today \in Int /\ inserted \in Int
         /\ bars \in Stamps /\ prices \in Stamps /\ backtests \in Stamps
         /\ combos \in Stamps /\ board \in Stamps /\ summary \in Stamps
         /\ \A x \in {tree, site} :
              /\ x.day \in Int /\ x.prices \in Stamps /\ x.backtests \in Stamps
              /\ x.combos \in Stamps /\ x.board \in Stamps /\ x.summary \in Stamps
              /\ x.slip \subseteq Symbols /\ x.warned \in BOOLEAN
<1>1. \A n \in 0 .. LastDay : n \in Int
  BY DailyFlowAssumption
<1> QED
  BY <1>1 DEF TypeOK, Export

\* An export stays behind a warehouse that only catches up.
LEMMA StaysBehind ==
  ASSUME TypeOK, TypeOK', NEW x \in Export, Behind(x), today <= today',
         Le(prices, prices'), Le(backtests, backtests'), Le(combos, combos'),
         Le(board, board'), Le(summary, summary')
  PROVE  Behind(x)'
<1>1. /\ x.day \in Int /\ x.prices \in Stamps /\ x.backtests \in Stamps
      /\ x.combos \in Stamps /\ x.board \in Stamps /\ x.summary \in Stamps
  BY DailyFlowAssumption DEF Export
<1>2. today \in Int /\ today' \in Int
  BY DailyFlowAssumption DEF TypeOK
<1>3. /\ {prices, backtests, combos, board, summary} \subseteq Stamps
      /\ {prices', backtests', combos', board', summary'} \subseteq Stamps
  BY DEF TypeOK
<1>4. x.day <= today'
  BY <1>1, <1>2 DEF Behind
<1>5. Le(x.prices, prices') /\ Le(x.backtests, backtests')
  BY <1>1, <1>3, LeTransitive DEF Behind
<1>6. Le(x.combos, combos') /\ Le(x.board, board') /\ Le(x.summary, summary')
  BY <1>1, <1>3, LeTransitive DEF Behind
<1> QED
  BY <1>4, <1>5, <1>6 DEF Behind, Le

\* What leaves the relations, the checkout and the site alone keeps the data in order.
LEMMA QuietKeepsData ==
  ASSUME DataInv, UNCHANGED <<today, inserted, bars, prices, backtests, combos, board, summary,
                              tree, site>>
  PROVE  DataInv'
BY DEF DataInv, Lags, Behind, Sound, Later, Le

-----------------------------------------------------------------------------
(* The steps of the job that move no data *)

LEMMA QuietFails ==
  ASSUME FlowInv, Fail, UNCHANGED <<ingestVars, warehouse>>
  PROVE  FlowInv'
<1>1. TypeOK' /\ PassInv'
  BY DEF FlowInv, Fail, GoTo, TypeOK, ingestVars, warehouse, PassInv, IngestTypeOK, BreakerHolds,
         OnlyRefusalsDefer, Phases
<1>2. DataInv'
  BY QuietKeepsData DEF FlowInv, DataInv, Fail, GoTo, warehouse
<1>3. Progress'
  BY DEF FlowInv, Progress, Fail, GoTo, warehouse, Unwritten, Built
<1> QED
  BY <1>1, <1>2, <1>3 DEF FlowInv, DataInv

\* A step of the job that only goes on to phase p.
LEMMA QuietGoesOn ==
  ASSUME FlowInv, NEW p \in Phases, GoTo(p), UNCHANGED <<ingestVars, warehouse>>,
         warned' \in BOOLEAN, p # "backtest", Progress'
  PROVE  FlowInv'
<1>1. TypeOK' /\ PassInv'
  BY DEF FlowInv, GoTo, TypeOK, ingestVars, warehouse, PassInv, IngestTypeOK, BreakerHolds,
         OnlyRefusalsDefer
<1>2. DataInv'
  BY QuietKeepsData DEF FlowInv, DataInv, GoTo, warehouse
<1> QED
  BY <1>1, <1>2 DEF FlowInv, DataInv

LEMMA PassGatesKeeps == ASSUME FlowInv, PassGates PROVE FlowInv'
<1>1. Progress'
  BY DEF FlowInv, Progress, PassGates, MayProceed, GoTo, Outcome, warehouse, ingestVars, Unwritten,
         Built
<1> QED
  BY <1>1, QuietGoesOn DEF PassGates, Phases, FlowInv, TypeOK

LEMMA DbtFailsKeeps == ASSUME FlowInv, DbtFails PROVE FlowInv'
<1>1. CASE Fail
  BY <1>1, QuietFails DEF DbtFails
<1>2. CASE phase \in {"refresh_combos", "refresh_aggregates"} /\ GoTo("prune") /\ warned' = TRUE
  <2>1. Progress'
    BY <1>2 DEF FlowInv, Progress, DbtFails, GoTo, Outcome, warehouse, ingestVars, Unwritten, Built
  <2> QED
    BY <1>2, <2>1, QuietGoesOn DEF DbtFails, Phases
<1> QED
  BY <1>1, <1>2 DEF DbtFails

LEMMA PruneKeeps == ASSUME FlowInv, Prune PROVE FlowInv'
<1>1. Progress'
  BY DEF FlowInv, Progress, Prune, GoTo, Outcome, warehouse, ingestVars, Unwritten, Built
<1> QED
  BY <1>1, QuietGoesOn DEF Prune, Phases, FlowInv, TypeOK

LEMMA FreshnessKeeps == ASSUME FlowInv, Freshness PROVE FlowInv'
<1>1. CASE Fail
  BY <1>1, QuietFails DEF Freshness
<1>2. CASE today - inserted <= StaleAfter /\ GoTo("commit") /\ UNCHANGED warned
  <2>1. tree.day - inserted <= StaleAfter
    <3>1. tree.day \in Int /\ today \in Int /\ inserted \in Int /\ StaleAfter \in Int
      BY StampTypes, DailyFlowAssumption DEF FlowInv
    <3> QED
      BY <1>2, <3>1 DEF FlowInv, Behind
  <2>2. Progress'
    BY <1>2, <2>1 DEF FlowInv, Progress, Freshness, GoTo, Outcome, warehouse, ingestVars,
                      Unwritten, Built
  <2> QED
    BY <1>2, <2>2, QuietGoesOn DEF Freshness, Phases, FlowInv, TypeOK
<1> QED
  BY <1>1, <1>2 DEF Freshness

-----------------------------------------------------------------------------
(* The steps that move data *)

\* What only the warehouse's steps touch: the checkout and the site stay in order.
LEMMA GrowthKeepsExports ==
  ASSUME FlowInv, TypeOK', UNCHANGED <<today, tree, site>>,
         Le(prices, prices'), Le(backtests, backtests'), Le(combos, combos'),
         Le(board, board'), Le(summary, summary')
  PROVE  /\ Behind(tree)' /\ Sound(tree)' /\ Later(site, tree)' /\ Sound(site)'
<1>1. Behind(tree)'
  <2>1. tree \in Export /\ today <= today'
    BY DailyFlowAssumption DEF FlowInv, TypeOK
  <2>2. \A x \in {tree} : Behind(x)'
    BY <2>1, StaysBehind DEF FlowInv
  <2> QED
    BY <2>2
<1> QED
  BY <1>1 DEF FlowInv, Sound, Later, Le

LEMMA NewDayKeeps == ASSUME FlowInv, NewDay PROVE FlowInv'
<1>1. today \in Int /\ LastDay \in Int /\ inserted \in Int
  BY StampTypes, DailyFlowAssumption DEF FlowInv
<1>2. TypeOK'
  BY <1>1 DEF FlowInv, TypeOK, NewDay, ingestVars, warehouse, IngestTypeOK
<1>3. PassInv'
  BY DEF FlowInv, NewDay, ingestVars, PassInv, IngestTypeOK, BreakerHolds, OnlyRefusalsDefer
<1>4. Lags'
  <2>1. \A s \in Symbols : bars[s] \in Int
    BY DailyFlowAssumption DEF FlowInv, TypeOK, Stamps
  <2> QED
    BY <1>1, <2>1 DEF FlowInv, Lags, NewDay, warehouse, Le
<1>5. Behind(tree)'
  <2>1. tree.day \in Int
    BY StampTypes DEF FlowInv
  <2> QED
    BY <1>1, <2>1 DEF FlowInv, Behind, NewDay, warehouse, Le
<1>6. Sound(tree)' /\ Later(site, tree)' /\ Sound(site)'
  BY DEF FlowInv, Sound, Later, Le, NewDay
<1>7. Progress'
  BY DEF FlowInv, Progress, NewDay, Outcome, warehouse, ingestVars
<1> QED
  BY <1>2, <1>3, <1>4, <1>5, <1>6, <1>7 DEF FlowInv

LEMMA StartJobKeeps == ASSUME FlowInv, StartJob PROVE FlowInv'
<1>1. PassInv'
  BY BeginPassInv DEF FlowInv, TypeOK, StartJob
<1>2. TypeOK'
  <2>1. UNCHANGED <<today, inserted, bars, prices, backtests, slip, combos, board, summary, site>>
    BY DEF StartJob, warehouse
  <2>2. phase' = "ingest" /\ symbol' = 1 /\ tree' = site /\ warned' = FALSE
    BY DEF StartJob
  <2>3. 1 \in 1 .. NSymbols + 1 /\ IngestTypeOK'
    BY <1>1, DailyFlowAssumption DEF PassInv
  <2> QED
    BY <2>1, <2>2, <2>3 DEF FlowInv, TypeOK, Phases
<1>3. Lags'
  BY DEF FlowInv, Lags, StartJob, warehouse, Le
<1>4. Behind(site)
  <2>1. /\ today \in Int /\ site.day \in Int /\ tree.day \in Int
        /\ {prices, backtests, combos, board, summary} \subseteq Stamps
    BY StampTypes DEF FlowInv
  <2>2. \A x \in {tree, site} :
           /\ x.prices \in Stamps /\ x.backtests \in Stamps /\ x.combos \in Stamps
           /\ x.board \in Stamps /\ x.summary \in Stamps
    BY StampTypes DEF FlowInv
  <2>3. site.day <= today
    BY <2>1 DEF FlowInv, Behind, Later
  <2>4. Le(site.prices, prices) /\ Le(site.backtests, backtests) /\ Le(site.combos, combos)
    BY <2>1, <2>2, LeTransitive DEF FlowInv, Behind, Later
  <2>5. Le(site.board, board) /\ Le(site.summary, summary)
    BY <2>1, <2>2, LeTransitive DEF FlowInv, Behind, Later
  <2> QED
    BY <2>3, <2>4, <2>5 DEF Behind
<1>5. Behind(tree)' /\ Sound(tree)' /\ Sound(site)'
  BY <1>4 DEF FlowInv, Behind, Sound, Le, StartJob, warehouse
<1>6. Later(site, tree)'
  <2>1. Later(site, site)
    BY StampTypes, LeReflexive DEF FlowInv, Later
  <2> QED
    BY <2>1 DEF Later, Le, StartJob
<1>7. Progress'
  BY DEF FlowInv, Progress, StartJob, warehouse, Unwritten, Built
<1> QED
  BY <1>1, <1>2, <1>3, <1>5, <1>6, <1>7 DEF FlowInv

LEMMA IngestKeeps == ASSUME FlowInv, Ingest PROVE FlowInv'
<1>1. PassInv'
  BY IngestPairInv DEF FlowInv, Ingest, IngestPass
<1>2. next \in Pairs /\ SymbolOf[next] \in Symbols
  BY DailyFlowAssumption DEF Ingest, IngestPass, IngestPair, Pairs, Symbols
<1>3. /\ today \in 0 .. LastDay /\ inserted \in Int /\ inserted <= today
      /\ bars \in Stamps /\ (\A s \in Symbols : bars[s] <= today)
  BY StampTypes DEF FlowInv, TypeOK, Lags
<1>4. inserted' \in {inserted, today} /\ bars' \in {bars, [bars EXCEPT ![SymbolOf[next]] = today]}
  BY DEF Ingest
<1>5. TypeOK'
  BY <1>1, <1>3, <1>4 DEF FlowInv, TypeOK, Ingest, warehouse, PassInv, Stamps
<1>6. Le(bars, bars') /\ inserted' <= today /\ (\A s \in Symbols : bars'[s] <= today)
  BY <1>2, <1>3, <1>4, DailyFlowAssumption DEF Le, Stamps
<1>7. Lags'
  <2>1. Le(prices, bars')
    BY <1>5, <1>6, LeTransitive DEF FlowInv, TypeOK, Lags
  <2> QED
    BY <1>6, <2>1 DEF FlowInv, Lags, Ingest, warehouse, Le
<1>8. Behind(tree)' /\ Sound(tree)' /\ Later(site, tree)' /\ Sound(site)'
  BY DEF FlowInv, Behind, Sound, Later, Le, Ingest, warehouse
<1>9. Progress'
  BY DEF FlowInv, Progress, Ingest, warehouse, Unwritten, Built
<1> QED
  BY <1>1, <1>5, <1>7, <1>8, <1>9 DEF FlowInv

LEMMA BuildPricesKeeps == ASSUME FlowInv, BuildPrices, UNCHANGED warned PROVE FlowInv'
<1>1. TypeOK' /\ PassInv'
  BY DEF FlowInv, BuildPrices, GoTo, TypeOK, ingestVars, Phases, PassInv, IngestTypeOK,
         BreakerHolds, OnlyRefusalsDefer
<1>2. /\ {bars, prices, backtests, combos, board, summary} \subseteq Stamps
      /\ prices' = bars /\ UNCHANGED <<today, inserted, bars, backtests, combos, board, summary,
                                      tree, site, slip>>
  BY DEF FlowInv, TypeOK, BuildPrices, GoTo
<1>3. Lags'
  <2>1. Le(bars, bars) /\ Le(backtests, bars)
    BY <1>2, LeReflexive, LeTransitive DEF FlowInv, Lags
  <2> QED
    BY <1>2, <2>1 DEF FlowInv, Lags, Le
<1>4. /\ Le(prices, prices') /\ Le(backtests, backtests') /\ Le(combos, combos')
      /\ Le(board, board') /\ Le(summary, summary')
  BY <1>2, LeReflexive DEF FlowInv, Lags
<1>5. Behind(tree)' /\ Sound(tree)' /\ Later(site, tree)' /\ Sound(site)'
  BY <1>1, <1>2, <1>4, GrowthKeepsExports
<1>6. Progress'
  BY DEF FlowInv, Progress, BuildPrices, GoTo, Outcome, ingestVars, Unwritten, Built
<1> QED
  BY <1>1, <1>3, <1>5, <1>6 DEF FlowInv

\* The mart catches up with the backtests.
LEMMA BuildCombosKeeps ==
  ASSUME FlowInv, NEW from, NEW to \in Phases, NEW otherwise \in Phases,
         BuildCombos(from, to, otherwise), warned' \in BOOLEAN,
         to # "backtest", otherwise # "backtest", Progress'
  PROVE  FlowInv'
<1>1. TypeOK' /\ PassInv'
  BY DEF FlowInv, BuildCombos, GoTo, TypeOK, ingestVars, PassInv, IngestTypeOK, BreakerHolds,
         OnlyRefusalsDefer
<1>2. /\ {bars, prices, backtests, combos, board, summary} \subseteq Stamps
      /\ combos' = backtests /\ UNCHANGED <<today, inserted, bars, prices, backtests, board, summary,
                                           tree, site, slip>>
  BY DEF FlowInv, TypeOK, BuildCombos, GoTo
<1>3. Lags'
  <2>1. Le(backtests, backtests) /\ Le(board, backtests) /\ Le(summary, backtests)
    BY <1>2, LeReflexive, LeTransitive DEF FlowInv, Lags
  <2> QED
    BY <1>2, <2>1 DEF FlowInv, Lags, Le
<1>4. /\ Le(prices, prices') /\ Le(backtests, backtests') /\ Le(combos, combos')
      /\ Le(board, board') /\ Le(summary, summary')
  BY <1>2, LeReflexive DEF FlowInv, Lags
<1>5. Behind(tree)' /\ Sound(tree)' /\ Later(site, tree)' /\ Sound(site)'
  BY <1>1, <1>2, <1>4, GrowthKeepsExports
<1> QED
  BY <1>1, <1>3, <1>5 DEF FlowInv

LEMMA BuildAggregatesKeeps ==
  ASSUME FlowInv, NEW from, NEW to \in Phases, NEW otherwise \in Phases,
         BuildAggregates(from, to, otherwise), warned' \in BOOLEAN,
         phase' = "backtest" => symbol \in Symbols, Progress'
  PROVE  FlowInv'
<1>1. TypeOK' /\ PassInv'
  BY DEF FlowInv, BuildAggregates, GoTo, TypeOK, ingestVars, PassInv, IngestTypeOK, BreakerHolds,
         OnlyRefusalsDefer
<1>2. /\ {bars, prices, backtests, combos, board, summary} \subseteq Stamps
      /\ board' = combos /\ summary' = combos
      /\ UNCHANGED <<today, inserted, bars, prices, backtests, combos, tree, site, slip>>
  BY DEF FlowInv, TypeOK, BuildAggregates, GoTo
<1>3. Lags'
  <2>1. Le(combos, combos)
    BY <1>2, LeReflexive
  <2> QED
    BY <1>2, <2>1 DEF FlowInv, Lags, Le
<1>4. /\ Le(prices, prices') /\ Le(backtests, backtests') /\ Le(combos, combos')
      /\ Le(board, board') /\ Le(summary, summary')
  BY <1>2, LeReflexive DEF FlowInv, Lags
<1>5. Behind(tree)' /\ Sound(tree)' /\ Later(site, tree)' /\ Sound(site)'
  BY <1>1, <1>2, <1>4, GrowthKeepsExports
<1> QED
  BY <1>1, <1>3, <1>5 DEF FlowInv

\* run_dbt and refresh_leaderboard: a step of each model, and what its tests let pass.
LEMMA DbtKeeps == ASSUME FlowInv, RunDbt \/ RefreshLeaderboard PROVE FlowInv'
<1>1. CASE RunDbt /\ BuildPrices
  <2>1. UNCHANGED warned
    BY <1>1 DEF BuildPrices
  <2> QED
    BY <1>1, <2>1, BuildPricesKeeps
<1>2. CASE BuildCombos("dbt_combos", "dbt_aggregates", "off") /\ UNCHANGED warned
  <2>1. Progress'
    BY <1>2 DEF FlowInv, Progress, BuildCombos, GoTo, Outcome, ingestVars, Unwritten, Built
  <2> QED
    BY <1>2, <2>1, BuildCombosKeeps DEF Phases, FlowInv, TypeOK
<1>3. CASE BuildAggregates("dbt_aggregates", "backtest", "off") /\ UNCHANGED warned
  <2>1. Progress'
    BY <1>3 DEF FlowInv, Progress, BuildAggregates, GoTo, Outcome, ingestVars, Unwritten, Built
  <2>2. symbol \in Symbols
    BY <1>3, DailyFlowAssumption DEF FlowInv, Progress, BuildAggregates, Symbols
  <2> QED
    BY <1>3, <2>1, <2>2, BuildAggregatesKeeps DEF Phases, FlowInv, TypeOK
<1>4. CASE BuildCombos("refresh_combos", "refresh_aggregates", "prune") /\ warned' = (phase' = "prune")
  <2>1. Progress'
    BY <1>4 DEF FlowInv, Progress, BuildCombos, GoTo, Outcome, ingestVars, Unwritten, Built
  <2>2. warned' \in BOOLEAN
    BY <1>4
  <2> QED
    BY <1>4, <2>1, <2>2, BuildCombosKeeps DEF Phases
<1>5. CASE BuildAggregates("refresh_aggregates", "prune", "prune") /\ warned' = (slip # {})
  <2>1. Progress'
    BY <1>5 DEF FlowInv, Progress, BuildAggregates, GoTo, Outcome, ingestVars, Unwritten, Built
  <2>2. warned' \in BOOLEAN /\ phase' = "prune"
    BY <1>5 DEF BuildAggregates, GoTo
  <2> QED
    BY <1>5, <2>1, <2>2, BuildAggregatesKeeps DEF Phases
<1> QED
  BY <1>1, <1>2, <1>3, <1>4, <1>5 DEF RunDbt, RefreshLeaderboard

LEMMA BacktestKeeps ==
  ASSUME FlowInv, NEW s \in Symbols, BacktestSymbol(s) \/ BacktestFails(s)
  PROVE  FlowInv'
<1>1. /\ {bars, prices, backtests, combos, board, summary} \subseteq Stamps
      /\ backtests' \in {backtests, [backtests EXCEPT ![s] = prices[s]]}
      /\ slip' \subseteq Symbols /\ slip \subseteq Symbols
      /\ phase = "backtest" /\ symbol = s /\ BacktestDone(s)
  BY DEF FlowInv, TypeOK, BacktestSymbol, BacktestFails, Slips
<1>2. UNCHANGED <<today, inserted, bars, prices, combos, board, summary, tree, site, warned>>
  BY <1>1 DEF BacktestDone
<1>3. TypeOK' /\ PassInv'
  <2>1. symbol' \in 1 .. NSymbols + 1 /\ (phase' = "backtest" => symbol' \in Symbols)
    BY <1>1, DailyFlowAssumption DEF BacktestDone, Symbols
  <2>2. phase' \in Phases
    BY <1>1 DEF BacktestDone, Phases
  <2>3. backtests' \in Stamps
    BY <1>1 DEF Stamps
  <2>4. UNCHANGED <<next, outcome, hasKey, budget>>
    BY <1>1 DEF BacktestDone, ingestVars
  <2>5. PassInv' /\ IngestTypeOK'
    BY <2>4 DEF FlowInv, PassInv, IngestTypeOK, BreakerHolds, OnlyRefusalsDefer
  <2> QED
    BY <1>1, <1>2, <2>1, <2>2, <2>3, <2>5 DEF FlowInv, TypeOK
<1>4. Le(backtests, backtests') /\ Le(backtests', prices)
  <2>1. \A r \in Symbols : backtests[r] \in Int /\ prices[r] \in Int /\ backtests[r] <= prices[r]
    BY <1>1, DailyFlowAssumption DEF FlowInv, Lags, Le, Stamps
  <2> QED
    BY <1>1, <2>1 DEF Le, Stamps
<1>5. Lags'
  <2>1. Le(combos, backtests')
    BY <1>1, <1>3, <1>4, LeTransitive DEF FlowInv, Lags, TypeOK
  <2> QED
    BY <1>2, <1>4, <2>1 DEF FlowInv, Lags, Le
<1>6. Behind(tree)' /\ Sound(tree)' /\ Later(site, tree)' /\ Sound(site)'
  <2>1. Le(prices, prices') /\ Le(combos, combos') /\ Le(board, board') /\ Le(summary, summary')
    BY <1>1, <1>2, LeReflexive
  <2> QED
    BY <1>2, <1>3, <1>4, <2>1, GrowthKeepsExports
<1>7. Progress'
  <2>1. phase' \in {"backtest", "refresh_combos"} /\ UNCHANGED outcome
    BY <1>1 DEF BacktestDone, ingestVars
  <2> QED
    BY <1>1, <1>2, <2>1 DEF FlowInv, Progress, Outcome, Unwritten, Built
<1> QED
  BY <1>3, <1>5, <1>6, <1>7 DEF FlowInv

\* What is read in one go lags behind the warehouse and is as sound as the job left it.
LEMMA ExportKeeps == ASSUME FlowInv, ExportJson PROVE FlowInv'
<1>1. /\ {bars, prices, backtests, combos, board, summary} \subseteq Stamps
      /\ today \in 0 .. LastDay /\ today \in Int /\ warned \in BOOLEAN /\ slip \subseteq Symbols
  BY StampTypes DEF FlowInv, TypeOK
<1>2. /\ tree'.day = today /\ tree'.prices = prices /\ tree'.backtests = backtests
      /\ tree'.combos = combos /\ tree'.board = board /\ tree'.summary = summary
      /\ tree'.slip = slip /\ tree'.warned = warned
      /\ phase = "export" /\ phase' = "freshness" /\ tree = site
      /\ UNCHANGED <<today, symbol, inserted, bars, prices, backtests, slip, combos, board,
                    summary, warned, site>>
      /\ UNCHANGED <<next, outcome, hasKey, budget>>
  BY DEF ExportJson, FlowInv, Progress, Unwritten, warehouse, ingestVars
<1>3. TypeOK' /\ PassInv'
  <2>1. tree' \in Export
    BY <1>1 DEF ExportJson, Export
  <2>2. PassInv' /\ IngestTypeOK'
    BY <1>2 DEF FlowInv, PassInv, IngestTypeOK, BreakerHolds, OnlyRefusalsDefer
  <2> QED
    BY <1>2, <2>1, <2>2 DEF FlowInv, TypeOK, Phases
<1>4. Lags'
  BY <1>2 DEF FlowInv, Lags, Le
<1>5. Behind(tree)'
  BY <1>1, <1>2, LeReflexive DEF Behind, Le
<1>6. Sound(tree)' /\ Sound(site)'
  <2>1. \A s \in Symbols : prices[s] <= today
    <3>1. \A s \in Symbols : prices[s] \in Int /\ bars[s] \in Int
      BY <1>1, DailyFlowAssumption DEF Stamps
    <3> QED
      BY <1>1, <3>1 DEF FlowInv, Lags, Le
  <2> QED
    BY <1>2, <2>1 DEF FlowInv, Lags, Progress, Sound, Le
<1>7. Later(site, tree)'
  BY <1>2 DEF FlowInv, Behind, Later, Le
<1>8. Progress'
  BY <1>2 DEF FlowInv, Progress, Outcome, Unwritten, Built
<1> QED
  BY <1>3, <1>4, <1>5, <1>6, <1>7, <1>8 DEF FlowInv

LEMMA CommitKeeps == ASSUME FlowInv, CommitExports PROVE FlowInv'
<1>1. TypeOK' /\ PassInv'
  BY DEF FlowInv, CommitExports, TypeOK, ingestVars, warehouse, PassInv, IngestTypeOK,
         BreakerHolds, OnlyRefusalsDefer, Phases
<1>2. Lags' /\ Behind(tree)' /\ Sound(tree)' /\ Sound(site)'
  BY DEF FlowInv, Lags, Behind, Sound, Le, CommitExports, warehouse
<1>3. Later(site, tree)'
  <2>1. Later(tree, tree)
    BY StampTypes, LeReflexive DEF FlowInv, Later
  <2> QED
    BY <2>1 DEF Later, Le, CommitExports
<1>4. Progress'
  BY DEF FlowInv, Progress, CommitExports, warehouse, Unwritten, Built
<1> QED
  BY <1>1, <1>2, <1>3, <1>4 DEF FlowInv

-----------------------------------------------------------------------------
(* The invariant and what follows from it *)

LEMMA InitFlowInv == Init => FlowInv
<1> SUFFICES ASSUME Init PROVE FlowInv
  OBVIOUS
<1>1. PassInv
  <2>1. IngestTypeOK
    BY IngestAllAssumption DEF Init, IngestInit, IngestTypeOK, Outcomes
  <2> QED
    BY <2>1 DEF Init, IngestInit, PassInv, BreakerHolds, OnlyRefusalsDefer
<1>2. /\ [s \in Symbols |-> 0] \in Stamps /\ 0 \in 0 .. LastDay /\ 1 \in 1 .. NSymbols + 1
  BY DailyFlowAssumption DEF Stamps
<1>3. tree \in Export
  BY <1>2 DEF Init, Export
<1>4. TypeOK
  BY <1>1, <1>2, <1>3 DEF Init, TypeOK, PassInv, Phases
<1>5. Lags /\ Behind(tree) /\ Sound(tree) /\ Later(site, tree) /\ Sound(site)
  BY DEF Init, Lags, Behind, Sound, Later, Le
<1>6. Progress
  BY DEF Init, Progress, Unwritten, Built
<1> QED
  BY <1>1, <1>4, <1>5, <1>6 DEF FlowInv

LEMMA NextFlowInv == FlowInv /\ [Next]_vars => FlowInv'
<1> SUFFICES ASSUME FlowInv, [Next]_vars PROVE FlowInv'
  OBVIOUS
<1>1. CASE NewDay
  BY <1>1, NewDayKeeps
<1>2. CASE StartJob
  BY <1>2, StartJobKeeps
<1>3. CASE Ingest
  BY <1>3, IngestKeeps
<1>4. CASE PassGates
  BY <1>4, PassGatesKeeps
<1>5. CASE AbortBeforeDbt \/ PushRejected \/ Crash
  BY <1>5, QuietFails DEF AbortBeforeDbt, PushRejected, Crash
<1>6. CASE RunDbt \/ RefreshLeaderboard
  BY <1>6, DbtKeeps
<1>7. CASE DbtFails
  BY <1>7, DbtFailsKeeps
<1>8. CASE \E s \in Symbols : BacktestSymbol(s) \/ BacktestFails(s)
  BY <1>8, BacktestKeeps
<1>9. CASE Prune
  BY <1>9, PruneKeeps
<1>10. CASE ExportJson
  BY <1>10, ExportKeeps
<1>11. CASE Freshness
  BY <1>11, FreshnessKeeps
<1>12. CASE CommitExports
  BY <1>12, CommitKeeps
<1>13. CASE UNCHANGED vars
  <2>1. UNCHANGED <<next, outcome, hasKey, budget, today, phase, symbol, inserted, bars, prices,
                    backtests, slip, combos, board, summary, warned, tree, site>>
    BY <1>13 DEF vars, flowVars, ingestVars, warehouse
  <2>2. TypeOK' /\ PassInv'
    BY <2>1 DEF FlowInv, TypeOK, PassInv, IngestTypeOK, BreakerHolds, OnlyRefusalsDefer
  <2>3. DataInv'
    BY <2>1, QuietKeepsData DEF FlowInv, DataInv
  <2>4. Progress'
    BY <2>1 DEF FlowInv, Progress, Outcome
  <2> QED
    BY <2>2, <2>3, <2>4 DEF FlowInv, DataInv
<1> QED
  BY <1>1, <1>2, <1>3, <1>4, <1>5, <1>6, <1>7, <1>8, <1>9, <1>10, <1>11, <1>12, <1>13 DEF Next

\* The order of the stamps and the progress of the job hold in every reachable state.
THEOREM FlowInvariance == Spec => []FlowInv
BY InitFlowInv, NextFlowInv, PTL DEF Spec

\* The marts are published beside exactly the backtests they aggregate, or with a warning.
THEOREM PublishedWhole == Spec => []PublishedIsWhole
<1>1. FlowInv => PublishedIsWhole
  BY DEF FlowInv, Sound, PublishedIsWhole
<1> QED
  BY <1>1, FlowInvariance, PTL

\* Only the commit changes the site, and only when every gate has let the job pass.
LEMMA SiteSteps ==
  ASSUME FlowInv, [Next]_vars, site' # site
  PROVE  CommitExports
<1>1. ~UNCHANGED vars
  BY DEF vars, flowVars
<1>2. ASSUME NEW s \in Symbols, BacktestSymbol(s) \/ BacktestFails(s) PROVE FALSE
  BY <1>2 DEF BacktestSymbol, BacktestFails, BacktestDone
<1>3. ~(RunDbt \/ RefreshLeaderboard \/ DbtFails)
  BY DEF RunDbt, RefreshLeaderboard, DbtFails, BuildPrices, BuildCombos, BuildAggregates, GoTo,
         Fail
<1>4. ~(NewDay \/ StartJob \/ Ingest \/ ExportJson)
  BY DEF NewDay, StartJob, Ingest, ExportJson
<1>5. ~(PassGates \/ AbortBeforeDbt \/ Prune \/ Freshness \/ PushRejected \/ Crash)
  BY DEF PassGates, AbortBeforeDbt, Prune, Freshness, PushRejected, Crash, Fail, GoTo
<1> QED
  BY <1>1, <1>2, <1>3, <1>4, <1>5 DEF Next

LEMMA CommitPublishes ==
  ASSUME FlowInv, CommitExports
  PROVE  /\ site' = tree /\ UNCHANGED <<today, inserted>>
         /\ Later(site, tree) /\ Sound(tree) /\ tree.day <= today
         /\ site.slip = {} /\ Outcome("auth") = {} /\ tree.day - inserted <= StaleAfter
BY DEF FlowInv, CommitExports, Progress, Built, Behind

\* No later snapshot shows older data than an earlier one.
THEOREM NeverRegresses == Spec => PublicationNeverRegresses
<1>1. FlowInv /\ [Next]_vars =>
        [/\ site'.day >= site.day
         /\ NotOlder(site'.prices, site.prices) /\ NotOlder(site'.backtests, site.backtests)
         /\ NotOlder(site'.combos, site.combos) /\ NotOlder(site'.board, site.board)]_site
  <2> SUFFICES ASSUME FlowInv, [Next]_vars, site' # site
               PROVE  /\ site'.day >= site.day
                      /\ NotOlder(site'.prices, site.prices)
                      /\ NotOlder(site'.backtests, site.backtests)
                      /\ NotOlder(site'.combos, site.combos)
                      /\ NotOlder(site'.board, site.board)
    OBVIOUS
  <2>1. site' = tree /\ Later(site, tree)
    BY SiteSteps, CommitPublishes
  <2>2. ASSUME NEW f \in Stamps, NEW g \in Stamps, Le(f, g) PROVE NotOlder(g, f)
    BY <2>2, DailyFlowAssumption DEF Le, NotOlder, Stamps
  <2>3. site.day \in Int /\ tree.day \in Int
    BY StampTypes DEF FlowInv
  <2>4. \A x \in {tree, site} :
           x.prices \in Stamps /\ x.backtests \in Stamps /\ x.combos \in Stamps /\ x.board \in Stamps
    BY StampTypes DEF FlowInv
  <2> QED
    BY <2>1, <2>2, <2>3, <2>4 DEF Later
<1> QED
  BY <1>1, FlowInvariance, PTL DEF Spec, PublicationNeverRegresses

\* A run that met a rejected credential publishes nothing.
THEOREM NothingAfterRejection == Spec => RejectionPublishesNothing
<1>1. FlowInv /\ [Next]_vars => [Outcome("auth") = {}]_site
  BY SiteSteps, CommitPublishes
<1> QED
  BY <1>1, FlowInvariance, PTL DEF Spec, RejectionPublishesNothing

\* A run that brings nothing in publishes at most StaleAfter days after the last candle.
THEOREM PublishedFresh == Spec => PublishedIsFresh
<1>1. FlowInv /\ [Next]_vars => [site'.day - inserted <= StaleAfter]_site
  BY SiteSteps, CommitPublishes
<1> QED
  BY <1>1, FlowInvariance, PTL DEF Spec, PublishedIsFresh

\* The breakers hold within the daily flow, which may end a pass before it is through.
THEOREM FlowKeepsBreakers == Spec => [](BreakerHolds /\ OnlyRefusalsDefer)
<1>1. FlowInv => BreakerHolds /\ OnlyRefusalsDefer
  BY DEF FlowInv, PassInv
<1> QED
  BY <1>1, FlowInvariance, PTL

\* A slip gets past the tests once, with a warning, and nothing is published over it.
THEOREM SlipsShowOnce == Spec => SlipShowsOnce
<1>1. FlowInv /\ [Next]_vars => [site.slip = {} /\ (site'.slip # {} => site'.warned)]_site
  <2> SUFFICES ASSUME FlowInv, [Next]_vars, site' # site
               PROVE  site.slip = {} /\ (site'.slip # {} => site'.warned)
    OBVIOUS
  <2> QED
    BY SiteSteps, CommitPublishes DEF Sound
<1> QED
  BY <1>1, FlowInvariance, PTL DEF Spec, SlipShowsOnce

-----------------------------------------------------------------------------
(* The refinement *)

LEMMA SoundIsFounded ==
  ASSUME NEW x, Sound(x)
  PROVE  Pub!Founded(x) /\ (Pub!Whole(x) \/ x.warned)
BY DEF Sound, Le, Symbols, Pub!Founded, Pub!AtMost, Pub!AsOf, Pub!Whole

LEMMA PublicationStep == FlowInv /\ [Next]_vars => [Pub!Next]_(Pub!promiseVars)
<1> SUFFICES ASSUME FlowInv, [Next]_vars PROVE [Pub!Next]_(Pub!promiseVars)
  OBVIOUS
<1>1. CASE site' # site
  <2>1. CommitExports
    BY <1>1, SiteSteps
  <2>2. Pub!NotOlder(site', site)
    BY <2>1, CommitPublishes DEF Later, Le, Symbols, Pub!NotOlder, Pub!AtMost
  <2>3. Pub!Founded(tree) /\ (Pub!Whole(tree) \/ tree.warned)
    BY <2>1, CommitPublishes, SoundIsFounded
  <2> QED
    BY <2>1, <2>2, <2>3, CommitPublishes DEF Pub!Next, Pub!Publish
<1>2. CASE site' = site
  <2>1. CASE NewDay
    BY <2>1 DEF NewDay, Pub!Next, Pub!NewDay
  <2>2. CASE Ingest
    BY <1>2, <2>2 DEF Ingest, Pub!Next, Pub!Arrive, Pub!promiseVars
  <2>3. ASSUME ~NewDay, ~Ingest PROVE UNCHANGED <<today, inserted>>
    <3>1. CASE UNCHANGED vars
      BY <3>1 DEF vars, flowVars
    <3>2. CASE StartJob \/ ExportJson \/ CommitExports
      BY <3>2 DEF StartJob, ExportJson, CommitExports
    <3>3. CASE PassGates \/ AbortBeforeDbt \/ Prune \/ Freshness \/ PushRejected \/ Crash
      BY <3>3 DEF PassGates, AbortBeforeDbt, Prune, Freshness, PushRejected, Crash, Fail, GoTo
    <3>4. CASE RunDbt \/ RefreshLeaderboard \/ DbtFails
      BY <3>4 DEF RunDbt, RefreshLeaderboard, DbtFails, BuildPrices, BuildCombos,
                  BuildAggregates, GoTo, Fail
    <3>5. CASE \E s \in Symbols : BacktestSymbol(s) \/ BacktestFails(s)
      BY <3>5 DEF BacktestSymbol, BacktestFails, BacktestDone
    <3> QED
      BY <2>3, <3>1, <3>2, <3>3, <3>4, <3>5 DEF Next
  <2> QED
    BY <1>2, <2>1, <2>2, <2>3 DEF Pub!promiseVars
<1> QED
  BY <1>1, <1>2

\* The flow, with every fault it may meet, keeps the promise made of the website.
THEOREM FlowImplementsPublication == Spec => ImplementsPublication
<1>1. Init => Pub!Init
  BY DEF Init, Pub!Init, Pub!AsOf, Symbols
<1> QED
  BY <1>1, PublicationStep, FlowInvariance, PTL DEF Spec, ImplementsPublication, Pub!Spec

-----------------------------------------------------------------------------
(* The gates *)

\* The steps that touch the outcomes of the pass, or come to a phase behind the gates.
LEMMA OutcomesStay ==
  ASSUME [Next]_vars, ~StartJob, ~Ingest, ~PassGates
  PROVE  UNCHANGED ingestVars /\ (phase' = phase \/ phase \notin {"off", "ingest"} \/ phase' = "off")
<1>1. CASE UNCHANGED vars
  BY <1>1 DEF vars, flowVars
<1>2. CASE NewDay \/ ExportJson \/ CommitExports
  BY <1>2 DEF NewDay, ExportJson, CommitExports
<1>3. CASE AbortBeforeDbt \/ Prune \/ Freshness \/ PushRejected \/ Crash
  BY <1>3 DEF AbortBeforeDbt, Prune, Freshness, PushRejected, Crash, Fail, GoTo
<1>4. CASE RunDbt \/ RefreshLeaderboard \/ DbtFails
  BY <1>4 DEF RunDbt, RefreshLeaderboard, DbtFails, BuildPrices, BuildCombos, BuildAggregates, GoTo, Fail
<1>5. CASE \E s \in Symbols : BacktestSymbol(s) \/ BacktestFails(s)
  BY <1>5 DEF BacktestSymbol, BacktestFails, BacktestDone
<1> QED
  BY <1>1, <1>2, <1>3, <1>4, <1>5 DEF Next

LEMMA GateStaysShut == Gated /\ [Next]_vars => Gated'
<1> SUFFICES ASSUME Gated, [Next]_vars PROVE Gated'
  OBVIOUS
<1>1. CASE StartJob \/ Ingest
  BY <1>1 DEF StartJob, Ingest, Gated
<1>2. CASE PassGates
  BY <1>2 DEF PassGates, ingestVars, Gated, PassDone, MayProceed, Outcome
<1>3. CASE ~StartJob /\ ~Ingest /\ ~PassGates
  BY <1>3, OutcomesStay DEF ingestVars, Gated, PassDone, MayProceed, Outcome
<1> QED
  BY <1>1, <1>2, <1>3

LEMMA GatesHold == Spec => []Gated
<1>1. Init => Gated
  BY DEF Init, Gated
<1> QED
  BY <1>1, GateStaysShut, PTL DEF Spec

\* What replaces the site comes from a run in which some call succeeded, or else some
\* source answered 429.  A broken source, a rejected credential or a missing key alone never
\* publish; the exception is what the run flow_nothing finds.
THEOREM PublishesNothingOnlyWhenRefused == Spec => OnlyRefusalsPublishNothing
<1>1. FlowInv /\ Gated /\ [Next]_vars => [Outcome("ok") # {} \/ Outcome("limited") # {}]_site
  <2> SUFFICES ASSUME FlowInv, Gated, [Next]_vars, site' # site, Outcome("ok") = {}
               PROVE  Outcome("limited") # {}
    OBVIOUS
  <2>1. MayProceed
    BY SiteSteps DEF CommitExports, Gated
  <2>2. ASSUME NEW p \in Pairs, outcome[p] = "deferred" PROVE Outcome("limited") # {}
    <3>1. PICK q \in 1 .. p - 1 : outcome[q] = "limited"
      BY <2>2 DEF FlowInv, PassInv, OnlyRefusalsDefer
    <3>2. q \in Pairs
      BY IngestAllAssumption DEF Pairs
    <3> QED
      BY <3>1, <3>2 DEF Outcome
  <2> QED
    BY <2>1, <2>2 DEF MayProceed, Outcome
<1> QED
  BY <1>1, FlowInvariance, GatesHold, PTL DEF Spec, OnlyRefusalsPublishNothing

-----------------------------------------------------------------------------
(* A job ends *)

LEMMA StepsLeftTyped ==
  ASSUME FlowInv
  PROVE  StepsLeft \in 0 .. 10 + NSymbols + NPairs
<1>1. /\ NSymbols \in Nat \ {0} /\ NPairs \in Nat \ {0} /\ next \in 1 .. NPairs + 1
      /\ symbol \in 1 .. NSymbols + 1 /\ phase \in Phases
  BY DailyFlowAssumption, IngestAllAssumption DEF FlowInv, TypeOK, IngestTypeOK
<1>2. CASE phase = "ingest"
  <2>1. StepsLeft = 11 + NSymbols + NPairs - next
    BY <1>2 DEF StepsLeft
  <2> QED
    BY <1>1, <2>1
<1>3. CASE phase = "backtest"
  <2>1. StepsLeft = 7 + NSymbols - symbol
    BY <1>3 DEF StepsLeft
  <2> QED
    BY <1>1, <2>1
<1>4. CASE phase \notin {"ingest", "backtest"}
  <2>1. StepsLeft \in {0, 1, 2, 3, 4, 5, 6, 7 + NSymbols, 8 + NSymbols, 9 + NSymbols}
    BY <1>1, <1>4 DEF StepsLeft, Phases
  <2> QED
    BY <1>1, <2>1
<1> QED
  BY <1>2, <1>3, <1>4

\* A pair is decided.
LEMMA PassMoves == ASSUME IngestPass PROVE next \in Pairs /\ next' = next + 1
BY DEF IngestPass, IngestPair, Skip, ShortCircuit, Defer, CallSucceeds, CallFails, CallLimited,
       CallRejected, Becomes

\* A job takes at most one step for each pair, each asset and each of its other phases, and
\* then it is over, whether it publishes or fails.
THEOREM JobsTakeBoundedlyMany ==
  Spec => [](StepsLeft \in 0 .. 10 + NSymbols + NPairs) /\ JobsRunOut
<1>1. FlowInv /\ [Next]_vars => [phase # "off" => StepsLeft' < StepsLeft \/ NewDay]_vars
  <2> SUFFICES ASSUME FlowInv, Next, phase # "off", ~NewDay
               PROVE  StepsLeft' < StepsLeft
    OBVIOUS
  <2>1. /\ NSymbols \in Nat \ {0} /\ NPairs \in Nat \ {0} /\ next \in 1 .. NPairs + 1
        /\ symbol \in 1 .. NSymbols + 1 /\ (phase = "backtest" => symbol \in 1 .. NSymbols)
        /\ phase \in Phases
        /\ phase \in {"ingest", "dbt_prices", "dbt_combos", "dbt_aggregates"} => symbol = 1
    BY DailyFlowAssumption, IngestAllAssumption DEF FlowInv, TypeOK, IngestTypeOK, Symbols, Progress
  <2>2. CASE Ingest
    BY <2>1, <2>2, PassMoves DEF Ingest, StepsLeft, Pairs
  <2>3. CASE phase' = "off"
    BY <2>1, <2>3 DEF StepsLeft, Phases
  <2>4. CASE PassGates
    BY <2>1, <2>4 DEF PassGates, GoTo, StepsLeft
  <2>5. CASE \E s \in Symbols : BacktestSymbol(s) \/ BacktestFails(s)
    <3>1. /\ phase = "backtest" /\ symbol' = symbol + 1
          /\ phase' = IF symbol = NSymbols THEN "refresh_combos" ELSE "backtest"
      BY <2>5 DEF BacktestSymbol, BacktestFails, BacktestDone
    <3> QED
      BY <2>1, <3>1 DEF StepsLeft
  <2>6. CASE RunDbt
    BY <2>1, <2>6 DEF RunDbt, BuildPrices, BuildCombos, BuildAggregates, GoTo, StepsLeft
  <2>7. CASE RefreshLeaderboard
    BY <2>7 DEF RefreshLeaderboard, BuildCombos, BuildAggregates, GoTo, StepsLeft
  <2>8. CASE DbtFails
    BY <2>1, <2>8 DEF DbtFails, Fail, GoTo, StepsLeft
  <2>9. CASE Prune \/ ExportJson \/ Freshness
    BY <2>9 DEF Prune, ExportJson, Freshness, Fail, GoTo, StepsLeft
  <2>10. CASE AbortBeforeDbt \/ CommitExports \/ PushRejected \/ Crash
    BY <2>3, <2>10 DEF AbortBeforeDbt, CommitExports, PushRejected, Crash, Fail, GoTo
  <2>11. ~StartJob
    BY DEF StartJob
  <2> QED
    BY <2>2, <2>4, <2>5, <2>6, <2>7, <2>8, <2>9, <2>10, <2>11 DEF Next
<1> QED
  BY <1>1, StepsLeftTyped, FlowInvariance, PTL DEF Spec, JobsRunOut
=============================================================================
