---------------------------- MODULE BacktestStore ----------------------------
(***************************************************************************)
(* gold.backtest_runs and its equity curves, as several flows write, prune *)
(* and export them at once: the scheduled flow and runs by hand share the  *)
(* warehouse, and only the workflow's own jobs exclude each other.         *)
(*                                                                         *)
(* A flow backtests its symbols' variants one by one, each in a            *)
(* transaction of its own whose start is executed_at; then prunes; then    *)
(* exports, first the latest run of each variant, in a later statement     *)
(* their curves.  Every statement sees what is committed when it starts.   *)
(* A variant stands for a (symbol, strategy) pair, and may have no run at  *)
(* all: before the first flow, or when its asset has only been added or    *)
(* has failed whenever it was tried.  What the export does with the files  *)
(* is ExportFiles' subject.                                                *)
(***************************************************************************)
EXTENDS Integers, FiniteSets

CONSTANTS
  Flows,        \* flows that may run at the same time
  NVariants,    \* variants, numbered in the order the backtest loop takes them
  SymbolOf,     \* SymbolOf[v]: the asset of variant v
  Singles,      \* the single strategies, which keep a curve
  Configs,      \* the sets of assets config.yaml may hold when a flow starts
  Keep,         \* retention.DEFAULT_KEEP
  Pasts,        \* the contents the first flow may find in gold.backtest_runs
  Faults,       \* a subset of {"backtest", "crash"}
  MaxJobs       \* bound: jobs started by all flows together

Variants == 1 .. NVariants
Symbols == {SymbolOf[v] : v \in Variants}
VariantsOf(s) == {v \in Variants : SymbolOf[v] = s}

\* Keep days on which every variant was backtested.
Earlier == {[variant |-> v, at |-> g * NVariants + v] : v \in Variants, g \in 0 .. Keep - 1}

ASSUME BacktestStoreAssumption ==
  /\ NVariants \in Nat /\ Singles \subseteq 1 .. NVariants
  /\ SymbolOf \in [1 .. NVariants -> Nat]
  /\ Configs \subseteq SUBSET {SymbolOf[v] : v \in 1 .. NVariants}
  /\ IsFiniteSet(Flows)
  /\ Keep \in Nat \ {0}      \* prune_backtest_history refuses less
  /\ Pasts \subseteq SUBSET Earlier
  /\ MaxJobs \in Nat /\ Faults \subseteq {"backtest", "crash"}

VARIABLES
  clock,        \* the clock executed_at and generated_at are read from
  store,        \* gold.backtest_runs, as committed
  curves,       \* executed_at of the runs that have rows in backtest_equity_curves
  flow,         \* flow[f]: where f is and what it holds
  jobs,         \* jobs started so far
  died          \* history: flows that died before they pruned, since the last prune

vars == <<clock, store, curves, flow, jobs, died>>

Runs == [variant: Variants, at: Nat]
Phases == {"off", "backtest", "write", "prune", "export", "curves", "files", "index"}
NoFlow == [pc |-> "off", cfg |-> {}, todo |-> {}, wrote |-> {}, since |-> 0, before |-> {},
           at |-> 0, latest |-> {}]

TypeOK ==
  /\ clock \in Nat /\ jobs \in 0 .. MaxJobs /\ died \in Nat
  /\ store \subseteq Runs /\ curves \subseteq Nat
  /\ flow \in [Flows ->
       [pc: Phases, cfg: SUBSET Symbols,
        todo: SUBSET Variants,    \* variants the loops have not come to
        wrote: SUBSET Variants,   \* history: variants this job has backtested
        since: Nat,               \* history: the clock when the job started
        before: SUBSET Runs,      \* history: what it would have exported then
        at: Nat,                  \* executed_at, then generated_at
        latest: SUBSET Runs]]

-----------------------------------------------------------------------------

RunsOf(v) == {r \in store : r.variant = v}

\* row_number() OVER (PARTITION BY symbol, strategy ORDER BY executed_at DESC).
Recency(r) == Cardinality({q \in RunsOf(r.variant) : q.at >= r.at})

\* DISTINCT ON (symbol, strategy) ... ORDER BY executed_at DESC.
LatestRuns == {r \in store : Recency(r) = 1}

\* Of those, the ones of assets config.yaml lists.
LatestOf(cfg) == {r \in LatestRuns : SymbolOf[r.variant] \in cfg}

\* Mutants: the ranking ascends; one generation less is kept; one more.
Superseded_Newest ==
  {r \in store : Cardinality({q \in RunsOf(r.variant) : q.at <= r.at}) > Keep}
Superseded_OneLess == {r \in store : Recency(r) >= Keep}
Superseded_OneMore == {r \in store : Recency(r) > Keep + 1}

Superseded == {r \in store : Recency(r) > Keep}

\* What earlier days left: up to Keep generations of a variant, or none at all.
Init ==
  /\ clock = Keep * NVariants /\ jobs = 0 /\ died = 0
  /\ store \in Pasts
  /\ curves = {r.at : r \in {q \in store : q.variant \in Singles}}
  /\ flow = [f \in Flows |-> NoFlow]

At(f, phase) == flow[f].pc = phase

\* The assets and strategies are read from config.yaml at the start.
StartJob(f) ==
  /\ At(f, "off") /\ jobs < MaxJobs
  /\ jobs' = jobs + 1
  /\ \E cfg \in Configs :
       flow' = [flow EXCEPT ![f] =
         [NoFlow EXCEPT !.pc = "backtest", !.cfg = cfg, !.since = clock,
                        !.before = LatestOf(cfg),
                        !.todo = UNION {VariantsOf(s) : s \in cfg}]]
  /\ UNCHANGED <<clock, store, curves, died>>

\* The loops' variant.
Turn(f, v) == v \in flow[f].todo /\ \A u \in flow[f].todo : v <= u

\* The first INSERT of write_backtest_result opens the transaction.
BeginWrite(f) ==
  /\ At(f, "backtest") /\ flow[f].todo # {}
  /\ clock' = clock + 1
  /\ flow' = [flow EXCEPT ![f].pc = "write", ![f].at = clock + 1]
  /\ UNCHANGED <<store, curves, jobs, died>>

Written(f, v) ==
  flow' = [flow EXCEPT ![f].pc = "backtest", ![f].todo = @ \ {v}, ![f].wrote = @ \cup {v},
                       ![f].at = 0]

\* Mutants: the run is committed before its curve is written; it is not committed.
CommitWrite_RunOnly(f, v) ==
  /\ At(f, "write") /\ Turn(f, v)
  /\ store' = store \cup {[variant |-> v, at |-> flow[f].at]}
  /\ Written(f, v)
  /\ UNCHANGED <<clock, curves, jobs, died>>

CommitWrite_Lost(f, v) ==
  /\ At(f, "write") /\ Turn(f, v)
  /\ Written(f, v)
  /\ UNCHANGED <<clock, store, curves, jobs, died>>

\* The run and, for a single strategy, its curve become visible together.
Committed(f, v) ==
  /\ store' = store \cup {[variant |-> v, at |-> flow[f].at]}
  /\ curves' = IF v \in Singles THEN curves \cup {flow[f].at} ELSE curves

CommitWrite(f, v) ==
  /\ At(f, "write") /\ Turn(f, v)
  /\ Committed(f, v) /\ Written(f, v)
  /\ UNCHANGED <<clock, jobs, died>>

\* The symbol raises, or has no gold rows: its remaining variants keep the runs they had,
\* if any, those already written stay, the flow goes on with the next symbol.
BacktestFails(f, v) ==
  /\ flow[f].pc \in {"backtest", "write"} /\ Turn(f, v) /\ "backtest" \in Faults
  /\ flow' = [flow EXCEPT ![f].pc = "backtest", ![f].at = 0,
                          ![f].todo = @ \ VariantsOf(SymbolOf[v])]
  /\ UNCHANGED <<clock, store, curves, jobs, died>>

\* The run is committed, but the answer is lost with the connection: the symbol raises.
CommitUnacknowledged(f, v) ==
  /\ At(f, "write") /\ Turn(f, v) /\ "backtest" \in Faults
  /\ Committed(f, v)
  /\ flow' = [flow EXCEPT ![f].pc = "backtest", ![f].todo = @ \ VariantsOf(SymbolOf[v]),
                          ![f].wrote = @ \cup {v}, ![f].at = 0]
  /\ UNCHANGED <<clock, jobs, died>>

BacktestsDone(f) ==
  /\ At(f, "backtest") /\ flow[f].todo = {}
  /\ flow' = [flow EXCEPT ![f].pc = "prune"]
  /\ UNCHANGED <<clock, store, curves, jobs, died>>

\* prune_backtest_history; the curves go with their runs, ON DELETE CASCADE.  What it ranks
\* is what is committed when it starts: a superseded run stays superseded while it waits for
\* the rows that another flow is deleting, and a row that is gone by then is passed over, so
\* the wait itself is left out.  The export that follows reads generated_at first.
Prune(f) ==
  /\ At(f, "prune")
  /\ store' = store \ Superseded
  /\ curves' = curves \ {r.at : r \in Superseded}
  /\ clock' = clock + 1
  /\ flow' = [flow EXCEPT ![f].pc = "export", ![f].at = clock + 1]
  /\ died' = 0
  /\ UNCHANGED jobs

\* Mutant: assets dropped from config.yaml are exported as well.
ReadRuns_Unfiltered(f) ==
  /\ At(f, "export")
  /\ flow' = [flow EXCEPT ![f].pc = "curves", ![f].latest = LatestRuns]
  /\ UNCHANGED <<clock, store, curves, jobs, died>>

\* Of what is stored, what config.yaml still lists.
ReadRuns(f) ==
  /\ At(f, "export")
  /\ flow' = [flow EXCEPT ![f].pc = "curves", ![f].latest = LatestOf(flow[f].cfg)]
  /\ UNCHANGED <<clock, store, curves, jobs, died>>

\* The curves of the runs read before are looked up.
ReadCurves(f) ==
  /\ At(f, "curves")
  /\ flow' = [flow EXCEPT ![f].pc = "files"]
  /\ UNCHANGED <<clock, store, curves, jobs, died>>

\* The files but the index are in place; then the index is.
Filed(f) ==
  /\ At(f, "files")
  /\ flow' = [flow EXCEPT ![f].pc = "index"]
  /\ UNCHANGED <<clock, store, curves, jobs, died>>

Exported(f) ==
  /\ At(f, "index")
  /\ flow' = [flow EXCEPT ![f] = NoFlow]
  /\ UNCHANGED <<clock, store, curves, jobs, died>>

\* A flow has written a run of v and not pruned yet.
Unpruned(f, v) == flow[f].pc \in {"backtest", "write", "prune"} /\ v \in flow[f].wrote

Crash(f) ==
  /\ ~At(f, "off") /\ "crash" \in Faults
  /\ flow' = [flow EXCEPT ![f] = NoFlow]
  /\ died' = IF \E v \in Variants : Unpruned(f, v) THEN died + 1 ELSE died
  /\ UNCHANGED <<clock, store, curves, jobs>>

\* Everything a flow does before it touches its files.
Work(f) ==
  \/ StartJob(f) \/ BeginWrite(f) \/ BacktestsDone(f)
  \/ \E v \in Variants : CommitWrite(f, v) \/ CommitUnacknowledged(f, v) \/ BacktestFails(f, v)
  \/ Prune(f) \/ ReadRuns(f) \/ ReadCurves(f)

Next == \E f \in Flows : Work(f) \/ Filed(f) \/ Exported(f) \/ Crash(f)

Spec == Init /\ [][Next]_vars

-----------------------------------------------------------------------------
(* Properties *)

\* Pruning never takes a variant's newest run, and nothing replaces it by an older
\* one, although commits come in another order than executed_at.
NewestIsKept ==
  [][\A r \in LatestRuns : \E q \in LatestRuns' : q.variant = r.variant /\ q.at >= r.at]_store

\* Between an export's two statements another flow may write and prune: the export
\* finds the curve of every single strategy it lists unless Keep newer runs of it were
\* committed in between.
ExportKeepsCurves ==
  \A f \in Flows : \A r \in flow[f].latest :
    r.variant \in Singles /\ r.at \notin curves =>
      Cardinality({q \in RunsOf(r.variant) : q.at > r.at}) >= Keep

\* "Left unbounded that fills a 500 MB database in days": a variant has at most Keep runs,
\* one more for each flow that has yet to prune what it has written, and one for each that
\* died before it did; whoever prunes next takes those back.
StoreIsBounded ==
  \A v \in Variants :
    Cardinality(RunsOf(v)) <= Keep + Cardinality({f \in Flows : Unpruned(f, v)}) + died

\* runs hold, of what f's job has backtested, that run or a newer one, and of what it would
\* have exported when it began one at least as new.
UpToDate(f, runs) ==
  /\ \A v \in flow[f].wrote : \E r \in runs : r.variant = v /\ r.at > flow[f].since
  /\ \A q \in flow[f].before : \E r \in runs : r.variant = q.variant /\ r.at >= q.at

\* What a job has backtested it exports, and what was there to show when it began is still
\* shown, neither with an older run: an asset that was ever backtested never falls back to
\* pending, and only a symbol whose own backtest failed is a mixture of generations,
\* whoever writes and prunes meanwhile.
ExportIsThisRuns ==
  \A f \in Flows : flow[f].pc \in {"curves", "files", "index"} => UpToDate(f, flow[f].latest)

\* No curve outlives its run and no run of a single strategy lacks one.
CurvesMatchRuns == curves = {r.at : r \in {q \in store : q.variant \in Singles}}
=============================================================================
