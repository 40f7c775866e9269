-------------------------------- MODULE Marts --------------------------------
(***************************************************************************)
(* The analytics marts in SQL's three-valued logic: mart_combination_      *)
(* analysis over the latest run of every variant, the two marts that count *)
(* it, and the entry export.py publishes for a variant, from the mart or,  *)
(* while there is none, from the run itself.                               *)
(*                                                                         *)
(* How the relations get out of step in time is DailyFlow's subject; here  *)
(* every relation is a function of the runs.  A window's columns are       *)
(* [ret, hold, trades, held]: strategy and buy-and-hold return, completed  *)
(* round trips, and whether the exposure is above zero.                    *)
(***************************************************************************)
EXTENDS Integers, FiniteSets

CONSTANTS
  Variants,     \* (symbol, strategy) pairs of catalogued symbols, numbered by size and name
  SymbolOf,     \* SymbolOf[v]: the asset of variant v
  SizeOf,       \* SizeOf[v]: n_components
  ClassOf,      \* ClassOf[v]: asset class and region of v's symbol
  Measures,     \* what the engine may measure over a window of enough bars
  Top,          \* _INDEX_TOP_COMBINATIONS
  Null          \* SQL's NULL

\* _simulate: a run that never bought returns exactly 0, and one that completed a
\* round trip was in the market.
EngineCan(m) ==
  /\ m.ret \in Int /\ m.hold \in Int /\ m.trades \in Nat /\ m.held \in BOOLEAN
  /\ m.trades > 0 => m.held
  /\ ~m.held => m.ret = 0

ASSUME MartsAssumption ==
  /\ Variants \subseteq Nat /\ IsFiniteSet(Variants) /\ Top \in Nat
  /\ SizeOf \in [Variants -> 1 .. 5]
  /\ \A m \in Measures : EngineCan(m)
  /\ Null \notin Int /\ Null \notin BOOLEAN

VARIABLES
  latest,       \* latest[v]: the newest row of gold.backtest_runs for v, or Null
  martExists    \* has dbt built the marts since the migration that defines them?

vars == <<latest, martExists>>

\* _window_columns of a window with fewer than MIN_WINDOW_BARS bars.
NotMeasured == [ret |-> Null, hold |-> Null, trades |-> Null, held |-> FALSE]

Window == Measures \cup {NotMeasured}
Row == [full: Measures, is: Window, oos: Window]

TypeOK ==
  /\ latest \in [Variants -> Row \cup {Null}]
  /\ martExists \in BOOLEAN

-----------------------------------------------------------------------------
(* Three-valued logic *)

And3(a, b) ==
  IF a = FALSE \/ b = FALSE THEN FALSE
  ELSE IF a = Null \/ b = Null THEN Null ELSE TRUE

Greater3(x, y) == IF x = Null \/ y = Null THEN Null ELSE x > y
Minus3(x, y) == IF x = Null \/ y = Null THEN Null ELSE x - y
Coalesce(x, default) == IF x = Null THEN default ELSE x

-----------------------------------------------------------------------------
(* mart_combination_analysis *)

Ran == {v \in Variants : latest[v] # Null}

Excess(w) == Minus3(w.ret, w.hold)
Beats(w) == And3(Greater3(w.ret, w.hold), Greater3(Coalesce(w.trades, 0), 0))

Mart == [v \in Ran |->
  LET r == latest[v]
  IN [excess |-> Excess(r.full), is_excess |-> Excess(r.is), oos_excess |-> Excess(r.oos),
      drop |-> Minus3(Excess(r.is), Excess(r.oos)),
      beat_bh_full |-> Beats(r.full), beat_bh_is |-> Beats(r.is), beat_bh_oos |-> Beats(r.oos)]]

-----------------------------------------------------------------------------
(* The counts of mart_overfitting_summary, those of the leaderboard among them, *)
(* over one group S of the mart's rows.  FILTER keeps what is TRUE, not NULL.   *)

Won(S, column) == {v \in S : Mart[v][column] = TRUE}
Evaluated(S, column) == {v \in S : Mart[v][column] # Null}

Winners(S) == Won(S, "beat_bh_is")
\* Mutant: every in-sample winner is in the denominator.
ScoredWinners_All(S) == Winners(S)
ScoredWinners(S) == {v \in Winners(S) : Mart[v].oos_excess # Null}
\* Mutant: a survivor need not have won in sample.
Survivors_AllOos(S) == Won(S, "beat_bh_oos")
Survivors(S) == {v \in Winners(S) : Mart[v].beat_bh_oos = TRUE}

Counts(S) ==
  [n_variants |-> Cardinality(S),
   n_evaluated_full |-> Cardinality(Evaluated(S, "excess")),
   n_evaluated_is |-> Cardinality(Evaluated(S, "is_excess")),
   n_evaluated_oos |-> Cardinality(Evaluated(S, "oos_excess")),
   n_evaluated_both |-> Cardinality(Evaluated(S, "drop")),
   n_beat_full |-> Cardinality(Won(S, "beat_bh_full")),
   n_beat_is |-> Cardinality(Winners(S)),
   n_beat_is_scored_oos |-> Cardinality(ScoredWinners(S)),
   n_beat_oos |-> Cardinality(Won(S, "beat_bh_oos")),
   n_beat_is_and_oos |-> Cardinality(Survivors(S))]

\* GROUPING SETS ((n_components), ()): the rows of one size, and all of them.
BySize(n) == {v \in Ran : SizeOf[v] = n}
Overall == Ran

\* The leaderboard's groups, of one strategy; here one strategy per size.
ByClass(n, c) == {v \in BySize(n) : ClassOf[v] = c}

Groups ==
  {Overall} \cup {BySize(n) : n \in 1 .. 5}
  \cup {ByClass(n, c) : n \in 1 .. 5, c \in {ClassOf[v] : v \in Variants}}

\* numerator / nullif(denominator, 0), as a pair.
Rate(numerator, denominator) == IF denominator = 0 THEN Null ELSE <<numerator, denominator>>

Rates(S) ==
  LET c == Counts(S)
  IN [share_beat_full |-> Rate(c.n_beat_full, c.n_evaluated_full),
      share_beat_is |-> Rate(c.n_beat_is, c.n_evaluated_is),
      share_beat_oos |-> Rate(c.n_beat_oos, c.n_evaluated_oos),
      share_beat_is_and_oos |-> Rate(c.n_beat_is_and_oos, c.n_evaluated_both),
      oos_survival_rate |-> Rate(c.n_beat_is_and_oos, c.n_beat_is_scored_oos)]

-----------------------------------------------------------------------------
(* _combination_entry *)

\* Mutant: the sign of the return.
Derived_Return(w) == Greater3(w.ret, 0)

\* The raw row carries no beat_bh_* column: the sign of the excess stands in for it.
Derived(w) == Greater3(Excess(w), 0)

Entry(v) ==
  IF martExists
  THEN [beat_bh_full |-> Mart[v].beat_bh_full, beat_bh_oos |-> Mart[v].beat_bh_oos]
  ELSE [beat_bh_full |-> Derived(latest[v].full), beat_bh_oos |-> Derived(latest[v].oos)]

-----------------------------------------------------------------------------
(* The combinations of an asset in index.json, once it is over its byte budget *)

EntriesOf(s) == {v \in Ran : SymbolOf[v] = s}

OosExcess(v) == IF martExists THEN Mart[v].oos_excess ELSE Excess(latest[v].oos)

\* Mutant: no excess ranks as an excess of 0.
Outranks_NullIsZero(u, v) ==
  LET x == Coalesce(OosExcess(u), 0)
      y == Coalesce(OosExcess(v), 0)
  IN x > y \/ (x = y /\ u < v)

\* The order of sorted(..., key=_rank): best excess first, variants without one last, and
\* equal ones as they were.
Outranks(u, v) ==
  LET x == OosExcess(u)
      y == OosExcess(v)
  IN \/ x # Null /\ y = Null
     \/ x # Null /\ y # Null /\ x > y
     \/ x = y /\ u < v

Kept(s) ==
  {v \in EntriesOf(s) : Cardinality({u \in EntriesOf(s) : Outranks(u, v)}) < Top}

-----------------------------------------------------------------------------

Init ==
  /\ latest = [v \in Variants |-> Null]
  /\ martExists = FALSE

\* Mutant: the trades of a window that was not measured are written as 0.
Backtest_ZeroTrades(v, row) ==
  /\ latest' = [latest EXCEPT ![v] =
       IF row.oos = NotMeasured THEN [row EXCEPT !.oos.trades = 0] ELSE row]
  /\ UNCHANGED martExists

\* write_backtest_result appends a run that is from now on the latest of its variant.
Backtest(v, row) ==
  /\ latest' = [latest EXCEPT ![v] = row]
  /\ UNCHANGED martExists

BuildMarts ==
  /\ ~martExists /\ martExists' = TRUE
  /\ UNCHANGED latest

Next ==
  \/ \E v \in Variants, row \in Row : Backtest(v, row)
  \/ BuildMarts

Spec == Init /\ [][Next]_vars

-----------------------------------------------------------------------------
(* Properties *)

\* Every numerator counts a part of what its denominator counts, in every group: no
\* published share leaves [0, 1], although numerator and denominator are filtered by
\* different columns and NULL decides both.
RatesAreShares ==
  \A S \in Groups :
    LET c == Counts(S)
    IN /\ c.n_beat_is_and_oos <= c.n_beat_is_scored_oos
       /\ c.n_beat_is_scored_oos <= c.n_beat_is
       /\ c.n_beat_is <= c.n_evaluated_is
       /\ c.n_beat_oos <= c.n_evaluated_oos
       /\ c.n_beat_full <= c.n_evaluated_full
       /\ c.n_beat_is_and_oos <= c.n_evaluated_both

\* Missing evidence is not a death: taking the variants whose out-of-sample window was
\* not scored out of a group leaves its out-of-sample rates as they are.
UnscoredIsNotADeath ==
  \A S \in Groups :
    LET scored == Rates(Evaluated(S, "oos_excess"))
    IN /\ scored.oos_survival_rate = Rates(S).oos_survival_rate
       /\ scored.share_beat_oos = Rates(S).share_beat_oos
       /\ scored.share_beat_is_and_oos = Rates(S).share_beat_is_and_oos

\* Whether its window saw a completed round trip.
Traded(w) == Coalesce(w.trades, 0) > 0

\* "Anything the mart pre-computes is derived here when absent": the first build of the
\* marts changes no published verdict on a window that was traded in, although SQL and
\* export.py compute it differently.  On the others the two do differ.
SwitchKeepsVerdicts ==
  [][\A v \in Ran :
       /\ Traded(latest[v].full) => Entry(v).beat_bh_full' = Entry(v).beat_bh_full
       /\ Traded(latest[v].oos) => Entry(v).beat_bh_oos' = Entry(v).beat_bh_oos]_martExists

\* "The only honest way to say top": what the index is cut down to are Top combinations, or
\* all there are, of which none is beaten out of sample by one that is left out; one that
\* was never scored out of sample stands in for none that was.
IndexKeepsTheBest ==
  \A s \in {SymbolOf[v] : v \in Ran} :
    /\ Cardinality(Kept(s)) = IF Cardinality(EntriesOf(s)) < Top THEN Cardinality(EntriesOf(s)) ELSE Top
    /\ \A u \in Kept(s) : \A v \in EntriesOf(s) \ Kept(s) :
         OosExcess(v) # Null => OosExcess(u) # Null /\ OosExcess(u) >= OosExcess(v)

-----------------------------------------------------------------------------
(* What the repository says and the code does not keep *)

\* "NULL deliberately propagates into ... beat_bh_is / beat_bh_oos: never measured out
\* of sample must not be readable as failed out of sample."
NeverMeasuredIsNotFailed ==
  \A v \in Ran :
    /\ latest[v].is = NotMeasured => Mart[v].beat_bh_is = Null
    /\ latest[v].oos = NotMeasured => Mart[v].beat_bh_oos = Null
=============================================================================
