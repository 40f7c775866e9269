-------------------------------- MODULE Engine --------------------------------
(***************************************************************************)
(* pipeline/backtest: every variant of one asset's frame, each scored over *)
(* the full period and over a train/validation split.                      *)
(*                                                                         *)
(* Prices and equity are left out: what is kept of _simulate is when it is *)
(* in the market and which round trips it counts, the part that metrics,   *)
(* marts and exports count and compare.  Bars are numbered as in the whole *)
(* frame, in windows too.  Signals are computed once per component, so     *)
(* they are chosen once: any series here, those of the strategies in       *)
(* Backtest.                                                               *)
(***************************************************************************)
EXTENDS Integers, FiniteSets

CONSTANTS
  N,              \* bars of the frame
  Components,     \* the strategies there are
  WarmupBars,     \* WarmupBars[c]: c's warmup_bars
  TrainBars,      \* TrainBars[e]: round(e * train_fraction)
  MinWindowBars   \* MIN_WINDOW_BARS

Bars == 0 .. N - 1

ASSUME EngineAssumption ==
  /\ N \in Nat \ {0}                  \* _prepare refuses an empty frame
  /\ WarmupBars \in [Components -> Int]
  \* Components are few enough for each combination to have a longest warm-up.
  /\ \A v \in (SUBSET Components) \ {{}} :
       \E c \in v : \A d \in v : WarmupBars[d] <= WarmupBars[c]
  /\ TrainBars \in [0 .. N -> Int]
  /\ MinWindowBars \in Nat \ {0}

VARIABLES
  green,          \* green[c]: the bars c's signal is 1 on
  usable,         \* those configured, and not skipped for want of volume
  sim,            \* the _simulate call under way, or Idle
  results         \* the outcomes of the calls made so far, at most three for a variant

vars == <<green, usable, sim, results>>

Windows == {"full", "is", "oos"}
Variants == (SUBSET usable) \ {{}}

Idle == [variant |-> {}, window |-> "full", start |-> 0, stop |-> 0, t |-> 0,
         long |-> FALSE, entry |-> 0, held |-> {}, trades |-> {}]

Sim == [variant: SUBSET Components, window: Windows, start: 0 .. N, stop: 0 .. N, t: 0 .. N,
        long: BOOLEAN,         \* units > 0
        entry: 0 .. N,         \* the bar of entry_ts
        held: SUBSET Bars,     \* the bars positions is 1 on
        trades: SUBSET (Bars \X Bars)]   \* <<entry_ts, exit_ts>>

\* A window too short to be scored has no metrics: measured is FALSE.
Result == [variant: SUBSET Components, window: Windows, start: 0 .. N, stop: 0 .. N,
           measured: BOOLEAN, held: SUBSET Bars, trades: SUBSET (Bars \X Bars)]

TypeOK ==
  /\ green \in [Components -> SUBSET Bars]
  /\ usable \subseteq Components
  /\ sim \in Sim /\ results \subseteq Result

-----------------------------------------------------------------------------
(* Variants and windows *)

\* Mutant: the combination is an OR.
IsGreen_Any(v, a) == \E c \in v : a \in green[c]

\* A combination is green while every component is.
IsGreen(v, a) == \A c \in v : a \in green[c]

Clamp(x, bound) == IF x < 0 THEN 0 ELSE IF x > bound THEN bound ELSE x

\* Mutant: a combination is warm once some component is.
Warmup_Shortest(v) ==
  Clamp(WarmupBars[CHOOSE c \in v : \A d \in v : WarmupBars[d] >= WarmupBars[c]], N)

\* A combination is warm once every component is.
Warmup(v) == Clamp(WarmupBars[CHOOSE c \in v : \A d \in v : WarmupBars[d] <= WarmupBars[c]], N)

Split(v) == Warmup(v) + Clamp(TrainBars[N - Warmup(v)], N - Warmup(v))

\* Mutant: the in-sample window begins at the warm-up, however short the history.
Start_Unclamped(v, window) ==
  CASE window = "full" -> 0
    [] window = "is"   -> WarmupBars[CHOOSE c \in v : \A d \in v : WarmupBars[d] <= WarmupBars[c]]
    [] window = "oos"  -> Split(v)

Start(v, window) ==
  CASE window = "full" -> 0
    [] window = "is"   -> Warmup(v)
    [] window = "oos"  -> Split(v)

Stop(v, window) == IF window = "is" THEN Split(v) ELSE N

\* The full period is always simulated, a window only if it is long enough.
LongEnough(v, window) == window = "full" \/ Stop(v, window) - Start(v, window) >= MinWindowBars

Done(v, window) == \E r \in results : r.variant = v /\ r.window = window

\* Mutant: the out-of-sample window goes on where the in-sample one ended.
Call_Inherits(v, window) ==
  [Idle EXCEPT !.variant = v, !.window = window, !.start = Start(v, window),
               !.stop = Stop(v, window), !.t = Start(v, window), !.entry = Start(v, window),
               !.long = window = "oos" /\ Start(v, window) - 1 \in Bars
                          /\ IsGreen(v, Start(v, window) - 1)]

\* Every call starts flat.
Call(v, window) ==
  [Idle EXCEPT !.variant = v, !.window = window, !.start = Start(v, window),
               !.stop = Stop(v, window), !.t = Start(v, window)]

-----------------------------------------------------------------------------

Init ==
  /\ green \in [Components -> SUBSET Bars]
  /\ usable \in SUBSET Components
  /\ sim = Idle /\ results = {}

\* run_backtest_windows has come to this window of v: the full period first, then the
\* two windows, and a variant after all that have fewer components.
Turn(v, window) ==
  /\ sim = Idle /\ ~Done(v, window)
  /\ window # "full" => Done(v, "full")
  /\ window = "oos" => Done(v, "is")
  /\ \A u \in Variants \ {v} :
       Done(u, "full") \/ Cardinality(u) < Cardinality(v) => Done(u, "oos")

Begin(v, window) ==
  /\ Turn(v, window) /\ LongEnough(v, window)
  /\ sim' = Call(v, window)
  /\ UNCHANGED <<green, usable, results>>

\* _window_metrics returns None.
TooShort(v, window) ==
  /\ Turn(v, window) /\ ~LongEnough(v, window)
  /\ results' = results \cup
       {[variant |-> v, window |-> window, start |-> Start(v, window),
         stop |-> Stop(v, window), measured |-> FALSE, held |-> {}, trades |-> {}]}
  /\ UNCHANGED <<green, usable, sim>>

\* Mutant: a signal acts on its own bar.
Target_SameBar(s) == IsGreen(s.variant, s.t)

\* The target of bar t is the signal of the bar before it; the first bar has none.
Target(s) == s.t > s.start /\ IsGreen(s.variant, s.t - 1)

\* One turn of _simulate's loop: buy, sell or stay at the open of bar t.
Bar ==
  LET in  == Target(sim)
      out == sim.long /\ ~in
  IN /\ sim.t < sim.stop
     /\ sim' = [sim EXCEPT
          !.t = sim.t + 1,
          !.long = in,
          !.entry = IF in /\ ~sim.long THEN sim.t ELSE sim.entry,
          !.held = IF in THEN sim.held \cup {sim.t} ELSE sim.held,
          !.trades = IF out THEN sim.trades \cup {<<sim.entry, sim.t>>} ELSE sim.trades]
     /\ UNCHANGED <<green, usable, results>>

\* The loop is over: exposure and n_trades are read off.  A position that is still open
\* is no round trip.
Finish ==
  /\ sim # Idle /\ sim.t = sim.stop
  /\ results' = results \cup
       {[variant |-> sim.variant, window |-> sim.window, start |-> sim.start,
         stop |-> sim.stop, measured |-> TRUE, held |-> sim.held, trades |-> sim.trades]}
  /\ sim' = Idle
  /\ UNCHANGED <<green, usable>>

Next ==
  \/ \E v \in Variants, window \in Windows : Begin(v, window) \/ TooShort(v, window)
  \/ Bar \/ Finish

Spec == Init /\ [][Next]_vars

-----------------------------------------------------------------------------
(* Properties *)

\* "A signal can never act on information from its own execution bar", a signal on the
\* final bar never executes and every window starts flat: the bars a run is in the market
\* are the bars behind a green one of the same window, whatever ran before.
HeldIsSignalled ==
  \A r \in results :
    r.measured => r.held = {a \in r.start + 1 .. r.stop - 1 : IsGreen(r.variant, a - 1)}

\* A stay of the run r from bar b up to, not including, bar e.
IsStay(r, b, e) ==
  /\ b < e /\ b .. e - 1 \subseteq r.held
  /\ b - 1 \notin r.held /\ e \notin r.held

\* n_trades counts the completed stays, each once: what was entered and left inside the
\* window, not what is still open at its end.
RoundTripsAreStays ==
  \A r \in results :
    r.trades = {w \in Bars \X Bars : w[2] < r.stop /\ IsStay(r, w[1], w[2])}

\* "Each extra component can only remove exposure, never add it": over the full period a
\* combination is in the market only when each of its parts is.
CombinationsOnlyFilter ==
  \A r, q \in results :
    r.window = "full" /\ q.window = "full" /\ q.variant \subseteq r.variant
      => r.held \subseteq q.held
=============================================================================
