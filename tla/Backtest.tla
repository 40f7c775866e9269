------------------------------- MODULE Backtest -------------------------------
(***************************************************************************)
(* flows.backtest_symbol for one asset: its frame is validated, the signals *)
(* of the strategies that apply to it are computed once, and Engine scores  *)
(* every combination of them.                                               *)
(***************************************************************************)
EXTENDS Engine, Strategies

CONSTANT
  Inputs          \* what an asset may bring: its frame, its class, the configured strategies

Candle == [open: Int, high: Int, low: Int, close: Int, volume: Int \cup {NaN}]

\* configured: cfg.backtest.strategies; hasVolume: asset.has_volume.
IsInput(i) ==
  /\ i.configured \subseteq Registry /\ i.hasVolume \in BOOLEAN
  /\ i.frame \in [Bars -> Candle]

ASSUME BacktestAssumption ==
  /\ Components = Registry /\ WarmupBars = Warmups
  /\ \A i \in Inputs : IsInput(i)

VARIABLE input    \* the asset under way

backtestVars == <<vars, input>>

\* The strategies that are evaluated: none if the frame is refused and the symbol raises.
Applicable(i) ==
  IF Valid(i.frame, i.hasVolume) THEN Kept(i.frame, StrategiesFor(i.configured, i.hasVolume)) ELSE {}

BacktestInit ==
  /\ input \in Inputs
  /\ usable = Applicable(input)
  /\ green = [c \in Components |-> IF c \in usable THEN Signal(c, input.frame) ELSE {}]
  /\ sim = Idle /\ results = {}

BacktestNext == Next /\ UNCHANGED input

BacktestSpec == BacktestInit /\ [][BacktestNext]_backtestVars

-----------------------------------------------------------------------------
(* Properties *)

\* The signals are there, and do not change any more.
Computed == sim = Idle /\ results = {}

\* The frame as it was when bar t closed.
Until(t) == [u \in 0 .. t |-> input.frame[u]]

\* "Signal t still sees only bars up to t": no signal would have been another one had the
\* frame ended at its bar.  What this lets the engine do is to compute signals once and
\* cut them into windows.
SignalsAreCausal ==
  Computed => \A c \in usable : \A t \in Bars : t \in green[c] <=> t \in Signal(c, Until(t))

\* The same for what is traded: a run is in the market on a bar when each component, had the
\* frame ended at the bar before, would have been green on it.
TradesOnThePast ==
  \A r \in results : r.measured =>
    r.held = {a \in r.start + 1 .. r.stop - 1 :
                \A c \in r.variant : a - 1 \in Signal(c, Until(a - 1))}

\* "Both windows start warm": at no bar of a scored window is an indicator of the variant
\* still filling up or, if it is an EMA, dominated by its seed; nor does a strategy trade on a
\* partial indicator before that.
WindowsAreWarm ==
  /\ Computed => \A c \in usable : \A t \in green[c] : Reached(c, t)
  /\ \A r \in results : r.measured /\ r.window # "full" =>
       \A c \in r.variant : \A t \in r.start .. r.stop - 1 : Reached(c, t) /\ Settled(c, t)

\* The loop's position is a latch: set by the last crossing that means something, also
\* through bars on which the RSI is not defined because the market stood still.
RsiIsALatch ==
  Computed /\ "rsi_reversion" \in usable =>
    LET p == Params.rsi_reversion
        Enters(t) == RsiBelow(input.frame, t, p.entry_below)
        Leaves(t) == RsiAbove(input.frame, t, p.exit_above)
    IN \A t \in Bars :
         t \in green["rsi_reversion"] <=>
           \E u \in 0 .. t : Enters(u) /\ \A w \in u + 1 .. t : ~Leaves(w)
=============================================================================
