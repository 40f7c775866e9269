------------------------------ MODULE Strategies ------------------------------
(***************************************************************************)
(* pipeline/backtest/strategies.py: from the bars of a frame to the bars   *)
(* each single strategy is green on; and what config.py and quality.py     *)
(* decide before it: which strategies apply to an asset, and which frames  *)
(* are refused.                                                            *)
(*                                                                         *)
(* A frame is a function from 0 .. n - 1 to bars, prices are whole         *)
(* numbers, and averages are compared by their sums.                       *)
(***************************************************************************)
EXTENDS Integers, FiniteSetsExt

CONSTANTS
  Params,         \* Params[c]: the configured params of strategy c; fractions are pairs
  Scale,          \* in units of 1 / Scale the EMAs' divisions leave no remainder
  NaN             \* a missing volume

Registry == {"sma_cross", "macd", "rsi_reversion", "volume_breakout", "fibonacci"}

\* requires_volume, as config.yaml has it.
NeedsVolume == {"volume_breakout"}

\* The fields that count bars, and the bounds of the RSI, are numbers.
ParamsTyped ==
  /\ Params.sma_cross \in [fast: Int, slow: Int]
  /\ Params.macd \in [fast: Int, slow: Int, signal: Int]
  /\ Params.rsi_reversion \in [period: Int, entry_below: Int, exit_above: Int]
  /\ Params.volume_breakout.price_window \in Int /\ Params.volume_breakout.volume_window \in Int
  /\ Params.fibonacci.window \in Int

\* What the __post_init__ of each strategy lets through.
SmaCrossAccepted == 0 < Params.sma_cross.fast /\ Params.sma_cross.fast < Params.sma_cross.slow
MacdAccepted ==
  0 < Params.macd.fast /\ Params.macd.fast < Params.macd.slow /\ Params.macd.signal >= 1
RsiReversionAccepted ==
  /\ Params.rsi_reversion.period >= 1
  /\ Params.rsi_reversion.entry_below < Params.rsi_reversion.exit_above
VolumeBreakoutAccepted ==
  /\ Params.volume_breakout.price_window >= 1 /\ Params.volume_breakout.volume_window >= 1
  /\ Params.volume_breakout.volume_mult[1] > 0 /\ Params.volume_breakout.volume_mult[2] > 0
FibonacciAccepted ==
  /\ Params.fibonacci.window >= 2
  /\ 0 < Params.fibonacci.ratio[1] /\ Params.fibonacci.ratio[1] < Params.fibonacci.ratio[2]

ParamsAccepted ==
  /\ SmaCrossAccepted /\ MacdAccepted /\ RsiReversionAccepted
  /\ VolumeBreakoutAccepted /\ FibonacciAccepted

ASSUME StrategiesAssumption == ParamsTyped /\ ParamsAccepted /\ Scale \in Nat \ {0}

\* warmup_bars of each strategy.
SmaCrossWarmup == Params.sma_cross.slow
MacdWarmup == Params.macd.slow + Params.macd.signal
RsiReversionWarmup == Params.rsi_reversion.period + 1
VolumeBreakoutWarmup ==
  Max({Params.volume_breakout.price_window, Params.volume_breakout.volume_window})
FibonacciWarmup == Params.fibonacci.window

Warmups ==
  [sma_cross |-> SmaCrossWarmup, macd |-> MacdWarmup, rsi_reversion |-> RsiReversionWarmup,
   volume_breakout |-> VolumeBreakoutWarmup, fibonacci |-> FibonacciWarmup]

-----------------------------------------------------------------------------
(* Rolling windows *)

\* Mutant: a centred window.
Trailing_Centred(f, t, w) == {u \in DOMAIN f : t - w \div 2 <= u /\ u <= t + w \div 2}

\* The last w bars at bar t.
Trailing(f, t, w) == {u \in DOMAIN f : t - w < u /\ u <= t}

\* min_periods: there are w bars by bar t.
Full(t, w) == t >= w - 1

\* w times the simple moving average.  For the windows gold has a column sma_<w> of, the code
\* reads that column: the same average of the same closes, and NULL until the window is full.
SmaSum(f, column, t, w) == SumFunction([u \in Trailing(f, t, w) |-> f[u][column]])

Gain(f, t) == IF f[t].close > f[t - 1].close THEN f[t].close - f[t - 1].close ELSE 0
Loss(f, t) == IF f[t].close < f[t - 1].close THEN f[t - 1].close - f[t].close ELSE 0

\* The first bar has no delta.
GainSum(f, t, w) == SumFunction([u \in Trailing(f, t, w) \ {0} |-> Gain(f, u)])
LossSum(f, t, w) == SumFunction([u \in Trailing(f, t, w) \ {0} |-> Loss(f, u)])

\* (1 - a) * before + a * now with a = 2 / (span + 1).
Smooth(span, before, now) == ((span - 1) * before + 2 * now) \div (span + 1)

\* close.ewm(span, adjust=False)
Ema(x, span) ==
  LET y[t \in DOMAIN x] == IF t = 0 THEN x[0] ELSE Smooth(span, y[t - 1], x[t])
  IN y

-----------------------------------------------------------------------------
(* The signals *)

SmaCross(f) ==
  LET fast == Params.sma_cross.fast
      slow == Params.sma_cross.slow
  IN {t \in DOMAIN f :
        /\ Full(t, fast) /\ Full(t, slow)
        /\ SmaSum(f, "close", t, fast) * slow > SmaSum(f, "close", t, slow) * fast}

Macd(f) ==
  LET p == Params.macd
      close == [t \in DOMAIN f |-> f[t].close * Scale]
      fast == Ema(close, p.fast)
      slow == Ema(close, p.slow)
      line == [t \in DOMAIN f |-> fast[t] - slow[t]]
      signal == Ema(line, p.signal)
  IN {t \in DOMAIN f : line[t] > signal[t]}

\* cutlers_rsi is defined: period deltas, not all zero.
RsiDefined(f, t) ==
  LET w == Params.rsi_reversion.period
  IN t >= 1 /\ Full(t - 1, w) /\ GainSum(f, t, w) + LossSum(f, t, w) > 0

\* 100 * gains against bound * (gains + losses); NaN compares FALSE with anything.
RsiBelow(f, t, bound) ==
  LET w == Params.rsi_reversion.period
  IN RsiDefined(f, t) /\ 100 * GainSum(f, t, w) < bound * (GainSum(f, t, w) + LossSum(f, t, w))
RsiAbove(f, t, bound) ==
  LET w == Params.rsi_reversion.period
  IN RsiDefined(f, t) /\ 100 * GainSum(f, t, w) > bound * (GainSum(f, t, w) + LossSum(f, t, w))

\* Mutant: the position is dropped where the RSI is not defined.
RsiReversion_Drops(f) ==
  LET p == Params.rsi_reversion
      long[t \in DOMAIN f] ==
        IF t > 0 /\ long[t - 1] THEN RsiDefined(f, t) /\ ~RsiAbove(f, t, p.exit_above)
        ELSE RsiBelow(f, t, p.entry_below)
  IN {t \in DOMAIN f : long[t]}

RsiReversion(f) ==
  LET p == Params.rsi_reversion
      long[t \in DOMAIN f] ==
        IF t > 0 /\ long[t - 1] THEN ~RsiAbove(f, t, p.exit_above)
        ELSE RsiBelow(f, t, p.entry_below)
  IN {t \in DOMAIN f : long[t]}

VolumeBreakout(f) ==
  LET p == Params.volume_breakout
  IN {t \in DOMAIN f :
        /\ Full(t, p.price_window) /\ Full(t, p.volume_window)
        /\ f[t].close * p.price_window > SmaSum(f, "close", t, p.price_window)
        /\ f[t].volume * p.volume_window * p.volume_mult[2]
             > SmaSum(f, "volume", t, p.volume_window) * p.volume_mult[1]}

\* close against swing_high - (swing_high - swing_low) * ratio.
Fibonacci(f) ==
  LET p == Params.fibonacci
      High(t) == Max({f[u].high : u \in Trailing(f, t, p.window)})
      Low(t) == Min({f[u].low : u \in Trailing(f, t, p.window)})
  IN {t \in DOMAIN f :
        /\ Full(t, p.window)
        /\ f[t].close * p.ratio[2] > High(t) * p.ratio[2] - (High(t) - Low(t)) * p.ratio[1]}

\* build_strategy(cfg).generate_signals: the bars the strategy is green on.
Signal(c, f) ==
  CASE c = "sma_cross"       -> SmaCross(f)
    [] c = "macd"            -> Macd(f)
    [] c = "rsi_reversion"   -> RsiReversion(f)
    [] c = "volume_breakout" -> VolumeBreakout(f)
    [] c = "fibonacci"       -> Fibonacci(f)

\* Whether the indicator behind c's signal has all its bars at bar t, whatever warmup_bars
\* says; the EMAs are seeded by the first bar and have a value at once.
Reached(c, t) ==
  CASE c = "sma_cross"       -> Full(t, Params.sma_cross.fast) /\ Full(t, Params.sma_cross.slow)
    [] c = "macd"            -> TRUE
    [] c = "rsi_reversion"   -> Full(t - 1, Params.rsi_reversion.period)
    [] c = "volume_breakout" -> /\ Full(t, Params.volume_breakout.price_window)
                                /\ Full(t, Params.volume_breakout.volume_window)
    [] c = "fibonacci"       -> Full(t, Params.fibonacci.window)

\* "Dominated by their seed until roughly one slow span plus one signal span has passed":
\* how long the EMAs need to forget it.
Settled(c, t) == c = "macd" => t >= Params.macd.slow + Params.macd.signal

-----------------------------------------------------------------------------
(* Which frames are backtested, with which strategies *)

\* validate_ohlcv.  That the bars are sorted and distinct is the frame's shape.
Valid(f, requireVolume) ==
  \A t \in DOMAIN f : LET b == f[t] IN
    /\ b.open > 0 /\ b.high > 0 /\ b.low > 0 /\ b.close > 0
    /\ b.high >= b.low /\ b.high >= Max({b.open, b.close}) /\ b.low <= Min({b.open, b.close})
    /\ IF b.volume = NaN THEN ~requireVolume ELSE b.volume >= 0

\* AppConfig.strategies_for an asset whose class has a volume tape, or none.
StrategiesFor(configured, hasVolume) ==
  {c \in configured : hasVolume \/ c \notin NeedsVolume}

\* Every volume is missing or zero.
VolumeIsAbsent(f) ==
  \A t \in DOMAIN f : f[t].volume \in {NaN, 0}

\* build_all_variants skips once more by what it finds in the frame.
Kept(f, configured) ==
  {c \in configured : ~(c \in NeedsVolume /\ VolumeIsAbsent(f))}
=============================================================================
