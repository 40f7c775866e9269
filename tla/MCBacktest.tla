------------------------------ MODULE MCBacktest ------------------------------
(* Values for the constants of Backtest: short windows, three kinds of good bars. *)
EXTENDS Backtest

ShortParams ==
  [sma_cross |-> [fast |-> 1, slow |-> 2],
   macd |-> [fast |-> 1, slow |-> 3, signal |-> 7],
   rsi_reversion |-> [period |-> 3, entry_below |-> 30, exit_above |-> 50],
   volume_breakout |-> [price_window |-> 2, volume_window |-> 2, volume_mult |-> <<3, 2>>],
   fibonacci |-> [window |-> 3, ratio |-> <<3, 5>>]]

\* round(e * 0.5), where Python takes a half to the even neighbour.
HalfOf == [e \in 0 .. N |-> IF e % 2 = 0 THEN e \div 2 ELSE 2 * ((e + 1) \div 4)]

LowBar == [open |-> 1, high |-> 2, low |-> 1, close |-> 1, volume |-> 1]
MiddleBar == [open |-> 2, high |-> 3, low |-> 1, close |-> 2, volume |-> 1]
HighBar == [open |-> 2, high |-> 4, low |-> 2, close |-> 4, volume |-> 4]

\* Its high is below its close.
BadBar == [HighBar EXCEPT !.high = 3]

Frames == [Bars -> {LowBar, MiddleBar, HighBar}]
ShortFrames == {f \in Frames : \A t \in Bars : t >= 4 => f[t] = f[t - 4]}

WithVolume(f, v) == [t \in Bars |-> [f[t] EXCEPT !.volume = v]]

Input(f, configured, hasVolume) ==
  [frame |-> f, configured |-> configured, hasVolume |-> hasVolume]

Pairs ==
  {{"sma_cross", "rsi_reversion"}, {"macd", "sma_cross"}, {"rsi_reversion", "volume_breakout"},
   {"volume_breakout", "fibonacci"}}

SomeInputs ==
  {Input(f, cs, TRUE) : f \in Frames, cs \in Pairs}
  \cup {Input(f, {"sma_cross", "rsi_reversion", "fibonacci"}, TRUE) : f \in ShortFrames}
  \cup {Input(WithVolume(f, v), {"volume_breakout", "fibonacci"}, tape) :
          f \in ShortFrames, v \in {0, NaN}, tape \in BOOLEAN}
  \cup {Input([f EXCEPT ![2] = BadBar], {"sma_cross", "fibonacci"}, TRUE) : f \in ShortFrames}
=============================================================================
