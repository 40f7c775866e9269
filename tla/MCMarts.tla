------------------------------- MODULE MCMarts -------------------------------
(* Values for the constants of Marts: one measure for each case that the marts *)
(* can tell apart.                                                             *)
EXTENDS Marts

Idle(hold) == [ret |-> 0, hold |-> hold, trades |-> 0, held |-> FALSE]
RoundTrip(ret, hold) == [ret |-> ret, hold |-> hold, trades |-> 1, held |-> TRUE]
StillOpen(ret, hold) == [ret |-> ret, hold |-> hold, trades |-> 0, held |-> TRUE]

\* Flat while the market fell, a win, a gain smaller than the market's, a win never sold.
FourMeasures == {Idle(-1), RoundTrip(2, 0), RoundTrip(1, 2), StillOpen(1, 0)}

\* A strategy and a combination of one asset.
TwoSizes == [v \in Variants |-> IF v = 1 THEN 1 ELSE 2]
OneSymbol == [v \in Variants |-> "BTC-USD"]
OneClass == [v \in Variants |-> "crypto"]
=============================================================================
