------------------------------- MODULE MCStore -------------------------------
(* Values for the constants of BacktestStore and ExportFiles: an asset with a  *)
(* single strategy and a combination, and one that config.yaml may drop.       *)
EXTENDS StoreInv, TLC

TheirSymbols == <<1, 1, 2>>
SecondMayGo == {{1}, {1, 2}}

\* The first flow ever, or one after a day on which every variant was backtested.
FirstOrLater == {{}, Earlier}

\* The flows are interchangeable.
FlowSymmetry == Permutations(Flows)
=============================================================================
