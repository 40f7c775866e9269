----------------------------- MODULE MCDailyFlow -----------------------------
(* Values for the constants of DailyFlow: two assets, the second with a        *)
(* reconciliation source beside its primary, as a crypto asset of config.yaml. *)
EXTENDS DailyFlowInv

NeedKeys == {"tiingo", "tiingo_fx"}
ThreePairs == <<"tiingo", "coinbase", "tiingo">>
TheirSymbols == <<1, 2, 2>>

\* Nothing is metered: a refusal may come at any call.
NoAccounts == [s \in {} |-> 0]
NothingCounted == {NoAccounts}

\* The provider's window was used up before the run.
Accounts == [tiingo |-> "provider"]
UsedUp == [provider |-> 0]
NothingLeft == {UsedUp}
=============================================================================
