----------------------------- MODULE MCIngestAll -----------------------------
(* Values for the constants of IngestAll: one keyless exchange and two sources *)
(* that share one metered account, as tiingo and tiingo_fx do.                 *)
EXTENDS IngestAll

NeedKeys == {"tiingo", "tiingo_fx"}
Accounts == [tiingo |-> "provider", tiingo_fx |-> "provider"]

\* Call order of the small instance.
FivePairs == <<"coinbase", "tiingo", "tiingo", "tiingo_fx", "tiingo">>

\* A request for each of the provider's four pairs, and two to retry a failing one.
FitsOneBroken == [provider |-> 6]

\* Every run finds its window unspent.
Unspent == {Quota}
=============================================================================
