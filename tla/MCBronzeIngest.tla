--------------------------- MODULE MCBronzeIngest ---------------------------
(* Values for the constants of BronzeIngest. *)
EXTENDS BronzeIngestInv

\* A vendor answers a day and the day after it per request, as Coinbase answers 300.
TwoDayPages == [p \in Pairs |-> 1]

\* A day per request, so that a window of two days takes two pages.
OneDayPages == [p \in Pairs |-> 0]
=============================================================================
