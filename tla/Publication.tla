----------------------------- MODULE Publication -----------------------------
(***************************************************************************)
(* What the website is promised, with no pass, build, backtest or job: the *)
(* site changes only to a later snapshot that is whole, or says it is not, *)
(* and that fits the data there was.  DailyFlow is the program that has to *)
(* keep this promise.                                                      *)
(*                                                                         *)
(* A snapshot holds the day it was exported and, per symbol, the day of    *)
(* the data each relation in it was made from.                             *)
(***************************************************************************)
EXTENDS Integers

CONSTANTS
  NSymbols,     \* assets
  StaleAfter    \* the freshness check's error_after, in days

VARIABLES
  today,        \* the calendar day
  inserted,     \* the last day a candle arrived
  site          \* what the website shows

promiseVars == <<today, inserted, site>>

AsOf(day) == [s \in 1 .. NSymbols |-> day]
AtMost(old, new) == \A s \in 1 .. NSymbols : old[s] <= new[s]

Init ==
  /\ today = 0 /\ inserted = 0
  /\ site = [day |-> 0, prices |-> AsOf(0), backtests |-> AsOf(0), combos |-> AsOf(0),
             board |-> AsOf(0), summary |-> AsOf(0), slip |-> {}, warned |-> FALSE]

NewDay == today' = today + 1 /\ UNCHANGED <<inserted, site>>

\* A pair's bars come in, today.
Arrive == inserted' = today /\ UNCHANGED <<today, site>>

\* No mart shows what the one it is built from does not, no backtest what the prices
\* do not, no price what the day of the export had not seen.
Founded(x) ==
  /\ AtMost(x.prices, AsOf(x.day)) /\ AtMost(x.backtests, x.prices)
  /\ AtMost(x.combos, x.backtests) /\ AtMost(x.board, x.combos)
  /\ AtMost(x.summary, x.combos)

\* The marts aggregate exactly the backtests beside them, and no test rejects them.
Whole(x) ==
  x.combos = x.backtests /\ x.board = x.combos /\ x.summary = x.combos /\ x.slip = {}

NotOlder(new, old) ==
  /\ old.day <= new.day
  /\ AtMost(old.prices, new.prices) /\ AtMost(old.backtests, new.backtests)
  /\ AtMost(old.combos, new.combos) /\ AtMost(old.board, new.board)
  /\ AtMost(old.summary, new.summary)

\* Nothing is published over a snapshot that a test of the marts rejects.
Publish ==
  /\ site.slip = {}
  /\ Founded(site') /\ (Whole(site') \/ site'.warned) /\ NotOlder(site', site)
  /\ site'.day <= today /\ site'.day - inserted <= StaleAfter
  /\ UNCHANGED <<today, inserted>>

Next == NewDay \/ Arrive \/ Publish

Spec == Init /\ [][Next]_promiseVars
=============================================================================
