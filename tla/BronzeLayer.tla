----------------------------- MODULE BronzeLayer -----------------------------
(***************************************************************************)
(* What the bronze layer promises to everything downstream of it, with no  *)
(* connections, statements, retries or faults: bronze.raw_candles and      *)
(* meta.ingest_runs only ever grow, and they grow by whole ingestion runs. *)
(* BronzeIngest is the code that has to keep this promise.                 *)
(*                                                                         *)
(* A row of bronze.raw_candles is [pair, day, run]: a pair stands for the  *)
(* (source, symbol, granularity) prefix of the natural key, a day for the  *)
(* bar-open timestamp, and the payload is left out.  An audit row of       *)
(* meta.ingest_runs is [id, pair, status, ws, we, asked, fetched,          *)
(* inserted]: the code stores len(candles) where fetched holds the days,   *)
(* and asked, the days the run's requests covered, is history.             *)
(***************************************************************************)
EXTENDS Integers, FiniteSets

CONSTANTS
  BackfillStart   \* the day asset.backfill_start names

VARIABLES
  today,          \* the current UTC day: the bars of the days before it are closed
  rows,           \* bronze.raw_candles, as committed
  runs            \* meta.ingest_runs, as committed

vars == <<today, rows, runs>>

(***************************************************************************)
(* A set S of candle rows holds the bar of day d; a set R of audit rows    *)
(* explains its absence, by a successful request for d that the vendor     *)
(* answered without it.  Both are monotone in the set.                     *)
(***************************************************************************)
Stored(S, p, d) == \E c \in S : c.pair = p /\ c.day = d

Omitted(R, p, d) ==
  \E r \in R : /\ r.pair = p
               /\ r.status = "success"
               /\ d \in r.asked \ r.fetched

NoGap(S, R, p, last) ==
  \A d \in BackfillStart .. last : Stored(S, p, d) \/ Omitted(R, p, d)

Init == today = 0 /\ rows = {} /\ runs = {}

NewDay == today' = today + 1 /\ UNCHANGED <<rows, runs>>

(***************************************************************************)
(* One commit makes the rows and the audit rows of whole runs visible.     *)
(***************************************************************************)
Append ==
  LET newRows == rows' \ rows
      newRuns == runs' \ runs
  IN /\ UNCHANGED today
     /\ rows \subseteq rows' /\ runs \subseteq runs'
     /\ \A r \in newRuns, q \in runs : q.id # r.id
     /\ \A c \in newRows : /\ c.day \in 0 .. today - 1
                           /\ ~Stored(rows, c.pair, c.day)
     /\ \A c, e \in newRows : c.pair = e.pair /\ c.day = e.day => c = e
     /\ \A c \in newRows :
          \E r \in newRuns : /\ r.id = c.run /\ r.pair = c.pair
                             /\ r.status = "success" /\ c.day \in r.fetched
     /\ \A r \in newRuns : r.inserted = Cardinality({c \in newRows : c.run = r.id})
     /\ \A r \in newRuns : r.status = "success" => NoGap(rows', runs', r.pair, r.we)

Next == NewDay \/ Append

Spec == Init /\ [][Next]_vars

(***************************************************************************)
(* The natural key of migration 001, the audit's arithmetic, and the       *)
(* contiguity every window computed from the watermark relies on.          *)
(***************************************************************************)

\* No two rows share (source, symbol, granularity, candle_ts).
UniqueKey ==
  \A c, e \in rows : c.pair = e.pair /\ c.day = e.day => c = e

\* Every row leads back to one successful audit row that requested its day.
Provenance ==
  \A c \in rows :
    \E r \in runs : /\ r.id = c.run /\ r.pair = c.pair /\ r.status = "success"
                    /\ c.day \in r.fetched

\* rows_inserted counts exactly the rows a run brought in: ON CONFLICT DO NOTHING
\* and concurrent runs included.
InsertedIsCounted ==
  \A r \in runs : r.inserted = Cardinality({c \in rows : c.run = r.id})

\* No stored bar was still forming: bronze never rewrites a row, so a forming bar
\* would be frozen for ever.
ClosedBarsOnly == \A c \in rows : c.day \in 0 .. today - 1

\* The watermark never hides a hole nobody asked the vendor about: up to the end of
\* every successful window each day is stored or was left out by the vendor.
NoUnexplainedGap ==
  \A r \in runs : r.status = "success" => NoGap(rows, runs, r.pair, r.we)
=============================================================================
