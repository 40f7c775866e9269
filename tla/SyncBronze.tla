------------------------------ MODULE SyncBronze ------------------------------
(***************************************************************************)
(* scripts/sync_bronze_to_remote.py: the raw layer of one warehouse copied *)
(* to another, "local -> managed, or back", by hand, while both go on      *)
(* ingesting.  The tables go one after the other: each is read by a        *)
(* statement of its own, which sees what the source has committed by then, *)
(* staged, inserted ON CONFLICT DO NOTHING, and committed at the target.   *)
(*                                                                         *)
(* What an ingestion commits is BronzeLayer's promise, here by one         *)
(* ingester per warehouse: a window read from the watermark, and later the *)
(* days of it the vendor answered that are not stored by then.             *)
(***************************************************************************)
EXTENDS Integers, FiniteSets

CONSTANTS
  Pairs,          \* (source, symbol, granularity) prefixes of the natural key
  BackfillStart,  \* the day asset.backfill_start names
  Syncers,        \* syncs that may run at the same time
  LastDay,        \* bound: the clock stops there
  MaxRuns         \* bound: MaxRuns[d] ingestion runs of warehouse d itself

Warehouses == {"local", "managed"}

ASSUME SyncAssumption ==
  /\ Pairs # {} /\ BackfillStart \in Nat /\ LastDay \in Nat
  /\ MaxRuns \in [Warehouses -> Nat]

VARIABLES
  today,          \* the current UTC day
  rows,           \* rows[d]: bronze.raw_candles of warehouse d, as committed
  runs,           \* runs[d]: meta.ingest_runs of warehouse d, as committed
  window,         \* window[d]: what d's ingester is fetching, or none
  sync            \* sync[x]: the locals of main and copy_table

vars == <<today, rows, runs, window, sync>>

Local == INSTANCE BronzeLayer WITH rows <- rows["local"], runs <- runs["local"]
Managed == INSTANCE BronzeLayer WITH rows <- rows["managed"], runs <- runs["managed"]

Stored(d, p, day) == Local!Stored(rows[d], p, day)

-----------------------------------------------------------------------------

RunId == [by: Warehouses, n: Nat]
Candle == [pair: Pairs, day: Nat, run: RunId]
AuditRow == [id: RunId, pair: Pairs, status: {"success", "failed"}, ws: Nat, we: Nat,
             asked: SUBSET Nat, fetched: SUBSET Nat, inserted: Nat]

\* TABLES, ordered by dependency.  Mutant: the other way round.
Tables_Swapped == <<"raw_candles", "ingest_runs">>
Tables == <<"ingest_runs", "raw_candles">>

Content(d) == [ingest_runs |-> runs[d], raw_candles |-> rows[d]]
Nothing == [ingest_runs |-> {}, raw_candles |-> {}]

NoWindow == [pair |-> CHOOSE p \in Pairs : TRUE, ws |-> 1, we |-> 0]
NoSync == [pc |-> "off", table |-> 1, from |-> "local", to |-> "local", staged |-> {}, begun |-> Nothing]

Syncing == [pc: {"off", "copy", "insert", "done", "failed"},
            table: 1 .. 2, from: Warehouses, to: Warehouses,
            staged: (SUBSET Candle) \cup (SUBSET AuditRow),     \* the temporary table
            begun: [ingest_runs: SUBSET AuditRow, raw_candles: SUBSET Candle]]
                                \* history: the source when the sync began

TypeOK ==
  /\ today \in Nat
  /\ rows \in [Warehouses -> SUBSET Candle] /\ runs \in [Warehouses -> SUBSET AuditRow]
  /\ window \in [Warehouses -> [pair: Pairs, ws: Nat, we: Nat]]
  /\ sync \in [Syncers -> Syncing]

Init ==
  /\ today = 0
  /\ rows = [d \in Warehouses |-> {}] /\ runs = [d \in Warehouses |-> {}]
  /\ window = [d \in Warehouses |-> NoWindow]
  /\ sync = [x \in Syncers |-> NoSync]

NewDay ==
  /\ today < LastDay /\ today' = today + 1
  /\ UNCHANGED <<rows, runs, window, sync>>

-----------------------------------------------------------------------------
(* Ingestion *)

Days(d, p) == {c.day : c \in {e \in rows[d] : e.pair = p}}
WindowStart(d, p) ==
  IF Days(d, p) = {} THEN BackfillStart
  ELSE (CHOOSE t \in Days(d, p) : \A u \in Days(d, p) : u <= t) + 1

Own(d) == {r \in runs[d] : r.id.by = d}

BeginIngest(d, p) ==
  /\ window[d] = NoWindow /\ Cardinality(Own(d)) < MaxRuns[d]
  /\ WindowStart(d, p) < today
  /\ window' = [window EXCEPT ![d] = [pair |-> p, ws |-> WindowStart(d, p), we |-> today - 1]]
  /\ UNCHANGED <<today, rows, runs, sync>>

CommitIngest(d, status, fetched) ==
  LET w == window[d]
      id == [by |-> d, n |-> Cardinality(Own(d))]
      new == {t \in fetched : ~Stored(d, w.pair, t)}
  IN /\ w # NoWindow /\ fetched \subseteq w.ws .. w.we /\ (status = "failed" => fetched = {})
     /\ rows' = [rows EXCEPT ![d] = @ \cup {[pair |-> w.pair, day |-> t, run |-> id] : t \in new}]
     /\ runs' = [runs EXCEPT ![d] = @ \cup
          {[id |-> id, pair |-> w.pair, status |-> status, ws |-> w.ws, we |-> w.we,
            asked |-> IF status = "success" THEN w.ws .. w.we ELSE {},
            fetched |-> fetched, inserted |-> Cardinality(new)]}]
     /\ window' = [window EXCEPT ![d] = NoWindow]
     /\ UNCHANGED <<today, sync>>

-----------------------------------------------------------------------------
(* The sync *)

StartSync(x, from, to) ==
  /\ sync[x].pc \in {"off", "done", "failed"} /\ from # to
  /\ sync' = [sync EXCEPT ![x] = [NoSync EXCEPT !.pc = "copy", !.from = from, !.to = to,
                                                !.begun = Content(from)]]
  /\ UNCHANGED <<today, rows, runs, window>>

Table(x) == Tables[sync[x].table]

\* COPY (SELECT ... FROM table) TO STDOUT, into the staging table.
CopyTable(x) ==
  /\ sync[x].pc = "copy"
  /\ sync' = [sync EXCEPT ![x].pc = "insert", ![x].staged = Content(sync[x].from)[Table(x)]]
  /\ UNCHANGED <<today, rows, runs, window>>

\* Mutant: only runs that succeeded are brought over.
NewRuns_Succeeded(x) ==
  {r \in sync[x].staged : r.status = "success" /\ \A q \in runs[sync[x].to] : q.id # r.id}

\* INSERT INTO meta.ingest_runs ... ON CONFLICT (ingest_run_id) DO NOTHING.
NewRuns(x) ==
  {r \in sync[x].staged : \A q \in runs[sync[x].to] : q.id # r.id}

\* Mutant: the target's own bars give way.
NewCandles_Doubled(x) ==
  {c \in sync[x].staged : c \notin rows[sync[x].to]}

\* INSERT INTO bronze.raw_candles ... ON CONFLICT on the natural key DO NOTHING.
NewCandles(x) ==
  {c \in sync[x].staged : ~Stored(sync[x].to, c.pair, c.day)}

\* The foreign key, checked for the rows that are inserted.
Orphans(x) == {c \in NewCandles(x) : \A r \in runs[sync[x].to] : r.id # c.run}

Committed(x) ==
  sync' = [sync EXCEPT ![x].staged = {}, ![x].pc = IF sync[x].table = 2 THEN "done" ELSE "copy",
                       ![x].table = IF @ = 2 THEN @ ELSE @ + 1]

InsertRuns(x) ==
  /\ sync[x].pc = "insert" /\ Table(x) = "ingest_runs"
  /\ runs' = [runs EXCEPT ![sync[x].to] = @ \cup NewRuns(x)]
  /\ Committed(x) /\ UNCHANGED <<today, rows, window>>

\* Mutants: a block of the stream is committed as it comes; the last one never is.
InsertCandles_Blockwise(x) ==
  /\ sync[x].pc = "insert" /\ Table(x) = "raw_candles" /\ Orphans(x) = {}
  /\ \E block \in SUBSET NewCandles(x) :
       /\ rows' = [rows EXCEPT ![sync[x].to] = @ \cup block]
       /\ IF block = NewCandles(x) THEN Committed(x) ELSE UNCHANGED sync
  /\ UNCHANGED <<today, runs, window>>

InsertCandles_Dropped(x) ==
  /\ sync[x].pc = "insert" /\ Table(x) = "raw_candles" /\ Orphans(x) = {}
  /\ Committed(x) /\ UNCHANGED <<today, rows, runs, window>>

InsertCandles(x) ==
  /\ sync[x].pc = "insert" /\ Table(x) = "raw_candles" /\ Orphans(x) = {}
  /\ rows' = [rows EXCEPT ![sync[x].to] = @ \cup NewCandles(x)]
  /\ Committed(x) /\ UNCHANGED <<today, runs, window>>

\* The statement fails and the script with it; what was committed stays.
ForeignKeyFails(x) ==
  /\ sync[x].pc = "insert" /\ Table(x) = "raw_candles" /\ Orphans(x) # {}
  /\ sync' = [sync EXCEPT ![x].pc = "failed", ![x].staged = {}]
  /\ UNCHANGED <<today, rows, runs, window>>

\* The script or a connection dies: the open transaction is gone.
Die(x) ==
  /\ sync[x].pc \in {"copy", "insert"}
  /\ sync' = [sync EXCEPT ![x] = NoSync]
  /\ UNCHANGED <<today, rows, runs, window>>

Next ==
  \/ NewDay
  \/ \E d \in Warehouses :
       \/ \E p \in Pairs : BeginIngest(d, p)
       \/ \E status \in {"success", "failed"}, fetched \in SUBSET (0 .. LastDay) :
            CommitIngest(d, status, fetched)
  \/ \E x \in Syncers :
       \/ \E from, to \in Warehouses : StartSync(x, from, to)
       \/ CopyTable(x) \/ InsertRuns(x) \/ InsertCandles(x) \/ ForeignKeyFails(x) \/ Die(x)

Spec == Init /\ [][Next]_vars

-----------------------------------------------------------------------------
(* Properties *)

\* Whatever was copied, in whichever direction, and wherever a copy stopped: no warehouse
\* holds a bar twice, a bar without its audit row, or a forming one.
CopiesAreSound ==
  /\ Local!UniqueKey /\ Local!Provenance /\ Local!ClosedBarsOnly
  /\ Managed!UniqueKey /\ Managed!Provenance /\ Managed!ClosedBarsOnly

\* The watermark of neither warehouse ever hides a day that nobody asked the vendor about:
\* also between the commits of the two tables, and after a copy that failed.
WatermarkHidesNothing ==
  \A d \in Warehouses : \A c \in rows[d] : Local!NoGap(rows[d], runs[d], c.pair, c.day)

\* A sync that returns has brought over every run and every bar its source held when it
\* began, although each table was read later and the target's own bars have precedence.
SyncDelivers ==
  \A x \in Syncers : sync[x].pc = "done" =>
    /\ \A r \in sync[x].begun.ingest_runs : r \in runs[sync[x].to]
    /\ \A c \in sync[x].begun.raw_candles : Stored(sync[x].to, c.pair, c.day)

\* A sync fails only where an ingestion at its source was committed under it: repeated
\* while the source is quiet, it goes through.
OnlyRacesFail ==
  \A x \in Syncers : sync[x].pc = "failed" => runs[sync[x].from] # sync[x].begun.ingest_runs
=============================================================================
