---------------------------- MODULE BronzeIngest ----------------------------
(***************************************************************************)
(* pipeline/bronze.py with the source clients it calls and the two callers *)
(* it has: flows.ingest_asset (a Prefect task, one connection per attempt, *)
(* two retries) and bronze.main (every pair on one connection).            *)
(*                                                                         *)
(* Several workers run at once: the scheduled flow and a run by hand share *)
(* nothing but the database.  psycopg opens a transaction at the watermark *)
(* query, so `with conn.transaction()` is a savepoint inside it and the    *)
(* commit comes when the connection's own `with` block ends.  Statements   *)
(* read committed rows and those of their own transaction; an INSERT of a  *)
(* key another open transaction has inserted waits for that transaction.   *)
(***************************************************************************)
EXTENDS Integers, FiniteSets

CONSTANTS
  Workers,        \* processes that ingest
  NPairs,         \* (source, symbol) pairs, numbered in the order of config.yaml
  BackfillStart,  \* the day asset.backfill_start names
  PageSpan,       \* PageSpan[p]: days after its first that one request to p's vendor covers
  MaxTries,       \* request_json's MAX_TRIES
  MaxRetries,     \* retries of the ingest_asset task
  Kinds,          \* the callers in play, a subset of {"task", "main"}
  Faults,         \* what may go wrong, a subset of FaultKinds
  LastDay,        \* bound: the clock stops there
  MaxJobs         \* bound: jobs a worker starts

Pairs == 1 .. NPairs
FaultKinds == {"http", "refusal", "statement", "watermark", "connection", "crash", "key"}

ASSUME IngestAssumption ==
  /\ NPairs \in Nat \ {0} /\ BackfillStart \in Nat
  /\ MaxTries \in Nat \ {0} /\ MaxRetries \in Nat
  /\ LastDay \in Nat /\ MaxJobs \in Nat
  /\ PageSpan \in [1 .. NPairs -> Nat]
  /\ Kinds \subseteq {"task", "main"}
  /\ Faults \subseteq {"http", "refusal", "statement", "watermark", "connection", "crash", "key"}

VARIABLES
  today,          \* the current UTC day
  rows,           \* bronze.raw_candles, as committed
  runs,           \* meta.ingest_runs, as committed
  txnRows,        \* txnRows[w]: candles inserted by w's open transaction
  txnRuns,        \* txnRuns[w]: audit rows inserted by w's open transaction
  job,            \* job[w]: the locals of ingest and of its caller
  ended           \* history: ids of the attempts that returned to their caller or raised

vars == <<today, rows, runs, txnRows, txnRuns, job, ended>>

Layer == INSTANCE BronzeLayer

-----------------------------------------------------------------------------
(* Types *)

Days == 0 .. LastDay
RunId == [by: Workers, job: Nat, pair: Pairs, attempt: Nat]
Candle == [pair: Pairs, day: Nat, run: RunId]
AuditRow == [id: RunId, pair: Pairs, status: {"success", "failed"}, ws: Nat, we: Nat \cup {-1},
             asked: SUBSET Nat, fetched: SUBSET Nat, inserted: Nat]

Phases == {"idle", "watermark", "fetch", "insert", "record", "leave"}
Job == [pc: Phases, kind: {"task", "main"}, job: Nat, pair: Pairs, attempt: Nat,
        day: Nat,             \* the day of started_at
        ws: Nat, we: Nat \cup {-1},   \* window_start, window_end
        cursor: Nat,          \* first day of the next page
        tries: Nat,           \* requests already made for this page
        asked: SUBSET Nat,    \* history: the days the answered requests covered
        fetched: SUBSET Nat,  \* days of candles
        todo: SUBSET Nat,     \* candles the for loop has not reached
        inserted: Nat,        \* rows_inserted
        status: {"success", "failed"},
        refused: BOOLEAN]     \* rate_limited or auth_failed

TypeOK ==
  /\ today \in Nat
  /\ rows \subseteq Candle /\ runs \subseteq AuditRow
  /\ txnRows \in [Workers -> SUBSET Candle]
  /\ txnRuns \in [Workers -> SUBSET AuditRow]
  /\ job \in [Workers -> Job]
  /\ ended \subseteq RunId

-----------------------------------------------------------------------------
(* Helpers *)

\* uuid4 is fresh: an attempt is named by who makes it and when.
Id(w) == [by |-> w, job |-> job[w].job, pair |-> job[w].pair, attempt |-> job[w].attempt]

\* What a statement of w's transaction sees of bronze.raw_candles.
Visible(w) == rows \cup txnRows[w]

StoredDays(w, p) == {c.day : c \in {x \in Visible(w) : x.pair = p}}

Latest(D) == CHOOSE d \in D : \A e \in D : e <= d
Earliest(D) == CHOOSE d \in D : \A e \in D : d <= e

WindowStart(w, p) ==
  IF StoredDays(w, p) = {} THEN BackfillStart ELSE Latest(StoredDays(w, p)) + 1

\* Mutants: the forming bar is requested; a day too many is given up.
LastClosedDay_Forming(d) == d
LastClosedDay_Early(d) == d - 2

LastClosedDay(d) == d - 1

\* A worker with no attempt under way.
Blank ==
  [pc |-> "idle", kind |-> "task", job |-> 0, pair |-> 1, attempt |-> 0, day |-> 0,
   ws |-> 0, we |-> 0, cursor |-> 0, tries |-> 0, asked |-> {}, fetched |-> {},
   todo |-> {}, inserted |-> 0, status |-> "success", refused |-> FALSE]

Idle(j) == [Blank EXCEPT !.job = j.job]

\* The locals ingest starts attempt n for pair p with.
FreshAttempt(j, p, n) ==
  [Blank EXCEPT !.pc = "watermark", !.kind = j.kind, !.job = j.job, !.pair = p,
                !.attempt = n, !.day = today]

\* Mutant: retries are not counted.
Raised_Endless(w) ==
  IF job[w].kind = "task" THEN FreshAttempt(job[w], job[w].pair, job[w].attempt) ELSE Idle(job[w])

\* The task raised: Prefect runs it again until its retries are used up.
Raised(w) ==
  IF job[w].kind = "task" /\ job[w].attempt < MaxRetries
  THEN FreshAttempt(job[w], job[w].pair, job[w].attempt + 1)
  ELSE Idle(job[w])

\* The audit row of w's current attempt.
Audit(w, outcome, n) ==
  [id |-> Id(w), pair |-> job[w].pair, status |-> outcome, ws |-> job[w].ws,
   we |-> job[w].we, asked |-> job[w].asked, fetched |-> job[w].fetched, inserted |-> n]

\* Mutant: candles in the vendor's order.
NextCandle_Unsorted(w) == job[w].todo

\* The candle the for loop takes next: every client returns its candles ascending.
NextCandle(w) == {d \in job[w].todo : \A e \in job[w].todo : d <= e}

\* w waits for v: v's open transaction holds the key w is about to insert.
WaitsFor(w, v) ==
  /\ v # w /\ job[w].pc = "insert"
  /\ \E d \in NextCandle(w) : Layer!Stored(txnRows[v], job[w].pair, d)

Discard(w) ==
  /\ txnRows' = [txnRows EXCEPT ![w] = {}]
  /\ txnRuns' = [txnRuns EXCEPT ![w] = {}]

Publish(w) ==
  /\ rows' = rows \cup txnRows[w]
  /\ runs' = runs \cup txnRuns[w]
  /\ Discard(w)

At(w, phase) == job[w].pc = phase

-----------------------------------------------------------------------------
(* Initial states *)

Init ==
  /\ today = 0 /\ rows = {} /\ runs = {} /\ ended = {}
  /\ txnRows = [w \in Workers |-> {}]
  /\ txnRuns = [w \in Workers |-> {}]
  /\ job = [w \in Workers |-> Blank]

-----------------------------------------------------------------------------
(* The clock and the callers *)

NewDay ==
  /\ today < LastDay
  /\ today' = today + 1
  /\ UNCHANGED <<rows, runs, txnRows, txnRuns, job, ended>>

\* flows.ingest_asset is called for p, or bronze.main is started.
StartJob(w, kind, p) ==
  /\ At(w, "idle") /\ job[w].job < MaxJobs
  /\ kind \in Kinds /\ (kind = "main" => p = 1)
  /\ job' = [job EXCEPT ![w] =
               FreshAttempt([@ EXCEPT !.kind = kind, !.job = job[w].job + 1], p, 0)]
  /\ UNCHANGED <<today, rows, runs, txnRows, txnRuns, ended>>

\* Where the caller goes once ingest has returned: the task closes its connection,
\* bronze.main keeps it for the next pair.
Returned(w, j) ==
  IF j.kind = "main" /\ j.pair < NPairs THEN FreshAttempt(j, j.pair + 1, 0)
  ELSE [j EXCEPT !.pc = "leave"]

ReturnsNow(w) == IF job[w].kind = "main" THEN {Id(w)} ELSE {}

\* get_client finds no API key: bronze.main goes on with the next pair.  The task is
\* not called without a key.
SkipPair(w) ==
  /\ At(w, "watermark") /\ job[w].kind = "main" /\ "key" \in Faults
  /\ job' = [job EXCEPT ![w] = Returned(w, @)]
  /\ UNCHANGED <<today, rows, runs, txnRows, txnRuns, ended>>

\* The watermark and the window.  An empty window asks the vendor nothing.
ReadWatermark(w) ==
  /\ At(w, "watermark")
  /\ LET ws == WindowStart(w, job[w].pair)
         we == LastClosedDay(job[w].day)
     IN job' = [job EXCEPT ![w] =
          [@ EXCEPT !.ws = ws, !.we = we, !.cursor = ws,
                    !.pc = IF ws <= we THEN "fetch" ELSE "insert"]]
  /\ UNCHANGED <<today, rows, runs, txnRows, txnRuns, ended>>

-----------------------------------------------------------------------------
(* The vendor's answers to one request *)

PageEnd(j) ==
  IF j.cursor + PageSpan[j.pair] <= j.we THEN j.cursor + PageSpan[j.pair] ELSE j.we

\* Mutant: the next page starts a day late.
PageArrives_Stride(w, page) ==
  LET j == job[w]
      got == j.fetched \cup {d \in page : j.ws <= d /\ d <= j.we}
      next == PageEnd(j) + 2
  IN /\ At(w, "fetch")
     /\ job' = [job EXCEPT ![w] =
          [@ EXCEPT !.asked = job[w].asked \cup (j.cursor .. PageEnd(j)),
                    !.fetched = got, !.cursor = next, !.tries = 0,
                    !.todo = IF next > j.we THEN got ELSE {},
                    !.pc = IF next > j.we THEN "insert" ELSE "fetch"]]
     /\ UNCHANGED <<today, rows, runs, txnRows, txnRuns, ended>>

\* A page arrives.  The vendor may leave days out and may send bars nobody asked
\* for, the forming one among them; the client keeps those inside the window.
PageArrives(w, page) ==
  LET j == job[w]
      got == j.fetched \cup {d \in page : j.ws <= d /\ d <= j.we}
      next == PageEnd(j) + 1
  IN /\ At(w, "fetch")
     /\ job' = [job EXCEPT ![w] =
          [@ EXCEPT !.asked = job[w].asked \cup (j.cursor .. PageEnd(j)),
                    !.fetched = got, !.cursor = next, !.tries = 0,
                    !.todo = IF next > j.we THEN got ELSE {},
                    !.pc = IF next > j.we THEN "insert" ELSE "fetch"]]
     /\ UNCHANGED <<today, rows, runs, txnRows, txnRuns, ended>>

\* An exception out of fetch_candles: candles keeps its initial, empty value.
FetchFails(w, refused) ==
  /\ job' = [job EXCEPT ![w] =
       [@ EXCEPT !.fetched = {}, !.todo = {}, !.status = "failed", !.refused = refused,
                 !.pc = "insert"]]
  /\ UNCHANGED <<today, rows, runs, txnRows, txnRuns, ended>>

\* A 5xx is asked again after a pause until MAX_TRIES requests have been made.
ServerError(w) ==
  /\ At(w, "fetch") /\ "http" \in Faults
  /\ IF job[w].tries + 1 < MaxTries
     THEN /\ job' = [job EXCEPT ![w] = [@ EXCEPT !.tries = job[w].tries + 1]]
          /\ UNCHANGED <<today, rows, runs, txnRows, txnRuns, ended>>
     ELSE FetchFails(w, FALSE)

\* Any other 4xx, a refused connection, a payload that does not parse.
RequestFails(w) ==
  /\ At(w, "fetch") /\ "http" \in Faults
  /\ FetchFails(w, FALSE)

\* 429, 401 or 403: never asked again.
Refusal(w) ==
  /\ At(w, "fetch") /\ "refusal" \in Faults
  /\ FetchFails(w, TRUE)

-----------------------------------------------------------------------------
(* The write *)

\* Mutant: every candle is counted, conflicts too.
InsertCandle_CountsAll(w) ==
  /\ At(w, "insert")
  /\ \E d \in NextCandle(w) :
       LET p == job[w].pair
           isNew == ~Layer!Stored(Visible(w), p, d)
       IN /\ \A v \in Workers \ {w} : ~Layer!Stored(txnRows[v], p, d)
          /\ job' = [job EXCEPT ![w] =
               [@ EXCEPT !.todo = job[w].todo \ {d}, !.inserted = job[w].inserted + 1]]
          /\ txnRows' = [txnRows EXCEPT ![w] =
               IF isNew THEN @ \cup {[pair |-> p, day |-> d, run |-> Id(w)]} ELSE @]
  /\ UNCHANGED <<today, rows, runs, txnRuns, ended>>

\* INSERT ... ON CONFLICT DO NOTHING, once no other open transaction holds the key.
InsertCandle(w) ==
  /\ At(w, "insert")
  /\ \E d \in NextCandle(w) :
       LET p == job[w].pair
           isNew == ~Layer!Stored(Visible(w), p, d)
       IN /\ \A v \in Workers \ {w} : ~Layer!Stored(txnRows[v], p, d)
          /\ job' = [job EXCEPT ![w] =
               [@ EXCEPT !.todo = job[w].todo \ {d},
                         !.inserted = IF isNew THEN job[w].inserted + 1 ELSE job[w].inserted]]
          /\ txnRows' = [txnRows EXCEPT ![w] =
               IF isNew THEN @ \cup {[pair |-> p, day |-> d, run |-> Id(w)]} ELSE @]
  /\ UNCHANGED <<today, rows, runs, txnRuns, ended>>

\* The audit row, inserted before the candles and updated after them with the
\* count; nobody sees it before the commit, so it is added here, complete.
FinishRun(w) ==
  /\ At(w, "insert") /\ job[w].todo = {}
  /\ txnRuns' = [txnRuns EXCEPT ![w] =
                   @ \cup {Audit(w, job[w].status, job[w].inserted)}]
  /\ job' = [job EXCEPT ![w] = Returned(w, @)]
  /\ ended' = ended \cup ReturnsNow(w)
  /\ UNCHANGED <<today, rows, runs, txnRows>>

\* A statement of the write fails: the savepoint takes back this attempt's candles,
\* those of earlier pairs stay in the transaction.
WriteFails(w) ==
  /\ At(w, "insert") /\ "statement" \in Faults
  /\ txnRows' = [txnRows EXCEPT ![w] = {c \in @ : c.run # Id(w)}]
  /\ job' = [job EXCEPT ![w] =
       [@ EXCEPT !.pc = "record", !.status = "failed", !.inserted = 0, !.todo = {}]]
  /\ UNCHANGED <<today, rows, runs, txnRuns, ended>>

\* Mutant: the failure is returned, not recorded.
RecordFailedRun_Silent(w) ==
  /\ At(w, "record")
  /\ job' = [job EXCEPT ![w] = Returned(w, @)]
  /\ ended' = ended \cup ReturnsNow(w)
  /\ UNCHANGED <<today, rows, runs, txnRows, txnRuns>>

\* _record_failed_run.
RecordFailedRun(w) ==
  /\ At(w, "record")
  /\ txnRuns' = [txnRuns EXCEPT ![w] = @ \cup {Audit(w, "failed", 0)}]
  /\ job' = [job EXCEPT ![w] = Returned(w, @)]
  /\ ended' = ended \cup ReturnsNow(w)
  /\ UNCHANGED <<today, rows, runs, txnRows>>

-----------------------------------------------------------------------------
(* The end of the connection *)

\* An attempt of bronze.main is over before its connection is.
EndsNow(w) == IF At(w, "leave") /\ job[w].kind = "main" THEN {} ELSE {Id(w)}

\* The connection commits.  A task whose result failed, other than by a refusal,
\* raises after that and is retried.
Commit(w) ==
  /\ At(w, "leave")
  /\ Publish(w)
  /\ ended' = ended \cup EndsNow(w)
  /\ job' = [job EXCEPT ![w] =
       IF @.kind = "task" /\ @.status = "failed" /\ ~@.refused THEN Raised(w) ELSE Idle(@)]
  /\ UNCHANGED today

\* An exception leaves ingest: the connection rolls everything back and closes.
Escapes(w) ==
  /\ Discard(w)
  /\ job' = [job EXCEPT ![w] = Raised(w)]
  /\ ended' = ended \cup EndsNow(w)
  /\ UNCHANGED <<today, rows, runs>>

\* The watermark query fails.  ingest catches it, but the transaction is in error:
\* the savepoint of the write and the one of _record_failed_run are both refused.
WatermarkFails(w) ==
  /\ At(w, "watermark") /\ "watermark" \in Faults
  /\ Escapes(w)

\* The connection is gone when a statement needs it, or the audit of a failure fails.
ConnectionLost(w) ==
  /\ job[w].pc \in {"watermark", "insert", "record", "leave"}
  /\ "connection" \in Faults
  /\ Escapes(w)

\* The commit reaches the server and its acknowledgement does not reach the client.
CommitUnacknowledged(w) ==
  /\ At(w, "leave") /\ "connection" \in Faults
  /\ Publish(w)
  /\ job' = [job EXCEPT ![w] = Raised(w)]
  /\ ended' = ended \cup EndsNow(w)
  /\ UNCHANGED today

\* The process is killed: the server rolls back, nobody retries before the next job.
Crash(w) ==
  /\ ~At(w, "idle") /\ "crash" \in Faults
  /\ Discard(w)
  /\ job' = [job EXCEPT ![w] = Idle(@)]
  /\ UNCHANGED <<today, rows, runs, ended>>

-----------------------------------------------------------------------------

\* What the process does by itself.
Step(w) ==
  \/ SkipPair(w)
  \/ ReadWatermark(w)
  \/ \E page \in SUBSET (0 .. today) : PageArrives(w, page)
  \/ InsertCandle(w)
  \/ FinishRun(w)
  \/ RecordFailedRun(w)
  \/ Commit(w)

\* What its environment does to it.
Fault(w) ==
  \/ ServerError(w) \/ RequestFails(w) \/ Refusal(w)
  \/ WriteFails(w) \/ WatermarkFails(w)
  \/ ConnectionLost(w) \/ CommitUnacknowledged(w) \/ Crash(w)

Next ==
  \/ NewDay
  \/ \E w \in Workers : Step(w) \/ Fault(w)
  \/ \E w \in Workers, kind \in {"task", "main"}, p \in Pairs : StartJob(w, kind, p)

Spec == Init /\ [][Next]_vars

\* The process keeps running and a lock wait is served; nothing obliges the clock, a
\* new job or a fault to come.
FairSpec == Spec /\ \A w \in Workers : WF_vars(Step(w))

-----------------------------------------------------------------------------
(* Properties *)

\* The code keeps the layer's promise: every commit appends whole runs, with closed,
\* new, accounted-for rows and no unexplained hole, whatever interleaves or fails.
ImplementsLayer == Layer!Spec

\* Two connections never wait for each other: both insert ascending, pair by pair.
NoLockCycle ==
  \A S \in SUBSET Workers :
    S # {} => \E w \in S : \A v \in S : ~WaitsFor(w, v)

\* "Every attempt is audited in meta.ingest_runs, success or failure": an attempt
\* that has ended has its audit row, committed or in its caller's open transaction.
EveryAttemptAudited ==
  \A i \in ended : \E r \in runs \cup UNION {txnRuns[w] : w \in Workers} : r.id = i

\* A job ends: retries are bounded and no wait lasts.
JobsEnd == \A w \in Workers : ~At(w, "idle") ~> At(w, "idle")
=============================================================================
