--------------------------- MODULE BronzeIngestInv ---------------------------
(***************************************************************************)
(* Why BronzeIngest implements BronzeLayer: the invariant that the proof   *)
(* of BronzeIngestProofs is an induction on, checked by TLC first.         *)
(***************************************************************************)
EXTENDS BronzeIngest

\* The attempt's count and its candles are still its own.
Writing(w) == job[w].pc \in {"watermark", "fetch", "insert", "record"}

\* Audit rows name attempts that are over, and name each of them once.
FreshIds(w) ==
  /\ \A r \in txnRuns[w] : /\ r.id.by = w /\ r.id.job = job[w].job
                           /\ r.id.attempt = job[w].attempt
  /\ \A r, q \in txnRuns[w] : r.id = q.id => r = q
  /\ \A r \in txnRuns[w], q \in runs : r.id # q.id
  /\ \A r \in runs \cup txnRuns[w] :
       r.id.by = w =>
         /\ r.id.job <= job[w].job
         /\ r.id.job = job[w].job /\ ~At(w, "idle") =>
              \/ r.id.pair < job[w].pair \/ r.id.attempt < job[w].attempt
              \/ At(w, "leave") /\ r.id = Id(w) /\ r \in txnRuns[w]
  /\ job[w].kind = "main" => job[w].attempt = 0

\* A key is held once, by a committed row or by one open transaction.
KeysApart(w) ==
  /\ \A c, e \in txnRows[w] : c.pair = e.pair /\ c.day = e.day => c = e
  /\ \A c \in txnRows[w] : ~Layer!Stored(rows, c.pair, c.day)
  /\ \A v \in Workers \ {w} : \A c \in txnRows[w] : ~Layer!Stored(txnRows[v], c.pair, c.day)

\* c was fetched and accounted for by r.
AccountedBy(r, c) ==
  r.id = c.run /\ r.pair = c.pair /\ r.status = "success" /\ c.day \in r.fetched

\* An uncommitted candle is closed and belongs to the attempt under way or to a
\* finished one of the same transaction.
Attributed(w) ==
  \A c \in txnRows[w] :
    /\ c.day < today /\ c.run.pair = c.pair
    /\ \/ c.run = Id(w) /\ At(w, "insert") /\ c.day \in job[w].fetched
       \/ \E r \in txnRuns[w] : AccountedBy(r, c)

\* The candles of w's transaction that run i inserted.
InsertedBy(w, i) == {c \in txnRows[w] : c.run = i}

\* rows_inserted counts the candles the attempt has inserted.
Counted(w) ==
  /\ IsFiniteSet(txnRows[w])
  /\ \A r \in txnRuns[w] : r.inserted = Cardinality(InsertedBy(w, r.id))
  /\ Writing(w) => job[w].inserted = Cardinality(InsertedBy(w, Id(w)))

\* The window: contiguous with what is stored, closed, and every candle of the
\* answer inside it, inserted or still to come.
WindowSound(w) ==
  /\ job[w].day <= today
  /\ job[w].pc \in {"watermark", "fetch"} => job[w].status = "success"
  /\ At(w, "watermark") => job[w].fetched = {} /\ job[w].todo = {}
  /\ At(w, "fetch") => job[w].ws .. (job[w].cursor - 1) \subseteq job[w].asked
  /\ job[w].pc \in {"fetch", "insert"} =>
       /\ job[w].we < today
       /\ job[w].fetched \subseteq job[w].ws .. job[w].we
       /\ job[w].todo \subseteq job[w].fetched
       /\ Layer!NoGap(Visible(w), runs \cup txnRuns[w], job[w].pair, job[w].ws - 1)
  /\ At(w, "insert") =>
       \A d \in job[w].fetched : d \in job[w].todo \/ Layer!Stored(Visible(w), job[w].pair, d)
  /\ At(w, "insert") =>
       IF job[w].status = "success" THEN job[w].ws .. job[w].we \subseteq job[w].asked
       ELSE job[w].fetched = {}

\* A successful run of the open transaction explains every day of its window.
RunsSound(w) ==
  \A r \in txnRuns[w] :
    /\ r.pair = r.id.pair
    /\ r.status = "success" =>
         /\ r.fetched \subseteq r.ws .. r.we
         /\ Layer!NoGap(Visible(w), runs \cup txnRuns[w], r.pair, r.we)

\* Nothing is left over once the connection is closed.
Closed(w) == At(w, "idle") => txnRows[w] = {} /\ txnRuns[w] = {}

WorkerInv(w) ==
  /\ FreshIds(w) /\ KeysApart(w) /\ Attributed(w) /\ Counted(w)
  /\ WindowSound(w) /\ RunsSound(w) /\ Closed(w)

CommittedSound ==
  /\ Layer!Provenance
  /\ Layer!NoUnexplainedGap
  /\ Layer!ClosedBarsOnly
  /\ \A r \in runs : r.status = "success" => r.fetched \subseteq r.ws .. r.we

\* The inductive invariant of BronzeIngestProofs: what is committed and what every open
\* transaction holds stay accounted for and free of unexplained holes at every step of
\* every worker, between commits included.
IInv ==
  /\ TypeOK
  /\ CommittedSound
  /\ \A w \in Workers : WorkerInv(w)

-----------------------------------------------------------------------------
(* Why a job ends *)

Stage == [idle |-> 0, leave |-> 1, record |-> 2, insert |-> 3, fetch |-> 4, watermark |-> 5]

\* What lies before a worker with locals j: further pairs and retries; the stages of this
\* attempt; the days or candles of a stage that repeats; the requests left for a page.
Ahead(j) ==
  <<<<IF j.pc = "idle" THEN 0 ELSE NPairs - j.pair + MaxRetries - j.attempt + 1, Stage[j.pc]>>,
    <<CASE j.pc = "fetch"  -> j.we + 1 - j.cursor
        [] j.pc = "insert" -> Cardinality(j.todo)
        [] OTHER           -> 0,
      IF j.pc = "fetch" THEN MaxTries - j.tries ELSE 0>>>>

\* Lexicographically.
PairLess(x, y) == x[1] < y[1] \/ (x[1] = y[1] /\ x[2] < y[2])
LexLess(x, y) == PairLess(x[1], y[1]) \/ (x[1] = y[1] /\ PairLess(x[2], y[2]))

\* Retries, pages and tries are within their limits.
Limited(j) ==
  /\ j.attempt <= MaxRetries
  /\ j.pc = "fetch" => j.cursor <= j.we
  /\ j.pc \in {"watermark", "fetch"} => j.tries < MaxTries

\* Every step a worker takes in a job, whether it succeeds or fails, brings it nearer to
\* the end of the job, and nobody else's step moves it.
Descends ==
  [][\A w \in Workers :
       /\ Step(w) \/ Fault(w) => LexLess(Ahead(job'[w]), Ahead(job[w]))
       /\ ~At(w, "idle") => LexLess(Ahead(job'[w]), Ahead(job[w])) \/ job'[w] = job[w]]_vars

\* Neither itself nor anybody else is in w's way.
CanGoOn(w) ==
  /\ ~At(w, "idle")
  /\ At(w, "insert") /\ job[w].todo # {} =>
       \E d \in NextCandle(w) :
         \A v \in Workers \ {w} : ~Layer!Stored(txnRows[v], job[w].pair, d)

\* While a job runs, some job can take its next step.
SomebodyCanGoOn ==
  (\E w \in Workers : ~At(w, "idle")) => \E w \in Workers : CanGoOn(w)
=============================================================================
