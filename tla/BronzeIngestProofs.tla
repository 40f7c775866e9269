-------------------------- MODULE BronzeIngestProofs --------------------------
(***************************************************************************)
(* BronzeIngest implements BronzeLayer for every number of workers, pairs, *)
(* days and retries, whatever fails: IInv is inductive, and a commit in a  *)
(* state that satisfies it is an Append of the layer.                      *)
(*                                                                         *)
(* A step changes one worker.  FreshStart treats the steps that close its  *)
(* connection, Others the workers that did not move, and one lemma for     *)
(* each of the other actions the worker that did.  Row locks and the audit *)
(* need an invariant of their own beside it.  That jobs end is an argument *)
(* about ranks, which every step lowers; what the layer's promise is worth *)
(* comes from BronzeLayerProofs.                                           *)
(***************************************************************************)
EXTENDS BronzeIngestInv, FiniteSetTheorems, WellFoundedInduction, TLAPS

-----------------------------------------------------------------------------
(* The layer's operators, and the largest day of a bounded set *)

LEMMA NoGapMonotone ==
  ASSUME NEW S, NEW T, S \subseteq T, NEW R, NEW Q, R \subseteq Q,
         NEW p, NEW last, Layer!NoGap(S, R, p, last)
  PROVE  Layer!NoGap(T, Q, p, last)
BY DEF Layer!NoGap, Layer!Stored, Layer!Omitted

\* The Cardinality that the layer's module brings in is the one this module has.
LEMMA SameCardinality ==
  ASSUME NEW S
  PROVE  Layer!Cardinality(S) = Cardinality(S)
BY DEF Layer!Cardinality, Cardinality

LEMMA LatestExists ==
  ASSUME NEW D \in SUBSET Nat, D # {}, NEW b \in Nat, \A d \in D : d <= b
  PROVE  Latest(D) \in D /\ \A e \in D : e <= Latest(D)
<1> DEFINE Less == OpToRel(<, Nat)
           T == {n \in Nat : \E d \in D : n = b - d}
<1>1. T # {} /\ T \subseteq Nat
  <2>1. PICK d \in D : TRUE
    OBVIOUS
  <2>2. b - d \in T
    BY <2>1
  <2> QED
    BY <2>2
<1>2. PICK x \in T : \A y \in T : ~ (<<y, x>> \in Less)
  <2> HIDE DEF T
  <2>1. IsWellFoundedOn(Less, Nat)
    BY NatLessThanWellFounded
  <2> HIDE DEF Less
  <2> QED
    BY <1>1, <2>1, WFMin
<1>3. \A y \in T : x <= y
  <2> SUFFICES ASSUME NEW y \in T, y < x PROVE FALSE
    BY <1>1
  <2>1. <<y, x>> \in Less
    BY DEF OpToRel
  <2> QED
    BY <1>2, <2>1
<1>4. PICK d \in D : x = b - d
  OBVIOUS
<1>5. \A e \in D : e <= d
  <2> TAKE e \in D
  <2>1. b - e \in T
    OBVIOUS
  <2> QED
    BY <1>3, <1>4, <2>1
<1> QED
  BY <1>5 DEF Latest

LEMMA IdTyped ==
  ASSUME TypeOK, NEW w \in Workers
  PROVE  /\ Id(w) \in RunId
         /\ Id(w).by = w /\ Id(w).job = job[w].job
         /\ Id(w).pair = job[w].pair /\ Id(w).attempt = job[w].attempt
BY DEF TypeOK, Job, Id, RunId

LEMMA IdleTyped ==
  ASSUME NEW j \in Job
  PROVE  /\ Idle(j) \in Job
         /\ Idle(j).job = j.job /\ Idle(j).pc = "idle" /\ Idle(j).kind = "task"
         /\ Idle(j).fetched = {} /\ Idle(j).todo = {} /\ Idle(j).inserted = 0
         /\ Idle(j).status = "success" /\ Idle(j).day = 0
<1>1. 1 \in Pairs
  BY IngestAssumption DEF Pairs
<1>2. Blank \in Job
  BY <1>1 DEF Blank, Job, Phases
<1>3. j.job \in Nat
  BY DEF Job
<1>4. Idle(j) \in Job
  BY <1>2, <1>3 DEF Idle, Job
<1> QED
  BY <1>4 DEF Idle, Blank

LEMMA FreshAttemptTyped ==
  ASSUME NEW j \in Job, NEW p \in Pairs, NEW n \in Nat, today \in Nat,
         NEW f, f = FreshAttempt(j, p, n)
  PROVE  /\ f \in Job
         /\ f.pc = "watermark" /\ f.kind = j.kind /\ f.job = j.job /\ f.pair = p
         /\ f.attempt = n /\ f.day = today
         /\ f.fetched = {} /\ f.todo = {} /\ f.inserted = 0 /\ f.status = "success"
<1>1. j.job \in Nat /\ j.kind \in {"task", "main"}
  BY DEF Job
<1>2. FreshAttempt(j, p, n) \in Job
  BY <1>1 DEF FreshAttempt, Blank, Job, Phases
<1> QED
  BY <1>2 DEF FreshAttempt, Blank

-----------------------------------------------------------------------------
(* The workers that did not move *)

\* What another worker does, and the clock, leave v's part of the invariant alone: rows
\* and runs only grow, by what another transaction held, and no key of v's is taken.
LEMMA Others ==
  ASSUME IInv, NEW v \in Workers,
         today' \in Nat, today <= today',
         job'[v] = job[v], txnRows'[v] = txnRows[v], txnRuns'[v] = txnRuns[v],
         rows \subseteq rows', runs \subseteq runs',
         \A r \in runs' \ runs : r.id.by # v,
         \A c \in rows' \ rows : \E u \in Workers \ {v} : c \in txnRows[u],
         \A u \in Workers \ {v} : \A c \in txnRows'[u] :
           c \in txnRows[u] \/ ~Layer!Stored(txnRows[v], c.pair, c.day)
  PROVE  WorkerInv(v)'
<1>1. TypeOK /\ WorkerInv(v)
  BY DEF IInv
<1>2. FreshIds(v)'
  BY <1>1 DEF WorkerInv, FreshIds, At, Id, TypeOK, Job
<1>3. KeysApart(v)'
  <2>1. \A c, e \in txnRows'[v] : c.pair = e.pair /\ c.day = e.day => c = e
    BY <1>1 DEF WorkerInv, KeysApart
  <2>2. ASSUME NEW c \in txnRows'[v] PROVE ~Layer!Stored(rows', c.pair, c.day)
    BY <2>2, <1>1 DEF WorkerInv, KeysApart, Layer!Stored
  <2>3. ASSUME NEW u \in Workers \ {v}, NEW c \in txnRows'[v]
        PROVE  ~Layer!Stored(txnRows'[u], c.pair, c.day)
    BY <2>3, <1>1 DEF WorkerInv, KeysApart, Layer!Stored
  <2> QED
    BY <2>1, <2>2, <2>3 DEF KeysApart
<1>4. Attributed(v)'
  <2>1. \A c \in txnRows[v] : c.day \in Nat
    BY <1>1 DEF TypeOK, Candle
  <2> QED
    BY <1>1, <2>1 DEF WorkerInv, Attributed, AccountedBy, At, Id, TypeOK
<1>5. Counted(v)'
  BY <1>1 DEF WorkerInv, Counted, InsertedBy, Writing, Id
<1>6. Visible(v) \subseteq Visible(v)' /\ runs \cup txnRuns[v] \subseteq (runs \cup txnRuns[v])'
  BY DEF Visible
<1>7. WindowSound(v)'
  <2>1. job[v].day \in Nat /\ job[v].we \in Nat \cup {-1} /\ today \in Nat
    BY <1>1 DEF TypeOK, Job
  <2>2. ASSUME job[v].pc \in {"fetch", "insert"}
        PROVE  Layer!NoGap(Visible(v)', (runs \cup txnRuns[v])', job[v].pair, job[v].ws - 1)
    BY <1>1, <1>6, <2>2, NoGapMonotone DEF WorkerInv, WindowSound
  <2>3. ASSUME NEW d, Layer!Stored(Visible(v), job[v].pair, d)
        PROVE  Layer!Stored(Visible(v)', job[v].pair, d)
    BY <1>6, <2>3 DEF Layer!Stored
  <2> QED
    BY <1>1, <2>1, <2>2, <2>3 DEF WorkerInv, WindowSound, At
<1>8. RunsSound(v)'
  <2>1. ASSUME NEW r \in txnRuns[v], r.status = "success"
        PROVE  Layer!NoGap(Visible(v)', (runs \cup txnRuns[v])', r.pair, r.we)
    BY <1>1, <1>6, <2>1, NoGapMonotone DEF WorkerInv, RunsSound
  <2> QED
    BY <1>1, <2>1 DEF WorkerInv, RunsSound
<1>9. Closed(v)'
  BY <1>1 DEF WorkerInv, Closed, At
<1> QED
  BY <1>2, <1>3, <1>4, <1>5, <1>7, <1>8, <1>9 DEF WorkerInv

-----------------------------------------------------------------------------
(* The worker whose connection closed *)

\* Committed or rolled back, w holds nothing any more, and a further attempt has a
\* number no audit row has.
LEMMA FreshStart ==
  ASSUME IInv, NEW w \in Workers, ~At(w, "idle"),
         today' = today, txnRows'[w] = {}, txnRuns'[w] = {},
         job'[w] \in {Raised(w), Idle(job[w])},
         runs' \subseteq runs \cup txnRuns[w]
  PROVE  WorkerInv(w)' /\ job'[w] \in Job
<1>1. TypeOK /\ WorkerInv(w)
  BY DEF IInv
<1>2. job[w] \in Job /\ today \in Nat
  BY <1>1 DEF TypeOK
<1>3. /\ job'[w] \in Job
      /\ job'[w].job = job[w].job
      /\ job'[w].fetched = {} /\ job'[w].todo = {} /\ job'[w].inserted = 0
      /\ job'[w].status = "success" /\ job'[w].day <= today
      /\ \/ job'[w].pc = "idle" /\ job'[w].kind = "task"
         \/ /\ job'[w].pc = "watermark" /\ job'[w].kind = "task"
            /\ job'[w].pair = job[w].pair /\ job'[w].attempt = job[w].attempt + 1
  <2>1. CASE job'[w] = Idle(job[w])
    BY <2>1, <1>2, IdleTyped
  <2>2. CASE job'[w] = Raised(w) /\ job[w].kind = "task" /\ job[w].attempt < MaxRetries
    <3>1. job'[w] = FreshAttempt(job[w], job[w].pair, job[w].attempt + 1)
      BY <2>2 DEF Raised
    <3>2. job[w].pair \in Pairs /\ job[w].attempt + 1 \in Nat
      BY <1>2 DEF Job
    <3>3. /\ job'[w] \in Job
          /\ job'[w].pc = "watermark" /\ job'[w].kind = job[w].kind
          /\ job'[w].job = job[w].job /\ job'[w].pair = job[w].pair
          /\ job'[w].attempt = job[w].attempt + 1 /\ job'[w].day = today
          /\ job'[w].fetched = {} /\ job'[w].todo = {} /\ job'[w].inserted = 0
          /\ job'[w].status = "success"
      BY <1>2, <3>1, <3>2, FreshAttemptTyped
    <3> QED
      BY <2>2, <1>2, <3>3
  <2>3. CASE job'[w] = Raised(w) /\ ~(job[w].kind = "task" /\ job[w].attempt < MaxRetries)
    BY <2>1, <2>3 DEF Raised
  <2> QED
    BY <2>1, <2>2, <2>3
<1>4. FreshIds(w)'
  <2>1. ASSUME NEW r \in runs', r.id.by = w
        PROVE  /\ r.id.job <= job'[w].job
               /\ r.id.job = job'[w].job /\ job'[w].pc # "idle" =>
                    r.id.pair < job'[w].pair \/ r.id.attempt < job'[w].attempt
    <3>1. r.id \in RunId
      BY <1>1 DEF TypeOK, AuditRow
    <3>2. /\ r.id.job <= job[w].job
          /\ r.id.job = job[w].job =>
               \/ r.id.pair < job[w].pair \/ r.id.attempt < job[w].attempt
               \/ r.id.attempt = job[w].attempt
      BY <2>1, <1>1, IdTyped DEF WorkerInv, FreshIds
    <3> QED
      BY <1>2, <1>3, <3>1, <3>2 DEF RunId, Job
  <2> QED
    BY <2>1, <1>3 DEF FreshIds, At
<1>5. KeysApart(w)' /\ Attributed(w)' /\ RunsSound(w)' /\ Closed(w)'
  BY DEF KeysApart, Attributed, RunsSound, Closed
<1>6. Counted(w)'
  <2>1. \A i : InsertedBy(w, i)' = {}
    BY DEF InsertedBy
  <2> QED
    BY <1>3, <2>1, FS_EmptySet DEF Counted, InsertedBy
<1>7. WindowSound(w)'
  BY <1>3 DEF WindowSound, At
<1> QED
  BY <1>3, <1>4, <1>5, <1>6, <1>7 DEF WorkerInv

-----------------------------------------------------------------------------
(* The worker that moves: before the write *)

\* Between the watermark and the write w touches only its own locals: all that is left
\* to show of it is its window.
LEMMA SameAttempt ==
  ASSUME IInv, NEW w \in Workers, job[w].pc \in {"watermark", "fetch"},
         UNCHANGED <<today, rows, runs, txnRows, txnRuns, ended>>,
         NEW j \in Job, job' = [job EXCEPT ![w] = j],
         j.kind = job[w].kind, j.job = job[w].job, j.pair = job[w].pair,
         j.attempt = job[w].attempt, j.inserted = job[w].inserted,
         j.pc \in {"fetch", "insert"},
         WindowSound(w)'
  PROVE  TypeOK' /\ WorkerInv(w)'
<1>1. TypeOK /\ WorkerInv(w)
  BY DEF IInv
<1>2. job'[w] = j
  BY <1>1 DEF TypeOK
<1>3. TypeOK'
  BY <1>1 DEF TypeOK
<1>4. Id(w)' = Id(w)
  BY <1>2 DEF Id
<1>5. FreshIds(w)'
  BY <1>1, <1>2, <1>4 DEF WorkerInv, FreshIds, At
<1>6. KeysApart(w)' /\ RunsSound(w)' /\ Closed(w)'
  BY <1>1, <1>2 DEF WorkerInv, KeysApart, RunsSound, Visible, Closed, At
<1>7. Attributed(w)'
  BY <1>1, <1>2, <1>4 DEF WorkerInv, Attributed, AccountedBy, At
<1>8. Counted(w)'
  BY <1>1, <1>2, <1>4 DEF WorkerInv, Counted, InsertedBy, Writing
<1> QED
  BY <1>3, <1>5, <1>6, <1>7, <1>8 DEF WorkerInv

\* The window starts right after what is stored, and nothing below it is unexplained:
\* the newest bar came with a run whose whole window is explained.
LEMMA WindowStartSound ==
  ASSUME IInv, NEW w \in Workers, At(w, "watermark"), NEW p
  PROVE  /\ WindowStart(w, p) \in Nat
         /\ Layer!NoGap(Visible(w), runs \cup txnRuns[w], p, WindowStart(w, p) - 1)
<1>1. TypeOK /\ WorkerInv(w) /\ CommittedSound
  BY DEF IInv
<1>2. BackfillStart \in Nat
  BY IngestAssumption
<1>3. CASE StoredDays(w, p) = {}
  BY <1>2, <1>3 DEF WindowStart, Layer!NoGap
<1>4. CASE StoredDays(w, p) # {}
  <2>1. ASSUME NEW c \in Visible(w) PROVE c.day \in Nat /\ c.day <= today /\ today \in Nat
    <3>1. CASE c \in rows
      BY <1>1, <3>1 DEF CommittedSound, Layer!ClosedBarsOnly, TypeOK, Candle
    <3>2. CASE c \in txnRows[w]
      BY <1>1, <3>2 DEF WorkerInv, Attributed, TypeOK, Candle
    <3> QED
      BY <2>1, <3>1, <3>2 DEF Visible
  <2>2. StoredDays(w, p) \in SUBSET Nat /\ \A d \in StoredDays(w, p) : d <= today
    BY <2>1 DEF StoredDays
  <2>3. today \in Nat
    BY <1>1 DEF TypeOK
  <2> DEFINE m == Latest(StoredDays(w, p))
  <2>4. m \in StoredDays(w, p)
    BY <1>4, <2>2, <2>3, LatestExists
  <2>5. m \in Nat /\ WindowStart(w, p) = m + 1
    BY <1>4, <2>2, <2>4 DEF WindowStart
  <2>6. PICK c \in Visible(w) : c.pair = p /\ c.day = m
    BY <2>4 DEF StoredDays
  <2> HIDE DEF m
  <2>7. PICK r \in runs \cup txnRuns[w] :
               /\ r.pair = p /\ m \in r.ws .. r.we /\ r.we \in Int
               /\ Layer!NoGap(Visible(w), runs \cup txnRuns[w], p, r.we)
    <3>1. CASE c \in rows
      <4>1. PICK r \in runs : r.pair = p /\ r.status = "success" /\ m \in r.fetched
        BY <1>1, <2>6, <3>1 DEF CommittedSound, Layer!Provenance
      <4>2. Layer!NoGap(rows, runs, p, r.we) /\ r.fetched \subseteq r.ws .. r.we
        BY <1>1, <4>1 DEF CommittedSound, Layer!NoUnexplainedGap
      <4>3. Layer!NoGap(Visible(w), runs \cup txnRuns[w], p, r.we)
        BY <4>2, NoGapMonotone DEF Visible
      <4>4. r.we \in Int
        BY <1>1 DEF TypeOK, AuditRow
      <4> QED
        BY <4>1, <4>2, <4>3, <4>4
    <3>2. CASE c \in txnRows[w]
      <4>1. PICK r \in txnRuns[w] : AccountedBy(r, c)
        BY <1>1, <3>2 DEF WorkerInv, Attributed, At
      <4>2. r.we \in Int
        BY <1>1 DEF TypeOK, AuditRow
      <4> QED
        BY <1>1, <2>6, <4>1, <4>2 DEF AccountedBy, WorkerInv, RunsSound
    <3> QED
      BY <3>1, <3>2 DEF Visible
  <2>8. BackfillStart .. (WindowStart(w, p) - 1) \subseteq BackfillStart .. r.we
    BY <1>1, <1>2, <2>5, <2>7 DEF TypeOK, AuditRow
  <2>9. Layer!NoGap(Visible(w), runs \cup txnRuns[w], p, WindowStart(w, p) - 1)
    BY <2>7, <2>8 DEF Layer!NoGap
  <2> QED
    BY <2>5, <2>9
<1> QED
  BY <1>3, <1>4

LEMMA StartJobInv ==
  ASSUME IInv, NEW w \in Workers, NEW kind, NEW p \in Pairs, StartJob(w, kind, p)
  PROVE  TypeOK' /\ WorkerInv(w)'
<1>1. TypeOK /\ WorkerInv(w) /\ job[w] \in Job /\ today \in Nat
  BY DEF IInv, TypeOK
<1> DEFINE from == [job[w] EXCEPT !.kind = kind, !.job = job[w].job + 1]
<1>2. from \in Job /\ from.job = job[w].job + 1 /\ from.kind = kind /\ job[w].job \in Nat
  <2>1. kind \in {"task", "main"} /\ job[w].job \in Nat
    BY <1>1, IngestAssumption DEF StartJob, Job
  <2>2. job[w].job + 1 \in Nat
    BY <2>1
  <2>3. from \in Job
    BY <1>1, <2>1, <2>2 DEF Job
  <2>4. from.job = job[w].job + 1 /\ from.kind = kind
    BY <1>1 DEF Job
  <2> QED
    BY <2>1, <2>3, <2>4
<1>3. job' = [job EXCEPT ![w] = FreshAttempt(from, p, 0)]
  BY <1>1 DEF StartJob, TypeOK
<1>4. job'[w] = FreshAttempt(from, p, 0)
  BY <1>1, <1>3 DEF TypeOK
<1> HIDE DEF from
<1>5. /\ job'[w] \in Job /\ job'[w].pc = "watermark" /\ job'[w].job = job[w].job + 1
      /\ job'[w].attempt = 0 /\ job'[w].day = today /\ job'[w].fetched = {}
      /\ job'[w].todo = {} /\ job'[w].inserted = 0 /\ job'[w].status = "success"
  BY <1>1, <1>2, <1>4, FreshAttemptTyped
<1>6. TypeOK'
  BY <1>1, <1>3, <1>4, <1>5 DEF StartJob, TypeOK
<1>7. txnRows'[w] = {} /\ txnRuns'[w] = {}
  BY <1>1 DEF StartJob, WorkerInv, Closed
<1>8. FreshIds(w)'
  <2>1. ASSUME NEW r \in runs, r.id.by = w PROVE r.id.job <= job[w].job /\ r.id.job \in Nat
    BY <1>1, <2>1 DEF WorkerInv, FreshIds, TypeOK, AuditRow, RunId
  <2>2. runs' = runs
    BY DEF StartJob
  <2> QED
    BY <1>2, <1>5, <1>7, <2>1, <2>2 DEF FreshIds
<1>9. KeysApart(w)' /\ Attributed(w)' /\ RunsSound(w)' /\ Closed(w)'
  BY <1>7 DEF KeysApart, Attributed, RunsSound, Closed
<1>10. Counted(w)'
  <2>1. \A i : InsertedBy(w, i)' = {}
    BY <1>7 DEF InsertedBy
  <2> QED
    BY <1>5, <1>7, <2>1, FS_EmptySet DEF Counted, InsertedBy
<1>11. WindowSound(w)'
  BY <1>1, <1>5 DEF WindowSound, At, StartJob
<1> QED
  BY <1>6, <1>8, <1>9, <1>10, <1>11 DEF WorkerInv

LEMMA ReadWatermarkInv ==
  ASSUME IInv, NEW w \in Workers, ReadWatermark(w)
  PROVE  TypeOK' /\ WorkerInv(w)'
<1>1. TypeOK /\ WorkerInv(w) /\ job[w] \in Job /\ today \in Nat
  BY DEF IInv, TypeOK
<1> DEFINE ws == WindowStart(w, job[w].pair)
           we == LastClosedDay(job[w].day)
           j == [job[w] EXCEPT !.ws = ws, !.we = we, !.cursor = ws,
                               !.pc = IF ws <= we THEN "fetch" ELSE "insert"]
<1>2. ws \in Nat /\ Layer!NoGap(Visible(w), runs \cup txnRuns[w], job[w].pair, ws - 1)
  BY WindowStartSound DEF ReadWatermark
<1>3. we \in Nat \cup {-1} /\ we < today
  BY <1>1 DEF LastClosedDay, Job, WorkerInv, WindowSound
<1>4. job' = [job EXCEPT ![w] = j] /\ job'[w] = j
  BY <1>1 DEF ReadWatermark, TypeOK
<1> HIDE DEF ws, we
<1>5. j \in Job
  BY <1>1, <1>2, <1>3 DEF Job, Phases
<1>6. /\ j.kind = job[w].kind /\ j.job = job[w].job /\ j.pair = job[w].pair
      /\ j.attempt = job[w].attempt /\ j.inserted = job[w].inserted /\ j.day = job[w].day
      /\ j.status = job[w].status /\ j.fetched = job[w].fetched /\ j.todo = job[w].todo
      /\ j.ws = ws /\ j.we = we /\ j.cursor = ws /\ j.asked = job[w].asked
      /\ j.pc = IF ws <= we THEN "fetch" ELSE "insert"
  BY <1>1 DEF Job
<1> HIDE DEF j
<1>7. /\ job[w].fetched = {} /\ job[w].todo = {} /\ job[w].status = "success"
      /\ job[w].day <= today /\ At(w, "watermark")
  BY <1>1 DEF ReadWatermark, WorkerInv, WindowSound, At
<1>8. UNCHANGED <<today, rows, runs, txnRows, txnRuns, ended>>
  BY DEF ReadWatermark
<1>9. ws .. (ws - 1) = {} /\ (~(ws <= we) => ws .. we = {})
  BY <1>2, <1>3
<1>10. WindowSound(w)'
  BY <1>2, <1>3, <1>4, <1>6, <1>7, <1>8, <1>9 DEF WindowSound, At, Visible
<1> QED
  BY <1>4, <1>5, <1>6, <1>7, <1>8, <1>10, SameAttempt DEF At

LEMMA PageArrivesInv ==
  ASSUME IInv, NEW w \in Workers, NEW page \in SUBSET (0 .. today), PageArrives(w, page)
  PROVE  TypeOK' /\ WorkerInv(w)'
<1>1. TypeOK /\ WorkerInv(w) /\ job[w] \in Job /\ today \in Nat
  BY DEF IInv, TypeOK
<1> DEFINE got == job[w].fetched \cup {d \in page : job[w].ws <= d /\ d <= job[w].we}
           next == PageEnd(job[w]) + 1
           covered == job[w].asked \cup (job[w].cursor .. PageEnd(job[w]))
           j == [job[w] EXCEPT !.asked = covered, !.fetched = got, !.cursor = next, !.tries = 0,
                               !.todo = IF next > job[w].we THEN got ELSE {},
                               !.pc = IF next > job[w].we THEN "insert" ELSE "fetch"]
<1>2. job' = [job EXCEPT ![w] = j] /\ job'[w] = j
  BY <1>1 DEF PageArrives, TypeOK
<1>3. /\ At(w, "fetch") /\ job[w].status = "success" /\ job[w].day <= today
      /\ job[w].we < today /\ job[w].fetched \subseteq job[w].ws .. job[w].we
      /\ Layer!NoGap(Visible(w), runs \cup txnRuns[w], job[w].pair, job[w].ws - 1)
  BY <1>1 DEF PageArrives, WorkerInv, WindowSound, At
<1>4. job[w].ws \in Nat /\ job[w].we \in Int
  BY <1>1 DEF Job
<1>5. got \in SUBSET Nat /\ got \subseteq job[w].ws .. job[w].we
  BY <1>3, <1>4
<1>6. /\ next \in Nat /\ covered \in SUBSET Nat
      /\ job[w].ws .. (next - 1) \subseteq covered
      /\ next > job[w].we => job[w].ws .. job[w].we \subseteq covered
  <2>1. PageSpan[job[w].pair] \in Nat
    BY <1>1, IngestAssumption DEF Job, Pairs
  <2>2. job[w].cursor \in Nat /\ job[w].asked \in SUBSET Nat
    BY <1>1 DEF Job
  <2>3. PageEnd(job[w]) \in Int /\ next \in Nat /\ next = PageEnd(job[w]) + 1
    BY <1>1, <2>1 DEF PageEnd, Job
  <2>4. job[w].ws .. (job[w].cursor - 1) \subseteq job[w].asked
    BY <1>1 DEF PageArrives, WorkerInv, WindowSound, At
  <2>5. job[w].ws .. (next - 1) \subseteq covered
    <3> SUFFICES ASSUME NEW d \in job[w].ws .. (next - 1), d \notin job[w].asked
                 PROVE  d \in job[w].cursor .. PageEnd(job[w])
      OBVIOUS
    <3> HIDE DEF next
    <3>1. d \in Int /\ job[w].ws <= d /\ d <= PageEnd(job[w])
      BY <1>4, <2>3
    <3>2. ~(d <= job[w].cursor - 1)
      BY <1>4, <2>2, <2>4, <3>1
    <3> QED
      BY <2>2, <2>3, <3>1, <3>2
  <2> HIDE DEF next, covered
  <2>6. next > job[w].we => job[w].ws .. job[w].we \subseteq job[w].ws .. (next - 1)
    BY <1>4, <2>3
  <2>7. covered \in SUBSET Nat
    BY <2>2, <2>3 DEF covered
  <2> QED
    BY <2>3, <2>5, <2>6, <2>7
<1> HIDE DEF got, next, covered
<1>7. j \in Job
  BY <1>1, <1>5, <1>6 DEF Job, Phases
<1>8. /\ j.kind = job[w].kind /\ j.job = job[w].job /\ j.pair = job[w].pair
      /\ j.attempt = job[w].attempt /\ j.inserted = job[w].inserted /\ j.day = job[w].day
      /\ j.status = job[w].status /\ j.fetched = got /\ j.ws = job[w].ws /\ j.we = job[w].we
      /\ j.asked = covered /\ j.cursor = next
      /\ \/ next > job[w].we /\ j.pc = "insert" /\ j.todo = got
         \/ j.pc = "fetch" /\ j.todo = {}
  BY <1>1 DEF Job
<1> HIDE DEF j
<1>9. UNCHANGED <<today, rows, runs, txnRows, txnRuns, ended>>
  BY DEF PageArrives
<1>10. WindowSound(w)'
  BY <1>2, <1>3, <1>5, <1>6, <1>8, <1>9 DEF WindowSound, At, Visible
<1> QED
  BY <1>2, <1>3, <1>7, <1>8, <1>9, <1>10, SameAttempt DEF At

LEMMA FetchFailsInv ==
  ASSUME IInv, NEW w \in Workers, At(w, "fetch"), NEW refused \in BOOLEAN, FetchFails(w, refused)
  PROVE  TypeOK' /\ WorkerInv(w)'
<1>1. TypeOK /\ WorkerInv(w) /\ job[w] \in Job
  BY DEF IInv, TypeOK
<1> DEFINE j == [job[w] EXCEPT !.fetched = {}, !.todo = {}, !.status = "failed",
                               !.refused = refused, !.pc = "insert"]
<1>2. job' = [job EXCEPT ![w] = j] /\ job'[w] = j
  BY <1>1 DEF FetchFails, TypeOK
<1>3. j \in Job
  BY <1>1 DEF Job, Phases
<1>4. /\ j.kind = job[w].kind /\ j.job = job[w].job /\ j.pair = job[w].pair
      /\ j.attempt = job[w].attempt /\ j.inserted = job[w].inserted /\ j.day = job[w].day
      /\ j.status = "failed" /\ j.fetched = {} /\ j.todo = {}
      /\ j.ws = job[w].ws /\ j.we = job[w].we /\ j.pc = "insert"
  BY <1>1 DEF Job
<1> HIDE DEF j
<1>5. UNCHANGED <<today, rows, runs, txnRows, txnRuns, ended>>
  BY DEF FetchFails
<1>6. WindowSound(w)'
  BY <1>1, <1>2, <1>4, <1>5 DEF WorkerInv, WindowSound, At, Visible
<1> QED
  BY <1>2, <1>3, <1>4, <1>5, <1>6, SameAttempt DEF At

LEMMA ServerErrorInv ==
  ASSUME IInv, NEW w \in Workers, ServerError(w)
  PROVE  TypeOK' /\ WorkerInv(w)'
<1>1. TypeOK /\ WorkerInv(w) /\ job[w] \in Job /\ At(w, "fetch")
  BY DEF IInv, TypeOK, ServerError
<1>2. CASE FetchFails(w, FALSE)
  BY <1>1, <1>2, FetchFailsInv
<1>3. CASE ~FetchFails(w, FALSE)
  <2> DEFINE j == [job[w] EXCEPT !.tries = job[w].tries + 1]
  <2>1. /\ job' = [job EXCEPT ![w] = j] /\ job'[w] = j
        /\ UNCHANGED <<today, rows, runs, txnRows, txnRuns, ended>>
    BY <1>1, <1>3 DEF ServerError, TypeOK
  <2>2. j \in Job
    BY <1>1 DEF Job
  <2>3. /\ j.kind = job[w].kind /\ j.job = job[w].job /\ j.pair = job[w].pair
        /\ j.attempt = job[w].attempt /\ j.inserted = job[w].inserted /\ j.day = job[w].day
        /\ j.status = job[w].status /\ j.fetched = job[w].fetched /\ j.todo = job[w].todo
        /\ j.ws = job[w].ws /\ j.we = job[w].we /\ j.pc = "fetch"
        /\ j.asked = job[w].asked /\ j.cursor = job[w].cursor
    BY <1>1 DEF Job, At
  <2> HIDE DEF j
  <2>4. WindowSound(w)'
    BY <1>1, <2>1, <2>3 DEF WorkerInv, WindowSound, At, Visible
  <2> QED
    BY <1>1, <2>1, <2>2, <2>3, <2>4, SameAttempt DEF At
<1> QED
  BY <1>2, <1>3

-----------------------------------------------------------------------------
(* The worker that moves: the write *)

\* Until it is recorded an attempt is named by no audit row, and the rows its
\* transaction holds are those of earlier pairs.
LEMMA NotYetRecorded ==
  ASSUME IInv, NEW w \in Workers, Writing(w)
  PROVE  /\ \A r \in runs \cup txnRuns[w] : r.id # Id(w)
         /\ \A r \in txnRuns[w] : r.id.pair < job[w].pair
<1>1. TypeOK /\ WorkerInv(w) /\ job[w] \in Job
  BY DEF IInv, TypeOK
<1>2. job[w].pc \notin {"idle", "leave"}
  BY DEF Writing
<1>3. /\ Id(w).by = w /\ Id(w).job = job[w].job
      /\ Id(w).pair = job[w].pair /\ Id(w).attempt = job[w].attempt
  BY <1>1, IdTyped
<1>4. job[w].pair \in Nat /\ job[w].attempt \in Nat
  BY <1>1, IngestAssumption DEF Job, Pairs
<1>5. \A r \in runs \cup txnRuns[w] : r.id \in RunId
  BY <1>1 DEF TypeOK, AuditRow
<1>6. \A r \in runs \cup txnRuns[w] :
        r.id.by = w /\ r.id.job = job[w].job =>
          r.id.pair < job[w].pair \/ r.id.attempt < job[w].attempt
  BY <1>1, <1>2 DEF WorkerInv, FreshIds, At
<1>7. \A r \in runs \cup txnRuns[w] : r.id # Id(w)
  BY <1>3, <1>4, <1>6
<1>8. \A r \in txnRuns[w] : r.id.pair < job[w].pair
  BY <1>1, <1>4, <1>6 DEF WorkerInv, FreshIds
<1> QED
  BY <1>7, <1>8

LEMMA InsertCandleInv ==
  ASSUME IInv, NEW w \in Workers, InsertCandle(w)
  PROVE  TypeOK' /\ WorkerInv(w)'
<1>1. TypeOK /\ WorkerInv(w) /\ job[w] \in Job /\ At(w, "insert") /\ Writing(w)
  BY DEF IInv, TypeOK, InsertCandle, At, Writing
<1> DEFINE p == job[w].pair
<1>2. PICK d \in NextCandle(w) :
        LET isNew == ~Layer!Stored(Visible(w), p, d)
        IN /\ \A v \in Workers \ {w} : ~Layer!Stored(txnRows[v], p, d)
           /\ job' = [job EXCEPT ![w] =
                [@ EXCEPT !.todo = job[w].todo \ {d},
                          !.inserted = IF isNew THEN job[w].inserted + 1 ELSE job[w].inserted]]
           /\ txnRows' = [txnRows EXCEPT ![w] =
                IF isNew THEN @ \cup {[pair |-> p, day |-> d, run |-> Id(w)]} ELSE @]
  BY DEF InsertCandle
<1> DEFINE isNew == ~Layer!Stored(Visible(w), p, d)
           c == [pair |-> p, day |-> d, run |-> Id(w)]
           j == [job[w] EXCEPT !.todo = job[w].todo \ {d},
                    !.inserted = IF isNew THEN job[w].inserted + 1 ELSE job[w].inserted]
<1>3. UNCHANGED <<today, rows, runs, txnRuns, ended>>
  BY DEF InsertCandle
<1>4. job' = [job EXCEPT ![w] = j] /\ job'[w] = j
  BY <1>1, <1>2 DEF TypeOK
<1>5. /\ txnRows' = [txnRows EXCEPT ![w] = IF isNew THEN @ \cup {c} ELSE @]
      /\ txnRows'[w] = IF isNew THEN txnRows[w] \cup {c} ELSE txnRows[w]
      /\ \A v \in Workers \ {w} : txnRows'[v] = txnRows[v]
  BY <1>1, <1>2 DEF TypeOK
<1>6. /\ d \in job[w].todo /\ d \in job[w].fetched /\ d \in Nat /\ d < today /\ today \in Nat
      /\ job[w].fetched \subseteq job[w].ws .. job[w].we /\ job[w].todo \subseteq job[w].fetched
  BY <1>1 DEF NextCandle, WorkerInv, WindowSound, TypeOK, Job, At
<1>7. Id(w) \in RunId /\ Id(w).pair = p /\ p \in Pairs
  BY <1>1, IdTyped DEF Job
<1>8. c \in Candle /\ c.pair = p /\ c.day = d /\ c.run = Id(w)
  BY <1>6, <1>7 DEF Candle
<1>9. /\ j \in Job
      /\ j.pc = "insert" /\ j.kind = job[w].kind /\ j.job = job[w].job /\ j.pair = p
      /\ j.attempt = job[w].attempt /\ j.day = job[w].day /\ j.status = job[w].status
      /\ j.fetched = job[w].fetched /\ j.todo = job[w].todo \ {d} /\ j.ws = job[w].ws
      /\ j.we = job[w].we /\ j.asked = job[w].asked
      /\ j.inserted = IF isNew THEN job[w].inserted + 1 ELSE job[w].inserted
  <2> HIDE DEF isNew
  <2>1. (IF isNew THEN job[w].inserted + 1 ELSE job[w].inserted) \in Nat
    BY <1>1 DEF Job
  <2>2. job[w].todo \ {d} \in SUBSET Nat
    BY <1>1 DEF Job
  <2>3. j \in Job
    BY <1>1, <2>1, <2>2 DEF Job
  <2> QED
    BY <1>1, <2>3 DEF Job, At
<1>10. ~Layer!Stored(Visible(w), p, d) => \A e \in rows \cup txnRows[w] : ~(e.pair = p /\ e.day = d)
  BY DEF Visible, Layer!Stored
<1>11. \A v \in Workers \ {w} : ~Layer!Stored(txnRows[v], p, d)
  BY <1>2
<1>12. Layer!Stored(Visible(w), p, d) <=> ~isNew
  OBVIOUS
<1> HIDE DEF j, c, isNew, p
<1>13. TypeOK'
  BY <1>1, <1>3, <1>4, <1>5, <1>8, <1>9 DEF TypeOK
<1>14. Id(w)' = Id(w)
  BY <1>4, <1>9 DEF Id, p
<1>15. FreshIds(w)'
  BY <1>1, <1>3, <1>4, <1>9, <1>14 DEF WorkerInv, FreshIds, At, p
<1>16. KeysApart(w)'
  <2>1. ASSUME isNew PROVE \A e \in rows \cup txnRows[w] : ~(e.pair = c.pair /\ e.day = c.day)
    BY <2>1, <1>8, <1>10, <1>12
  <2>2. \A e, g \in txnRows'[w] : e.pair = g.pair /\ e.day = g.day => e = g
    BY <1>1, <1>5, <2>1 DEF WorkerInv, KeysApart
  <2>3. \A e \in txnRows'[w] : ~Layer!Stored(rows', e.pair, e.day)
    BY <1>1, <1>3, <1>5, <2>1 DEF WorkerInv, KeysApart, Layer!Stored
  <2>4. \A v \in Workers \ {w} : \A e \in txnRows'[w] : ~Layer!Stored(txnRows'[v], e.pair, e.day)
    BY <1>1, <1>5, <1>8, <1>11 DEF WorkerInv, KeysApart
  <2> QED
    BY <2>2, <2>3, <2>4 DEF KeysApart
<1>17. Attributed(w)'
  BY <1>1, <1>3, <1>4, <1>5, <1>6, <1>7, <1>8, <1>9, <1>14
  DEF WorkerInv, Attributed, AccountedBy, At
<1>18. Counted(w)'
  <2>1. IsFiniteSet(txnRows[w]) /\ IsFiniteSet(txnRows'[w])
    BY <1>1, <1>5, FS_AddElement DEF WorkerInv, Counted
  <2>2. ASSUME NEW r \in txnRuns[w] PROVE InsertedBy(w, r.id)' = InsertedBy(w, r.id)
    <3>1. r.id # Id(w)
      BY <1>1, NotYetRecorded
    <3> QED
      BY <3>1, <1>3, <1>5, <1>8 DEF InsertedBy
  <2>3. job'[w].inserted = Cardinality(InsertedBy(w, Id(w)))'
    <3>1. job[w].inserted = Cardinality(InsertedBy(w, Id(w)))
      BY <1>1 DEF WorkerInv, Counted
    <3>2. CASE isNew
      <4>1. InsertedBy(w, Id(w))' = InsertedBy(w, Id(w)) \cup {c}
        BY <1>5, <1>8, <1>14, <3>2 DEF InsertedBy
      <4>2. c \notin InsertedBy(w, Id(w))
        BY <1>8, <1>10, <1>12, <3>2 DEF InsertedBy
      <4>3. IsFiniteSet(InsertedBy(w, Id(w)))
        BY <2>1, FS_Subset DEF InsertedBy
      <4>4. Cardinality(InsertedBy(w, Id(w)) \cup {c}) = Cardinality(InsertedBy(w, Id(w))) + 1
        BY <4>2, <4>3, FS_AddElement
      <4> QED
        BY <1>4, <1>9, <3>1, <3>2, <4>1, <4>4
    <3>3. CASE ~isNew
      <4>1. InsertedBy(w, Id(w))' = InsertedBy(w, Id(w))
        BY <1>5, <1>14, <3>3 DEF InsertedBy
      <4> QED
        BY <1>4, <1>9, <3>1, <3>3, <4>1
    <3> QED
      BY <3>2, <3>3
  <2>4. \A r \in txnRuns'[w] : r.inserted = Cardinality(InsertedBy(w, r.id)')
    BY <1>1, <1>3, <2>2 DEF WorkerInv, Counted
  <2> QED
    BY <2>1, <2>3, <2>4 DEF Counted, InsertedBy
<1>19. Visible(w) \subseteq Visible(w)' /\ runs \cup txnRuns[w] = (runs \cup txnRuns[w])'
  BY <1>3, <1>5 DEF Visible
<1>20. RunsSound(w)'
  <2>1. ASSUME NEW r \in txnRuns[w], r.status = "success"
        PROVE  Layer!NoGap(Visible(w)', (runs \cup txnRuns[w])', r.pair, r.we)
    BY <1>1, <1>19, <2>1, NoGapMonotone DEF WorkerInv, RunsSound
  <2> QED
    BY <1>1, <1>3, <2>1 DEF WorkerInv, RunsSound
<1>21. WindowSound(w)'
  <2>1. Layer!NoGap(Visible(w)', (runs \cup txnRuns[w])', p, job[w].ws - 1)
    BY <1>1, <1>19, NoGapMonotone DEF WorkerInv, WindowSound, At, p
  <2>2. Layer!Stored(Visible(w)', p, d)
    <3>1. CASE isNew
      BY <1>5, <1>8, <3>1 DEF Visible, Layer!Stored
    <3>2. CASE ~isNew
      BY <1>12, <1>19, <3>2 DEF Layer!Stored
    <3> QED
      BY <3>1, <3>2
  <2>3. \A e \in job[w].fetched : e \in job[w].todo \/ Layer!Stored(Visible(w)', p, e)
    BY <1>1, <1>19 DEF WorkerInv, WindowSound, Layer!Stored, p
  <2> QED
    BY <1>1, <1>3, <1>4, <1>9, <2>1, <2>2, <2>3 DEF WorkerInv, WindowSound, At
<1>22. Closed(w)'
  BY <1>4, <1>9 DEF Closed, At
<1> QED
  BY <1>13, <1>15, <1>16, <1>17, <1>18, <1>20, <1>21, <1>22 DEF WorkerInv

\* Where the caller goes from an attempt: to the next pair's first, or to its end.
LEMMA ReturnedTyped ==
  ASSUME IInv, NEW w \in Workers, today' = today,
         job' = [job EXCEPT ![w] = Returned(w, job[w])]
  PROVE  /\ job'[w] \in Job /\ job'[w].kind = job[w].kind /\ job'[w].job = job[w].job
         /\ job'[w].attempt = job[w].attempt /\ job'[w].day <= today
         /\ \/ job'[w].pc = "leave" /\ job'[w].pair = job[w].pair
            \/ /\ job'[w].pc = "watermark" /\ job'[w].pair = job[w].pair + 1
               /\ job'[w].fetched = {} /\ job'[w].todo = {} /\ job'[w].inserted = 0
               /\ job'[w].status = "success"
<1>3. TypeOK /\ WorkerInv(w) /\ job[w] \in Job /\ today \in Nat
  BY DEF IInv, TypeOK
<1>4. job[w].pair \in Pairs /\ job[w].pair \in Nat /\ job[w].attempt \in Nat
  BY <1>3, IngestAssumption DEF Job, Pairs
<1>5. job'[w] = Returned(w, job[w])
  BY <1>3 DEF TypeOK
<1>1. CASE job[w].kind = "main" /\ job[w].pair < NPairs
  <2>1. job'[w] = FreshAttempt(job[w], job[w].pair + 1, 0)
    BY <1>5, <1>1 DEF Returned
  <2>2. job[w].pair + 1 \in Pairs /\ 0 \in Nat
    BY <1>4, <1>1, IngestAssumption DEF Pairs
  <2>3. job[w].attempt = 0
    BY <1>3, <1>1 DEF WorkerInv, FreshIds
  <2>4. /\ job'[w] \in Job
        /\ job'[w].pc = "watermark" /\ job'[w].kind = job[w].kind
        /\ job'[w].job = job[w].job /\ job'[w].pair = job[w].pair + 1
        /\ job'[w].attempt = 0 /\ job'[w].day = today
        /\ job'[w].fetched = {} /\ job'[w].todo = {} /\ job'[w].inserted = 0
        /\ job'[w].status = "success"
    BY <1>3, <2>1, <2>2, FreshAttemptTyped
  <2> QED
    BY <1>3, <2>3, <2>4
<1>2. CASE ~(job[w].kind = "main" /\ job[w].pair < NPairs)
  <2>1. job'[w] = [job[w] EXCEPT !.pc = "leave"]
    BY <1>5, <1>2 DEF Returned
  <2>2. job'[w] \in Job
    BY <1>3, <2>1 DEF Job, Phases
  <2> QED
    BY <1>3, <2>1, <2>2 DEF Job, WorkerInv, WindowSound
<1> QED
  BY <1>1, <1>2

\* Adding the attempt's audit row, with its count, is sound when a success leaves no
\* candle behind and a failure inserted none.
LEMMA Recorded ==
  ASSUME IInv, NEW w \in Workers, job[w].pc \in {"insert", "record"},
         NEW status \in {"success", "failed"}, NEW n \in Nat,
         txnRuns' = [txnRuns EXCEPT ![w] = @ \cup {Audit(w, status, n)}],
         job' = [job EXCEPT ![w] = Returned(w, job[w])],
         ended' = ended \cup ReturnsNow(w),
         UNCHANGED <<today, rows, runs, txnRows>>,
         n = Cardinality(InsertedBy(w, Id(w))),
         status = "success" =>
           At(w, "insert") /\ job[w].todo = {} /\ job[w].status = "success",
         \A c \in txnRows[w] : c.run = Id(w) => status = "success"
  PROVE  TypeOK' /\ WorkerInv(w)'
<1>1. TypeOK /\ WorkerInv(w) /\ job[w] \in Job /\ Writing(w) /\ today \in Nat
  BY DEF IInv, TypeOK, Writing
<1>2. /\ Id(w) \in RunId /\ Id(w).by = w /\ Id(w).job = job[w].job
      /\ Id(w).pair = job[w].pair /\ Id(w).attempt = job[w].attempt
  BY <1>1, IdTyped
<1> DEFINE a == Audit(w, status, n)
<1>3. /\ a \in AuditRow /\ a.id = Id(w) /\ a.pair = job[w].pair /\ a.status = status
      /\ a.asked = job[w].asked /\ a.fetched = job[w].fetched /\ a.ws = job[w].ws /\ a.we = job[w].we /\ a.inserted = n
  BY <1>1, <1>2 DEF Audit, AuditRow, Job
<1> HIDE DEF a
<1>4. /\ txnRuns' = [txnRuns EXCEPT ![w] = @ \cup {a}]
      /\ txnRuns'[w] = txnRuns[w] \cup {a} /\ txnRows' = txnRows /\ rows' = rows /\ runs' = runs
  BY <1>1 DEF TypeOK, a
<1>5. job[w].pair \in Pairs /\ job[w].pair \in Nat /\ job[w].attempt \in Nat
  BY <1>1, IngestAssumption DEF Job, Pairs
<1>6. job'[w] = Returned(w, job[w])
  BY <1>1 DEF TypeOK
<1>7. /\ job'[w] \in Job /\ job'[w].kind = job[w].kind /\ job'[w].job = job[w].job
      /\ job'[w].attempt = job[w].attempt /\ job'[w].day <= today
      /\ \/ job'[w].pc = "leave" /\ job'[w].pair = job[w].pair
         \/ /\ job'[w].pc = "watermark" /\ job'[w].pair = job[w].pair + 1
            /\ job'[w].fetched = {} /\ job'[w].todo = {} /\ job'[w].inserted = 0
            /\ job'[w].status = "success"
  BY ReturnedTyped
<1>8. TypeOK'
  <2>1. job' \in [Workers -> Job]
    BY <1>1, <1>6, <1>7 DEF TypeOK
  <2>2. txnRuns' \in [Workers -> SUBSET AuditRow]
    BY <1>1, <1>3, <1>4 DEF TypeOK
  <2>3. ended' \subseteq RunId
    BY <1>1, <1>2 DEF TypeOK, ReturnsNow
  <2> QED
    BY <1>1, <1>4, <2>1, <2>2, <2>3 DEF TypeOK
<1>9. /\ \A r \in runs \cup txnRuns[w] : r.id # Id(w)
      /\ \A r \in txnRuns[w] : r.id.pair < job[w].pair
  BY <1>1, NotYetRecorded
<1>10. FreshIds(w)'
  <2>1. \A r \in txnRuns'[w] : /\ r.id.by = w /\ r.id.job = job'[w].job
                                /\ r.id.attempt = job'[w].attempt
    BY <1>1, <1>2, <1>3, <1>4, <1>7 DEF WorkerInv, FreshIds
  <2>2. \A r, q \in txnRuns'[w] : r.id = q.id => r = q
    BY <1>1, <1>3, <1>4, <1>9 DEF WorkerInv, FreshIds
  <2>3. \A r \in txnRuns'[w], q \in runs' : r.id # q.id
    BY <1>1, <1>3, <1>4, <1>9 DEF WorkerInv, FreshIds
  <2>4. ASSUME NEW r \in runs' \cup txnRuns'[w], r.id.by = w
        PROVE  /\ r.id.job <= job'[w].job
               /\ r.id.job = job'[w].job /\ job'[w].pc # "idle" =>
                    \/ r.id.pair < job'[w].pair \/ r.id.attempt < job'[w].attempt
                    \/ job'[w].pc = "leave" /\ r.id = Id(w)' /\ r \in txnRuns'[w]
    <3>1. r.id \in RunId
      BY <1>1, <1>3, <1>4 DEF TypeOK, AuditRow
    <3>2. CASE r = a
      <4>1. r.id = Id(w) /\ r \in txnRuns'[w] /\ r.id.job <= job[w].job
        BY <1>1, <1>2, <1>3, <1>4, <3>2 DEF Job
      <4>2. CASE job'[w].pc = "leave" /\ job'[w].pair = job[w].pair
        BY <4>1, <4>2, <1>7 DEF Id
      <4>3. CASE job'[w].pc = "watermark" /\ job'[w].pair = job[w].pair + 1
        BY <4>1, <4>3, <1>2, <1>5, <1>7
      <4> QED
        BY <1>7, <4>2, <4>3
    <3>3. CASE r # a
      <4>1. /\ r.id.job <= job[w].job
            /\ r.id.job = job[w].job =>
                 r.id.pair < job[w].pair \/ r.id.attempt < job[w].attempt
        BY <2>4, <3>3, <1>1, <1>4 DEF WorkerInv, FreshIds, At
      <4> QED
        BY <4>1, <3>1, <1>5, <1>7 DEF RunId, Pairs
    <3> QED
      BY <3>2, <3>3
  <2>5. job'[w].kind = "main" => job'[w].attempt = 0
    BY <1>1, <1>7 DEF WorkerInv, FreshIds
  <2> QED
    BY <2>1, <2>2, <2>3, <2>4, <2>5 DEF FreshIds, At
<1>11. KeysApart(w)'
  BY <1>1, <1>4 DEF WorkerInv, KeysApart
<1>12. Attributed(w)'
  <2>1. ASSUME NEW c \in txnRows[w] PROVE \E r \in txnRuns'[w] : AccountedBy(r, c)
    <3>1. CASE c.run = Id(w) /\ At(w, "insert") /\ c.day \in job[w].fetched
      <4>1. status = "success" /\ c.pair = job[w].pair
        BY <1>1, <1>2, <3>1 DEF WorkerInv, Attributed
      <4>2. AccountedBy(a, c)
        BY <1>3, <3>1, <4>1 DEF AccountedBy
      <4> QED
        BY <1>4, <4>2
    <3>2. CASE \E r \in txnRuns[w] : AccountedBy(r, c)
      BY <1>4, <3>2
    <3> QED
      BY <1>1, <3>1, <3>2 DEF WorkerInv, Attributed
  <2> QED
    BY <1>1, <1>4, <2>1 DEF WorkerInv, Attributed, AccountedBy
<1>13. Counted(w)'
  <2>1. \A i : InsertedBy(w, i)' = InsertedBy(w, i)
    BY <1>4 DEF InsertedBy
  <2>2. ASSUME job'[w].pc = "watermark"
        PROVE  job'[w].inserted = Cardinality(InsertedBy(w, Id(w)'))
    <3>1. \A c \in txnRows[w] : \E r \in txnRuns'[w] : r.id = c.run
      BY <1>4, <1>12, <2>2 DEF Attributed, AccountedBy, At
    <3>2. \A r \in txnRuns'[w] : r.id.pair <= job[w].pair /\ r.id.pair \in Nat
      BY <1>1, <1>2, <1>3, <1>4, <1>5, <1>9, IngestAssumption DEF TypeOK, AuditRow, RunId, Pairs
    <3>3. Id(w)'.pair = job[w].pair + 1
      BY <1>7, <2>2 DEF Id
    <3>4. InsertedBy(w, Id(w)') = {}
      BY <1>5, <3>1, <3>2, <3>3 DEF InsertedBy
    <3> QED
      BY <1>7, <2>2, <3>4, FS_EmptySet
  <2>3. ASSUME NEW r \in txnRuns'[w] PROVE r.inserted = Cardinality(InsertedBy(w, r.id))
    BY <1>1, <1>3, <1>4 DEF WorkerInv, Counted
  <2>4. Writing(w)' => job'[w].pc = "watermark"
    BY <1>7 DEF Writing
  <2>5. InsertedBy(w, Id(w))' = InsertedBy(w, Id(w)')
    BY <1>4 DEF InsertedBy
  <2>6. \A r \in txnRuns'[w] : InsertedBy(w, r.id)' = InsertedBy(w, r.id)
    BY <1>4 DEF InsertedBy
  <2>7. IsFiniteSet(txnRows'[w])
    BY <1>1, <1>4 DEF WorkerInv, Counted
  <2> QED
    BY <2>2, <2>3, <2>4, <2>5, <2>6, <2>7 DEF Counted, InsertedBy
<1>14. Visible(w)' = Visible(w) /\ runs \cup txnRuns[w] \subseteq (runs \cup txnRuns[w])'
  BY <1>4 DEF Visible
<1>15. RunsSound(w)'
  <2>1. ASSUME NEW r \in txnRuns[w], r.status = "success"
        PROVE  Layer!NoGap(Visible(w)', (runs \cup txnRuns[w])', r.pair, r.we)
    BY <1>1, <1>14, <2>1, NoGapMonotone DEF WorkerInv, RunsSound
  <2>2. ASSUME status = "success"
        PROVE  /\ a.fetched \subseteq a.ws .. a.we
               /\ Layer!NoGap(Visible(w)', (runs \cup txnRuns[w])', a.pair, a.we)
    <3>1. /\ a.fetched \subseteq a.ws .. a.we /\ a.ws .. a.we \subseteq a.asked
          /\ Layer!NoGap(Visible(w), runs \cup txnRuns[w], a.pair, a.ws - 1)
          /\ \A d \in a.fetched : Layer!Stored(Visible(w), a.pair, d)
      <4>1. At(w, "insert") /\ job[w].todo = {} /\ job[w].status = "success"
        BY <1>1, <2>2
      <4>2. /\ job[w].fetched \subseteq job[w].ws .. job[w].we
            /\ job[w].ws .. job[w].we \subseteq job[w].asked
            /\ Layer!NoGap(Visible(w), runs \cup txnRuns[w], job[w].pair, job[w].ws - 1)
            /\ \A d \in job[w].fetched : Layer!Stored(Visible(w), job[w].pair, d)
        BY <1>1, <4>1 DEF WorkerInv, WindowSound, At
      <4> QED
        BY <1>3, <4>2
    <3>2. Layer!NoGap(Visible(w)', (runs \cup txnRuns[w])', a.pair, a.ws - 1)
      BY <1>14, <3>1, NoGapMonotone
    <3>3. ASSUME NEW d \in BackfillStart .. a.we
          PROVE  \/ Layer!Stored(Visible(w)', a.pair, d)
                 \/ Layer!Omitted((runs \cup txnRuns[w])', a.pair, d)
      <4>1. a.ws \in Int /\ a.we \in Int /\ BackfillStart \in Int
        BY <1>3, IngestAssumption DEF AuditRow
      <4>2. CASE d < a.ws
        <5>1. d \in BackfillStart .. (a.ws - 1)
          BY <4>1, <4>2
        <5> QED
          BY <3>2, <5>1 DEF Layer!NoGap
      <4>3. CASE d \in a.ws .. a.we /\ d \in a.fetched
        BY <1>14, <3>1, <4>3
      <4>4. CASE d \in a.ws .. a.we /\ d \notin a.fetched
        BY <1>3, <1>4, <2>2, <3>1, <4>4 DEF Layer!Omitted
      <4> QED
        BY <4>1, <4>2, <4>3, <4>4
    <3> QED
      BY <3>1, <3>3 DEF Layer!NoGap
  <2>3. a.pair = a.id.pair
    BY <1>2, <1>3
  <2> QED
    BY <1>1, <1>3, <1>4, <2>1, <2>2, <2>3 DEF WorkerInv, RunsSound
<1>16. WindowSound(w)'
  BY <1>4, <1>7 DEF WindowSound, At
<1>17. Closed(w)'
  BY <1>7 DEF Closed, At
<1> QED
  BY <1>8, <1>10, <1>11, <1>12, <1>13, <1>15, <1>16, <1>17 DEF WorkerInv

LEMMA SkipPairInv ==
  ASSUME IInv, NEW w \in Workers, SkipPair(w)
  PROVE  TypeOK' /\ WorkerInv(w)'
<1>1. TypeOK /\ WorkerInv(w) /\ job[w] \in Job /\ At(w, "watermark") /\ Writing(w)
  BY DEF IInv, TypeOK, SkipPair, At, Writing
<1>2. /\ job' = [job EXCEPT ![w] = Returned(w, job[w])] /\ today' = today
      /\ UNCHANGED <<rows, runs, txnRows, txnRuns, ended>>
  BY DEF SkipPair
<1>3. /\ job'[w] \in Job /\ job'[w].kind = job[w].kind /\ job'[w].job = job[w].job
      /\ job'[w].attempt = job[w].attempt /\ job'[w].day <= today
      /\ \/ job'[w].pc = "leave" /\ job'[w].pair = job[w].pair
         \/ /\ job'[w].pc = "watermark" /\ job'[w].pair = job[w].pair + 1
            /\ job'[w].fetched = {} /\ job'[w].todo = {} /\ job'[w].inserted = 0
            /\ job'[w].status = "success"
  BY <1>2, ReturnedTyped
<1>4. job[w].pair \in Nat /\ job[w].attempt \in Nat
  BY <1>1, IngestAssumption DEF Job, Pairs
<1>5. TypeOK'
  BY <1>1, <1>2, <1>3 DEF TypeOK
<1>6. \A r \in runs \cup txnRuns[w] :
        r.id.by = w /\ r.id.job = job[w].job =>
          r.id.pair < job[w].pair \/ r.id.attempt < job[w].attempt
  BY <1>1 DEF WorkerInv, FreshIds, At
<1>7. \A r \in runs \cup txnRuns[w] : r.id \in RunId /\ r.id.pair \in Nat
  BY <1>1, IngestAssumption DEF TypeOK, AuditRow, RunId, Pairs
<1>8. FreshIds(w)'
  <2>1. ASSUME NEW r \in runs \cup txnRuns[w], r.id.by = w, r.id.job = job[w].job
        PROVE  r.id.pair < job'[w].pair \/ r.id.attempt < job'[w].attempt
    BY <1>3, <1>4, <1>6, <1>7, <2>1
  <2> QED
    BY <1>1, <1>2, <1>3, <2>1 DEF WorkerInv, FreshIds, At
<1>9. KeysApart(w)' /\ RunsSound(w)'
  BY <1>1, <1>2 DEF WorkerInv, KeysApart, RunsSound, Visible
<1>10. \A c \in txnRows[w] : \E r \in txnRuns[w] : AccountedBy(r, c)
  BY <1>1 DEF WorkerInv, Attributed, At
<1>11. Attributed(w)'
  BY <1>1, <1>2, <1>10 DEF WorkerInv, Attributed, AccountedBy
<1>12. Counted(w)'
  <2>1. \A i : InsertedBy(w, i)' = InsertedBy(w, i)
    BY <1>2 DEF InsertedBy
  <2>2. ASSUME job'[w].pc = "watermark"
        PROVE  job'[w].inserted = Cardinality(InsertedBy(w, Id(w)'))
    <3>1. Id(w)'.pair = job[w].pair + 1
      BY <1>3, <2>2 DEF Id
    <3>2. \A r \in txnRuns[w] : r.id.pair < job[w].pair
      BY <1>1, NotYetRecorded
    <3>3. InsertedBy(w, Id(w)') = {}
      BY <1>4, <1>7, <1>10, <3>1, <3>2 DEF InsertedBy, AccountedBy
    <3> QED
      BY <1>3, <2>2, <3>3, FS_EmptySet
  <2>3. ASSUME NEW r \in txnRuns[w] PROVE r.inserted = Cardinality(InsertedBy(w, r.id))
    BY <1>1, <2>3 DEF WorkerInv, Counted
  <2>4. Writing(w)' => job'[w].pc = "watermark"
    BY <1>3 DEF Writing
  <2>5. InsertedBy(w, Id(w))' = InsertedBy(w, Id(w)')
    BY <1>2 DEF InsertedBy
  <2>6. IsFiniteSet(txnRows[w])
    BY <1>1 DEF WorkerInv, Counted
  <2> QED
    BY <1>2, <2>1, <2>2, <2>3, <2>4, <2>5, <2>6 DEF Counted, InsertedBy
<1>13. WindowSound(w)' /\ Closed(w)'
  BY <1>2, <1>3 DEF WindowSound, Closed, At
<1> QED
  BY <1>5, <1>8, <1>9, <1>11, <1>12, <1>13 DEF WorkerInv

LEMMA FinishRunInv ==
  ASSUME IInv, NEW w \in Workers, FinishRun(w)
  PROVE  TypeOK' /\ WorkerInv(w)'
<1>1. TypeOK /\ WorkerInv(w) /\ job[w] \in Job /\ At(w, "insert") /\ Writing(w)
  BY DEF IInv, TypeOK, FinishRun, At, Writing
<1>2. job[w].status \in {"success", "failed"} /\ job[w].inserted \in Nat
  BY <1>1 DEF Job
<1>3. job[w].inserted = Cardinality(InsertedBy(w, Id(w)))
  BY <1>1 DEF WorkerInv, Counted
<1>4. ASSUME NEW c \in txnRows[w], c.run = Id(w) PROVE job[w].status = "success"
  <2>1. c.day \in job[w].fetched
    BY <1>1, <1>4, NotYetRecorded DEF WorkerInv, Attributed, AccountedBy
  <2> QED
    BY <1>1, <1>2, <2>1 DEF WorkerInv, WindowSound
<1>5. /\ job[w].todo = {}
      /\ txnRuns' = [txnRuns EXCEPT ![w] = @ \cup {Audit(w, job[w].status, job[w].inserted)}]
      /\ job' = [job EXCEPT ![w] = Returned(w, job[w])]
      /\ ended' = ended \cup ReturnsNow(w)
      /\ UNCHANGED <<today, rows, runs, txnRows>>
  BY DEF FinishRun
<1> QED
  BY <1>1, <1>2, <1>3, <1>4, <1>5, Recorded DEF At

LEMMA RecordFailedRunInv ==
  ASSUME IInv, NEW w \in Workers, RecordFailedRun(w)
  PROVE  TypeOK' /\ WorkerInv(w)'
<1>1. TypeOK /\ WorkerInv(w) /\ At(w, "record") /\ Writing(w)
  BY DEF IInv, RecordFailedRun, At, Writing
<1>2. \A c \in txnRows[w] : c.run # Id(w)
  BY <1>1, NotYetRecorded DEF WorkerInv, Attributed, AccountedBy, At
<1>3. 0 = Cardinality(InsertedBy(w, Id(w)))
  BY <1>2, FS_EmptySet DEF InsertedBy
<1>4. /\ txnRuns' = [txnRuns EXCEPT ![w] = @ \cup {Audit(w, "failed", 0)}]
      /\ job' = [job EXCEPT ![w] = Returned(w, job[w])]
      /\ ended' = ended \cup ReturnsNow(w)
      /\ UNCHANGED <<today, rows, runs, txnRows>>
  BY DEF RecordFailedRun
<1>5. job[w].pc \in {"insert", "record"}
  BY <1>1 DEF At
<1>6. \A c \in txnRows[w] : c.run = Id(w) => "failed" = "success"
  BY <1>2
<1>7. "failed" \in {"success", "failed"} /\ 0 \in Nat /\ "failed" # "success"
  OBVIOUS
<1> QED
  BY <1>3, <1>4, <1>5, <1>6, <1>7, Recorded

\* The savepoint takes back what this attempt inserted and nothing that an earlier pair's
\* recorded run relies on.
LEMMA WriteFailsInv ==
  ASSUME IInv, NEW w \in Workers, WriteFails(w)
  PROVE  TypeOK' /\ WorkerInv(w)'
<1>1. TypeOK /\ WorkerInv(w) /\ job[w] \in Job /\ At(w, "insert") /\ Writing(w)
  BY DEF IInv, TypeOK, WriteFails, At, Writing
<1> DEFINE j == [job[w] EXCEPT !.pc = "record", !.status = "failed", !.inserted = 0, !.todo = {}]
<1>2. job' = [job EXCEPT ![w] = j] /\ job'[w] = j /\ UNCHANGED <<today, rows, runs, txnRuns, ended>>
  BY <1>1 DEF WriteFails, TypeOK
<1>3. /\ txnRows' = [txnRows EXCEPT ![w] = {c \in @ : c.run # Id(w)}]
      /\ txnRows'[w] = {c \in txnRows[w] : c.run # Id(w)}
      /\ \A v \in Workers \ {w} : txnRows'[v] = txnRows[v]
  BY <1>1 DEF WriteFails, TypeOK
<1>4. /\ j \in Job /\ j.pc = "record" /\ j.kind = job[w].kind /\ j.job = job[w].job
      /\ j.pair = job[w].pair /\ j.attempt = job[w].attempt /\ j.day = job[w].day
      /\ j.inserted = 0
  BY <1>1 DEF Job, Phases
<1> HIDE DEF j
<1>5. Id(w)' = Id(w) /\ Id(w).pair = job[w].pair
  BY <1>1, <1>2, <1>4, IdTyped DEF Id
<1>6. /\ \A r \in runs \cup txnRuns[w] : r.id # Id(w)
      /\ \A r \in txnRuns[w] : r.id.pair < job[w].pair
  BY <1>1, NotYetRecorded
<1>7. TypeOK'
  BY <1>1, <1>2, <1>3, <1>4 DEF TypeOK
<1>8. FreshIds(w)'
  BY <1>1, <1>2, <1>4, <1>5 DEF WorkerInv, FreshIds, At
<1>9. KeysApart(w)'
  BY <1>1, <1>2, <1>3 DEF WorkerInv, KeysApart
<1>10. Attributed(w)'
  BY <1>1, <1>2, <1>3, <1>4, <1>5 DEF WorkerInv, Attributed, AccountedBy, At
<1>11. Counted(w)'
  <2>1. IsFiniteSet(txnRows'[w])
    BY <1>1, <1>3, FS_Subset DEF WorkerInv, Counted
  <2>2. ASSUME NEW r \in txnRuns[w] PROVE InsertedBy(w, r.id)' = InsertedBy(w, r.id)
    BY <1>2, <1>3, <1>6 DEF InsertedBy
  <2>3. InsertedBy(w, Id(w))' = {}
    BY <1>3, <1>5 DEF InsertedBy
  <2>4. job'[w].inserted = Cardinality(InsertedBy(w, Id(w)))'
    BY <1>2, <1>4, <2>3, FS_EmptySet
  <2>5. \A r \in txnRuns'[w] : r.inserted = Cardinality(InsertedBy(w, r.id)')
    BY <1>1, <1>2, <2>2 DEF WorkerInv, Counted
  <2> QED
    BY <2>1, <2>4, <2>5 DEF Counted, InsertedBy
<1>12. RunsSound(w)'
  <2>1. ASSUME NEW r \in txnRuns[w], NEW d, Layer!Stored(Visible(w), r.pair, d)
        PROVE  Layer!Stored(Visible(w)', r.pair, d)
    <3>1. PICK c \in rows \cup txnRows[w] : c.pair = r.pair /\ c.day = d
      BY <2>1 DEF Layer!Stored, Visible
    <3>2. r.pair # job[w].pair
      <4>1. r.id \in RunId /\ r.pair = r.id.pair
        BY <1>1 DEF WorkerInv, RunsSound, TypeOK, AuditRow
      <4>2. r.id.pair \in Nat /\ job[w].pair \in Nat
        <5>1. r.id.pair \in Pairs /\ job[w].pair \in Pairs
          BY <1>1, <4>1 DEF RunId, Job
        <5> QED
          BY <5>1, IngestAssumption DEF Pairs
      <4> QED
        BY <1>6, <4>1, <4>2
    <3>3. CASE c \in rows
      BY <1>2, <3>1, <3>3 DEF Layer!Stored, Visible
    <3>4. CASE c \in txnRows[w]
      <4>1. c.run # Id(w)
        BY <1>1, <1>5, <3>1, <3>2, <3>4 DEF WorkerInv, Attributed
      <4> QED
        BY <1>3, <3>1, <3>4, <4>1 DEF Layer!Stored, Visible
    <3> QED
      BY <3>1, <3>3, <3>4
  <2>2. ASSUME NEW r \in txnRuns[w], r.status = "success"
        PROVE  Layer!NoGap(Visible(w)', (runs \cup txnRuns[w])', r.pair, r.we)
    <3>1. Layer!NoGap(Visible(w), runs \cup txnRuns[w], r.pair, r.we)
      BY <1>1, <2>2 DEF WorkerInv, RunsSound
    <3>2. (runs \cup txnRuns[w])' = runs \cup txnRuns[w]
      BY <1>2
    <3> QED
      BY <2>1, <3>1, <3>2 DEF Layer!NoGap
  <2> QED
    BY <1>1, <1>2, <2>2 DEF WorkerInv, RunsSound
<1>13. WindowSound(w)' /\ Closed(w)'
  BY <1>1, <1>2, <1>4 DEF WorkerInv, WindowSound, Closed, At
<1> QED
  BY <1>7, <1>8, <1>9, <1>10, <1>11, <1>12, <1>13 DEF WorkerInv

-----------------------------------------------------------------------------
(* The commit *)

\* What a commit makes visible keeps the committed relations sound.
LEMMA PublishSound ==
  ASSUME IInv, NEW w \in Workers, At(w, "leave"), Publish(w), today' = today
  PROVE  CommittedSound'
<1>1. TypeOK /\ WorkerInv(w) /\ CommittedSound
  BY DEF IInv
<1>2. rows' = rows \cup txnRows[w] /\ runs' = runs \cup txnRuns[w]
  BY DEF Publish
<1>3. Layer!Provenance'
  BY <1>1, <1>2 DEF CommittedSound, Layer!Provenance, WorkerInv, Attributed, AccountedBy, At
<1>4. Layer!ClosedBarsOnly'
  <2>1. \A c \in txnRows[w] : c.day \in 0 .. today - 1
    BY <1>1 DEF WorkerInv, Attributed, TypeOK, Candle
  <2> QED
    BY <1>1, <1>2, <2>1 DEF CommittedSound, Layer!ClosedBarsOnly
<1>5. Layer!NoUnexplainedGap'
  <2> SUFFICES ASSUME NEW r \in runs', r.status = "success"
               PROVE  Layer!NoGap(rows', runs', r.pair, r.we)
    BY DEF Layer!NoUnexplainedGap, Layer!NoGap, Layer!Stored, Layer!Omitted
  <2>1. CASE r \in runs
    BY <1>1, <1>2, <2>1, NoGapMonotone DEF CommittedSound, Layer!NoUnexplainedGap
  <2>2. CASE r \in txnRuns[w]
    BY <1>1, <1>2, <2>2 DEF WorkerInv, RunsSound, Visible
  <2> QED
    BY <1>2, <2>1, <2>2
<1>6. \A r \in runs' : r.status = "success" => r.fetched \subseteq r.ws .. r.we
  BY <1>1, <1>2 DEF CommittedSound, WorkerInv, RunsSound
<1> QED
  BY <1>3, <1>4, <1>5, <1>6 DEF CommittedSound

\* In a state of the invariant, a commit is one Append of the layer.
LEMMA PublishIsAppend ==
  ASSUME IInv, NEW w \in Workers, At(w, "leave"), Publish(w), today' = today
  PROVE  Layer!Append
<1>1. TypeOK /\ WorkerInv(w)
  BY DEF IInv
<1>2. rows' = rows \cup txnRows[w] /\ runs' = runs \cup txnRuns[w]
  BY DEF Publish
<1>3. rows' \ rows = txnRows[w]
  BY <1>1, <1>2 DEF WorkerInv, KeysApart, Layer!Stored
<1>4. runs' \ runs = txnRuns[w]
  BY <1>1, <1>2 DEF WorkerInv, FreshIds
<1>5. \A r \in txnRuns[w], q \in runs : q.id # r.id
  BY <1>1 DEF WorkerInv, FreshIds
<1>6. \A c \in txnRows[w] : c.day \in 0 .. today - 1 /\ ~Layer!Stored(rows, c.pair, c.day)
  BY <1>1 DEF WorkerInv, Attributed, KeysApart, TypeOK, Candle
<1>7. \A c, e \in txnRows[w] : c.pair = e.pair /\ c.day = e.day => c = e
  BY <1>1 DEF WorkerInv, KeysApart
<1>8. \A c \in txnRows[w] :
        \E r \in txnRuns[w] : /\ r.id = c.run /\ r.pair = c.pair
                              /\ r.status = "success" /\ c.day \in r.fetched
  BY <1>1 DEF WorkerInv, Attributed, AccountedBy, At
<1>9. \A r \in txnRuns[w] : r.inserted = Cardinality({c \in txnRows[w] : c.run = r.id})
  BY <1>1 DEF WorkerInv, Counted, InsertedBy
<1>10. \A r \in txnRuns[w] : r.status = "success" => Layer!NoGap(rows', runs', r.pair, r.we)
  BY <1>1, <1>2 DEF WorkerInv, RunsSound, Visible
<1>11. /\ rows \subseteq rows' /\ runs \subseteq runs'
       /\ \A r \in runs' \ runs, q \in runs : q.id # r.id
       /\ \A c \in rows' \ rows : c.day \in 0 .. today - 1 /\ ~Layer!Stored(rows, c.pair, c.day)
       /\ \A c, e \in rows' \ rows : c.pair = e.pair /\ c.day = e.day => c = e
  BY <1>2, <1>3, <1>4, <1>5, <1>6, <1>7
<1>12. /\ \A c \in rows' \ rows :
            \E r \in runs' \ runs : /\ r.id = c.run /\ r.pair = c.pair
                                   /\ r.status = "success" /\ c.day \in r.fetched
       /\ \A r \in runs' \ runs : r.status = "success" => Layer!NoGap(rows', runs', r.pair, r.we)
  BY <1>3, <1>4, <1>8, <1>10
<1>13. \A r \in runs' \ runs :
         r.inserted = Layer!Cardinality({c \in rows' \ rows : c.run = r.id})
  BY <1>3, <1>4, <1>9, SameCardinality
<1> QED
  BY <1>11, <1>12, <1>13 DEF Layer!Append

-----------------------------------------------------------------------------
(* Every step *)

\* Only w moves, nothing is committed, and no key of another transaction is taken.
OnlyMoves(w) ==
  /\ UNCHANGED <<today, rows, runs>>
  /\ \A v \in Workers \ {w} :
       /\ job'[v] = job[v] /\ txnRows'[v] = txnRows[v] /\ txnRuns'[v] = txnRuns[v]
       /\ \A c \in txnRows'[w] :
            c \in txnRows[w] \/ ~Layer!Stored(txnRows[v], c.pair, c.day)

LEMMA QuietStep ==
  ASSUME IInv, NEW w \in Workers, OnlyMoves(w), TypeOK', WorkerInv(w)'
  PROVE  IInv'
<1>1. CommittedSound'
  BY DEF IInv, CommittedSound, OnlyMoves, Layer!Provenance, Layer!NoUnexplainedGap,
         Layer!ClosedBarsOnly, Layer!NoGap, Layer!Stored, Layer!Omitted
<1>2. ASSUME NEW v \in Workers \ {w} PROVE WorkerInv(v)'
  <2>1. today' \in Nat /\ today <= today' /\ rows' = rows /\ runs' = runs
    BY DEF IInv, TypeOK, OnlyMoves
  <2>2. job'[v] = job[v] /\ txnRows'[v] = txnRows[v] /\ txnRuns'[v] = txnRuns[v]
    BY <1>2 DEF OnlyMoves
  <2>3. \A u \in Workers \ {v} : \A c \in txnRows'[u] :
           c \in txnRows[u] \/ ~Layer!Stored(txnRows[v], c.pair, c.day)
    BY <1>2 DEF OnlyMoves
  <2> QED
    BY <2>1, <2>2, <2>3, Others
<1> QED
  BY <1>1, <1>2 DEF IInv

LEMMA CommitStep ==
  ASSUME IInv, NEW w \in Workers, At(w, "leave"), Publish(w), today' = today,
         ended' \in {ended, ended \cup {Id(w)}}, NEW j \in {Raised(w), Idle(job[w])},
         job' = [job EXCEPT ![w] = j]
  PROVE  IInv'
<1>1. TypeOK /\ WorkerInv(w)
  BY DEF IInv
<1>2. /\ rows' = rows \cup txnRows[w] /\ runs' = runs \cup txnRuns[w]
      /\ txnRows' = [txnRows EXCEPT ![w] = {}] /\ txnRuns' = [txnRuns EXCEPT ![w] = {}]
  BY DEF Publish, Discard
<1>3. /\ txnRows'[w] = {} /\ txnRuns'[w] = {} /\ job'[w] = j
      /\ \A v \in Workers \ {w} :
           job'[v] = job[v] /\ txnRows'[v] = txnRows[v] /\ txnRuns'[v] = txnRuns[v]
  BY <1>1, <1>2 DEF TypeOK
<1>4. ~At(w, "idle")
  BY DEF At
<1>5. WorkerInv(w)' /\ j \in Job
  BY <1>2, <1>3, <1>4, FreshStart
<1>6. TypeOK'
  <2>1. job' \in [Workers -> Job]
    BY <1>1, <1>5 DEF TypeOK
  <2>2. rows' \subseteq Candle /\ runs' \subseteq AuditRow
    BY <1>1, <1>2 DEF TypeOK
  <2>3. txnRows' \in [Workers -> SUBSET Candle] /\ txnRuns' \in [Workers -> SUBSET AuditRow]
    BY <1>1, <1>2 DEF TypeOK
  <2>4. ended' \subseteq RunId
    BY <1>1, IdTyped DEF TypeOK
  <2> QED
    BY <1>1, <2>1, <2>2, <2>3, <2>4 DEF TypeOK
<1>7. CommittedSound'
  BY PublishSound
<1>8. ASSUME NEW v \in Workers \ {w} PROVE WorkerInv(v)'
  <2>1. today' \in Nat /\ today <= today' /\ rows \subseteq rows' /\ runs \subseteq runs'
    BY <1>1, <1>2 DEF TypeOK
  <2>2. \A r \in runs' \ runs : r.id.by # v
    BY <1>1, <1>2, <1>8 DEF WorkerInv, FreshIds
  <2>3. \A c \in rows' \ rows : \E u \in Workers \ {v} : c \in txnRows[u]
    BY <1>2, <1>8
  <2>4. \A u \in Workers \ {v} : \A c \in txnRows'[u] : c \in txnRows[u]
    BY <1>3
  <2> QED
    BY <1>3, <1>8, <2>1, <2>2, <2>3, <2>4, Others
<1> QED
  BY <1>5, <1>6, <1>7, <1>8 DEF IInv

LEMMA RollbackStep ==
  ASSUME IInv, NEW w \in Workers, ~At(w, "idle"), Discard(w), UNCHANGED <<today, rows, runs>>,
         ended' \in {ended, ended \cup {Id(w)}}, NEW j \in {Raised(w), Idle(job[w])},
         job' = [job EXCEPT ![w] = j]
  PROVE  IInv'
<1>1. TypeOK
  BY DEF IInv
<1>2. txnRows' = [txnRows EXCEPT ![w] = {}] /\ txnRuns' = [txnRuns EXCEPT ![w] = {}]
  BY DEF Discard
<1>3. txnRows'[w] = {} /\ txnRuns'[w] = {} /\ job'[w] = j
  BY <1>1, <1>2 DEF TypeOK
<1>4. WorkerInv(w)' /\ j \in Job
  BY <1>3, FreshStart
<1>5. TypeOK'
  <2>1. job' \in [Workers -> Job]
    BY <1>1, <1>4 DEF TypeOK
  <2>2. txnRows' \in [Workers -> SUBSET Candle] /\ txnRuns' \in [Workers -> SUBSET AuditRow]
    BY <1>1, <1>2 DEF TypeOK
  <2>3. ended' \subseteq RunId
    BY <1>1, IdTyped DEF TypeOK
  <2> QED
    BY <1>1, <2>1, <2>2, <2>3 DEF TypeOK
<1>6. OnlyMoves(w)
  BY <1>1, <1>2, <1>3 DEF OnlyMoves, TypeOK
<1> QED
  BY <1>4, <1>5, <1>6, QuietStep

LEMMA NewDayStep == IInv /\ NewDay => IInv'
<1> SUFFICES ASSUME IInv, NewDay PROVE IInv'
  OBVIOUS
<1>1. TypeOK /\ CommittedSound
  BY DEF IInv
<1>2. /\ today \in Nat /\ today' = today + 1
      /\ UNCHANGED <<rows, runs, txnRows, txnRuns, job, ended>>
  BY <1>1 DEF NewDay, TypeOK
<1>3. TypeOK'
  BY <1>1, <1>2 DEF TypeOK
<1>4. CommittedSound'
  <2>1. Layer!ClosedBarsOnly'
    BY <1>1, <1>2 DEF CommittedSound, Layer!ClosedBarsOnly
  <2> QED
    BY <1>1, <1>2, <2>1 DEF CommittedSound, Layer!Provenance, Layer!NoUnexplainedGap,
                            Layer!NoGap, Layer!Stored, Layer!Omitted
<1>5. ASSUME NEW v \in Workers PROVE WorkerInv(v)'
  BY <1>2, <1>5, Others
<1> QED
  BY <1>3, <1>4, <1>5 DEF IInv

LEMMA NextPreserves == IInv /\ Next => IInv'
<1> SUFFICES ASSUME IInv, Next PROVE IInv'
  OBVIOUS
<1> USE DEF IInv
<1>1. CASE NewDay
  BY <1>1, NewDayStep
<1>2. ASSUME NEW w \in Workers, NEW kind, NEW p \in Pairs, StartJob(w, kind, p) PROVE IInv'
  BY <1>2, StartJobInv, QuietStep DEF OnlyMoves, StartJob, TypeOK
<1>3. ASSUME NEW w \in Workers, ReadWatermark(w) PROVE IInv'
  BY <1>3, ReadWatermarkInv, QuietStep DEF OnlyMoves, ReadWatermark, TypeOK
<1>4. ASSUME NEW w \in Workers, NEW page \in SUBSET (0 .. today), PageArrives(w, page) PROVE IInv'
  BY <1>4, PageArrivesInv, QuietStep DEF OnlyMoves, PageArrives, TypeOK
<1>5. ASSUME NEW w \in Workers, NEW refused \in BOOLEAN, At(w, "fetch"), FetchFails(w, refused)
      PROVE  IInv'
  BY <1>5, FetchFailsInv, QuietStep DEF OnlyMoves, FetchFails, TypeOK
<1>6. ASSUME NEW w \in Workers, ServerError(w) PROVE IInv'
  BY <1>6, ServerErrorInv, QuietStep DEF OnlyMoves, ServerError, FetchFails, TypeOK
<1>7. ASSUME NEW w \in Workers, RequestFails(w) \/ Refusal(w) PROVE IInv'
  BY <1>5, <1>7 DEF RequestFails, Refusal
<1>8. ASSUME NEW w \in Workers, InsertCandle(w) PROVE IInv'
  <2>1. PICK d \in NextCandle(w) :
          /\ \A v \in Workers \ {w} : ~Layer!Stored(txnRows[v], job[w].pair, d)
          /\ \A c \in txnRows'[w] :
               c \in txnRows[w] \/ (c.pair = job[w].pair /\ c.day = d)
    BY <1>8 DEF InsertCandle, TypeOK
  <2>2. OnlyMoves(w)
    BY <1>8, <2>1 DEF OnlyMoves, InsertCandle, TypeOK
  <2> QED
    BY <1>8, <2>2, InsertCandleInv, QuietStep
<1>9. ASSUME NEW w \in Workers, FinishRun(w) PROVE IInv'
  BY <1>9, FinishRunInv, QuietStep DEF OnlyMoves, FinishRun, TypeOK
<1>10. ASSUME NEW w \in Workers, RecordFailedRun(w) PROVE IInv'
  BY <1>10, RecordFailedRunInv, QuietStep DEF OnlyMoves, RecordFailedRun, TypeOK
<1>11. ASSUME NEW w \in Workers, WriteFails(w) PROVE IInv'
  BY <1>11, WriteFailsInv, QuietStep DEF OnlyMoves, WriteFails, TypeOK
<1>12. ASSUME NEW w \in Workers, Commit(w) \/ CommitUnacknowledged(w) PROVE IInv'
  <2>1. /\ At(w, "leave") /\ Publish(w) /\ today' = today
        /\ ended' \in {ended, ended \cup {Id(w)}}
        /\ \/ job' = [job EXCEPT ![w] = Raised(w)]
           \/ job' = [job EXCEPT ![w] = Idle(job[w])]
    BY <1>12 DEF Commit, CommitUnacknowledged, EndsNow
  <2> QED
    BY <2>1, CommitStep
<1>13. ASSUME NEW w \in Workers, WatermarkFails(w) \/ ConnectionLost(w) \/ Crash(w) PROVE IInv'
  <2>1. /\ ~At(w, "idle") /\ Discard(w) /\ UNCHANGED <<today, rows, runs>>
        /\ ended' \in {ended, ended \cup {Id(w)}}
        /\ \/ job' = [job EXCEPT ![w] = Raised(w)]
           \/ job' = [job EXCEPT ![w] = Idle(job[w])]
    BY <1>13 DEF WatermarkFails, ConnectionLost, Crash, Escapes, EndsNow, At
  <2> QED
    BY <2>1, RollbackStep
<1>14. ASSUME NEW w \in Workers, SkipPair(w) PROVE IInv'
  BY <1>14, SkipPairInv, QuietStep DEF OnlyMoves, SkipPair, TypeOK
<1> QED
  BY <1>1, <1>2, <1>3, <1>4, <1>6, <1>7, <1>8, <1>9, <1>10, <1>11, <1>12, <1>13, <1>14
  DEF Next, Step, Fault

-----------------------------------------------------------------------------
(* The theorems *)

\* IInv is an invariant: at every moment, between commits included, what is committed
\* and what each open transaction holds is accounted for.
THEOREM Invariance == Spec => []IInv
<1>1. Init => IInv
  <2> SUFFICES ASSUME Init PROVE IInv
    OBVIOUS
  <2>1. Blank \in Job /\ Blank.pc = "idle" /\ Blank.kind = "task" /\ Blank.day = 0
    <3>1. 1 \in Pairs
      BY IngestAssumption DEF Pairs
    <3>2. Blank \in Job
      BY <3>1 DEF Blank, Job, Phases
    <3> QED
      BY <3>2 DEF Blank
  <2>2. TypeOK
    BY <2>1 DEF Init, TypeOK
  <2>3. CommittedSound
    BY DEF Init, CommittedSound, Layer!Provenance, Layer!NoUnexplainedGap, Layer!ClosedBarsOnly
  <2>4. ASSUME NEW w \in Workers PROVE WorkerInv(w)
    <3>1. /\ job[w] = Blank /\ txnRows[w] = {} /\ txnRuns[w] = {}
          /\ runs = {} /\ rows = {} /\ today = 0
      BY <2>4 DEF Init
    <3>2. FreshIds(w) /\ KeysApart(w) /\ Attributed(w) /\ RunsSound(w) /\ Closed(w)
      BY <2>1, <3>1 DEF FreshIds, KeysApart, Attributed, RunsSound, Closed
    <3>3. Counted(w)
      BY <2>1, <3>1, FS_EmptySet DEF Counted, Writing
    <3>4. WindowSound(w)
      BY <2>1, <3>1 DEF WindowSound, At
    <3> QED
      BY <3>2, <3>3, <3>4 DEF WorkerInv
  <2> QED
    BY <2>2, <2>3, <2>4 DEF IInv
<1>2. IInv /\ [Next]_vars => IInv'
  <2> SUFFICES ASSUME IInv, UNCHANGED vars PROVE IInv'
    BY NextPreserves
  <2>1. UNCHANGED <<today, rows, runs, txnRows, txnRuns, job, ended>>
    BY DEF vars
  <2>2. TypeOK' /\ today' \in Nat /\ today <= today'
    BY <2>1 DEF IInv, TypeOK
  <2>3. CommittedSound'
    BY <2>1 DEF IInv, CommittedSound, Layer!Provenance, Layer!NoUnexplainedGap,
                Layer!ClosedBarsOnly, Layer!NoGap, Layer!Stored, Layer!Omitted
  <2>4. ASSUME NEW v \in Workers PROVE WorkerInv(v)'
    BY <2>1, <2>2, <2>4, Others
  <2> QED
    BY <2>2, <2>3, <2>4 DEF IInv
<1> QED
  BY <1>1, <1>2, PTL DEF Spec

\* Every variable keeps its type, the window and the page cursor of every request among
\* them, for every number of workers, pairs, days and retries.
THEOREM TypeCorrect == Spec => []TypeOK
<1>1. IInv => TypeOK
  BY DEF IInv
<1> QED
  BY <1>1, Invariance, PTL

\* pipeline/bronze.py keeps the bronze layer's promise: whatever interleaves and fails,
\* what becomes visible is whole runs with closed, new, attributed and counted rows and
\* no unexplained hole.
THEOREM Implementation == Spec => ImplementsLayer
<1>1. Init => Layer!Init
  BY DEF Init, Layer!Init
<1>2. IInv /\ [Next]_vars => [Layer!Next]_(Layer!vars)
  <2> SUFFICES ASSUME IInv, [Next]_vars PROVE Layer!Next \/ UNCHANGED Layer!vars
    OBVIOUS
  <2> USE DEF Layer!vars
  <2>1. CASE UNCHANGED vars
    BY <2>1 DEF vars
  <2>2. CASE NewDay
    BY <2>2 DEF NewDay, Layer!NewDay, Layer!Next
  <2>3. ASSUME NEW w \in Workers, Commit(w) \/ CommitUnacknowledged(w) PROVE Layer!Append
    <3>1. At(w, "leave") /\ Publish(w) /\ today' = today
      BY <2>3 DEF Commit, CommitUnacknowledged
    <3> QED
      BY <3>1, PublishIsAppend
  <2>4. ASSUME NEW w \in Workers, NEW kind, NEW p, StartJob(w, kind, p) PROVE UNCHANGED Layer!vars
    BY <2>4 DEF StartJob
  <2>5. ASSUME NEW w \in Workers,
               Step(w) \/ Fault(w), ~Commit(w), ~CommitUnacknowledged(w)
        PROVE  UNCHANGED Layer!vars
    BY <2>5 DEF Step, Fault, SkipPair, ReadWatermark, PageArrives, InsertCandle, FinishRun,
                RecordFailedRun, ServerError, RequestFails, Refusal, FetchFails, WriteFails,
                WatermarkFails, ConnectionLost, Crash, Escapes
  <2> QED
    BY <2>1, <2>2, <2>3, <2>4, <2>5 DEF Next, Step, Fault, Layer!Next
<1> QED
  BY <1>1, <1>2, Invariance, PTL DEF Spec, ImplementsLayer, Layer!Spec

-----------------------------------------------------------------------------
(* Row locks *)

\* What the attempt has inserted comes before everything it has yet to insert.
Ascending(w) ==
  At(w, "insert") => \A c \in txnRows[w] : c.run = Id(w) => \A e \in job[w].todo : c.day < e

\* Two keys of a worker that waits are in the order it inserts them in.
LEMMA HeldIsBefore ==
  ASSUME IInv, NEW v \in Workers, At(v, "insert"), Ascending(v), NEW c \in txnRows[v]
  PROVE  /\ c.pair \in Nat /\ c.day \in Nat
         /\ c.pair < job[v].pair \/ (c.pair = job[v].pair /\ \A e \in job[v].todo : c.day < e)
<1>1. TypeOK /\ WorkerInv(v)
  BY DEF IInv
<1>2. c.pair \in Nat /\ c.day \in Nat /\ c.run.pair = c.pair
  BY <1>1, IngestAssumption DEF TypeOK, Candle, Pairs, WorkerInv, Attributed
<1>3. CASE c.run = Id(v)
  BY <1>1, <1>2, <1>3, IdTyped DEF Ascending
<1>4. CASE c.run # Id(v)
  <2>1. PICK r \in txnRuns[v] : r.id = c.run
    BY <1>1, <1>4 DEF WorkerInv, Attributed, AccountedBy
  <2>2. r.id.pair < job[v].pair
    BY <1>1, NotYetRecorded DEF Writing, At
  <2> QED
    BY <1>2, <2>1, <2>2
<1> QED
  BY <1>2, <1>3, <1>4

\* Of workers that all wait for each other, the one whose next key is the last waits for
\* a key that its holder should have inserted later.
LEMMA NoCircle ==
  ASSUME IInv, \A w \in Workers : Ascending(w)
  PROVE  NoLockCycle
<1> SUFFICES ASSUME NEW S \in SUBSET Workers, S # {},
                    \A w \in S : \E v \in S : WaitsFor(w, v)
             PROVE  FALSE
  BY DEF NoLockCycle
<1>1. TypeOK /\ today \in Nat /\ NPairs \in Nat
  BY IngestAssumption DEF IInv, TypeOK
<1>2. \A w \in S : /\ At(w, "insert") /\ NextCandle(w) # {}
                   /\ job[w].pair \in Nat /\ job[w].pair <= NPairs
                   /\ NextCandle(w) \subseteq job[w].todo
                   /\ \A d \in NextCandle(w) : d \in Nat /\ d <= today
  <2> SUFFICES ASSUME NEW w \in S
               PROVE  /\ At(w, "insert") /\ NextCandle(w) # {}
                      /\ job[w].pair \in Nat /\ job[w].pair <= NPairs
                      /\ NextCandle(w) \subseteq job[w].todo
                      /\ \A d \in NextCandle(w) : d \in Nat /\ d <= today
    OBVIOUS
  <2>1. At(w, "insert") /\ NextCandle(w) # {} /\ NextCandle(w) \subseteq job[w].todo
    BY DEF WaitsFor, At, NextCandle
  <2>2. job[w] \in Job /\ WorkerInv(w)
    BY <1>1 DEF IInv, TypeOK
  <2>3. job[w].pair \in Nat /\ job[w].pair <= NPairs
    BY <1>1, <2>2 DEF Job, Pairs
  <2>4. job[w].todo \subseteq job[w].ws .. job[w].we /\ job[w].we < today
    BY <2>1, <2>2 DEF WorkerInv, WindowSound, At
  <2>5. job[w].ws \in Nat /\ job[w].we \in Int /\ job[w].todo \subseteq Nat
    BY <2>2 DEF Job
  <2>6. \A d \in job[w].todo : d \in Nat /\ d <= today
    BY <1>1, <2>4, <2>5
  <2> QED
    BY <2>1, <2>3, <2>6
<1> DEFINE D == {job[w].pair : w \in S}
           P == Latest(D)
<1>3. P \in D /\ \A w \in S : job[w].pair <= P
  <2>1. D \in SUBSET Nat /\ D # {} /\ \A p \in D : p <= NPairs
    BY <1>2
  <2> HIDE DEF D
  <2>2. Latest(D) \in D /\ \A e \in D : e <= Latest(D)
    BY <1>1, <2>1, LatestExists
  <2> QED
    BY <2>2 DEF D
<1> HIDE DEF P
<1> DEFINE E == {d \in Nat : \E w \in S : job[w].pair = P /\ d \in NextCandle(w)}
           M == Latest(E)
<1>4. M \in E /\ \A e \in E : e <= M
  <2>1. E # {}
    BY <1>2, <1>3
  <2>2. \A e \in E : e <= today
    BY <1>2
  <2> HIDE DEF E
  <2>3. E \in SUBSET Nat
    BY DEF E
  <2> QED
    BY <1>1, <2>1, <2>2, <2>3, LatestExists
<1> HIDE DEF M
<1>5. PICK w \in S : job[w].pair = P /\ M \in NextCandle(w)
  BY <1>4
<1>6. PICK v \in S : WaitsFor(w, v)
  OBVIOUS
<1>7. PICK c \in txnRows[v] : c.pair = P /\ c.day = M
  <2>1. PICK d \in NextCandle(w) : Layer!Stored(txnRows[v], P, d)
    BY <1>5, <1>6 DEF WaitsFor
  <2>2. d = M
    BY <1>2, <1>5, <2>1 DEF NextCandle
  <2> QED
    BY <2>1, <2>2 DEF Layer!Stored
<1>8. job[v].pair = P /\ \A e \in job[v].todo : M < e
  <2>1. P < job[v].pair \/ (P = job[v].pair /\ \A e \in job[v].todo : M < e)
    BY <1>2, <1>7, HeldIsBefore
  <2>2. job[v].pair <= P /\ job[v].pair \in Nat /\ P \in Nat
    BY <1>2, <1>3
  <2> QED
    BY <2>1, <2>2
<1>9. PICK e \in NextCandle(v) : e \in job[v].todo /\ e \in Nat
  BY <1>2
<1>10. e \in E /\ M < e
  BY <1>8, <1>9
<1> QED
  BY <1>4, <1>10

\* Only the insert of the next candle and the first page of an attempt touch what is compared.
LEMMA StaysAscending ==
  ASSUME IInv, [Next]_vars, NEW w \in Workers, Ascending(w), At(w, "insert")'
  PROVE  Ascending(w)'
<1>1. TypeOK /\ WorkerInv(w) /\ job \in [Workers -> Job] /\ job[w] \in Job
  BY DEF IInv, TypeOK
<1>2. ASSUME job'[w] = job[w], txnRows'[w] = txnRows[w] PROVE Ascending(w)'
  BY <1>2 DEF Ascending, At, Id
<1>3. ASSUME job'[w].todo = {} PROVE Ascending(w)'
  BY <1>3 DEF Ascending
<1>4. ASSUME NEW page, PageArrives(w, page) PROVE Ascending(w)'
  <2>1. At(w, "fetch") /\ txnRows' = txnRows
    BY <1>4 DEF PageArrives
  <2>2. Id(w)' = Id(w)
    BY <1>1, <1>4 DEF PageArrives, Id, Job
  <2>3. \A c \in txnRows[w] : c.run # Id(w)
    BY <1>1, <2>1, NotYetRecorded DEF WorkerInv, Attributed, AccountedBy, At, Writing
  <2> QED
    BY <2>1, <2>2, <2>3 DEF Ascending
<1>5. ASSUME InsertCandle(w) PROVE Ascending(w)'
  <2>1. PICK d \in NextCandle(w) :
          /\ job' = [job EXCEPT ![w] =
               [@ EXCEPT !.todo = job[w].todo \ {d},
                         !.inserted = IF ~Layer!Stored(Visible(w), job[w].pair, d)
                                      THEN job[w].inserted + 1 ELSE job[w].inserted]]
          /\ txnRows' = [txnRows EXCEPT ![w] =
               IF ~Layer!Stored(Visible(w), job[w].pair, d)
               THEN @ \cup {[pair |-> job[w].pair, day |-> d, run |-> Id(w)]} ELSE @]
    BY <1>5 DEF InsertCandle
  <2>4. \A c \in txnRows'[w] : c \in txnRows[w] \/ c.day = d
    BY <1>1, <2>1 DEF TypeOK
  <2>2. job'[w].todo = job[w].todo \ {d} /\ Id(w)' = Id(w)
    BY <1>1, <2>1 DEF Id, Job
  <2>3. At(w, "insert") /\ d \in Nat /\ \A e \in job[w].todo : e \in Nat /\ d <= e
    BY <1>1, <1>5 DEF InsertCandle, NextCandle, Job
  <2> QED
    BY <2>2, <2>3, <2>4 DEF Ascending
<1>6. ASSUME NEW refused, FetchFails(w, refused) PROVE job'[w].todo = {}
  BY <1>1, <1>6 DEF FetchFails, Job
<1>7. ASSUME ReadWatermark(w) PROVE job'[w].todo = {}
  <2>1. job[w].todo = {} /\ job'[w].todo = job[w].todo
    BY <1>1, <1>7 DEF ReadWatermark, WorkerInv, WindowSound, Job
  <2> QED
    BY <2>1
<1>8. ASSUME At(w, "fetch"), job' = [job EXCEPT ![w] = [@ EXCEPT !.tries = job[w].tries + 1]]
      PROVE  FALSE
  BY <1>1, <1>8 DEF At, Job
<1>9. Raised(w).pc # "insert" /\ Returned(w, job[w]).pc # "insert" /\ Idle(job[w]).pc # "insert"
  BY <1>1 DEF Raised, Returned, Idle, FreshAttempt, Blank, Job
<1>10. ASSUME \/ SkipPair(w) \/ FinishRun(w) \/ RecordFailedRun(w) \/ Commit(w) \/ WriteFails(w)
              \/ WatermarkFails(w) \/ ConnectionLost(w) \/ CommitUnacknowledged(w) \/ Crash(w)
       PROVE  FALSE
  <2>1. \/ job'[w] \in {Raised(w), Returned(w, job[w]), Idle(job[w])}
        \/ job'[w].pc = "record"
    BY <1>1, <1>10 DEF SkipPair, FinishRun, RecordFailedRun, Commit, WriteFails, WatermarkFails,
                       ConnectionLost, CommitUnacknowledged, Crash, Escapes, Job
  <2> QED
    BY <1>9, <2>1 DEF At
<1>11. ASSUME NEW kind, NEW p \in Pairs, StartJob(w, kind, p) PROVE FALSE
  BY <1>1, <1>11 DEF StartJob, FreshAttempt, Blank, At, Job
<1>12. ASSUME Step(w) \/ Fault(w) PROVE Ascending(w)'
  BY <1>3, <1>4, <1>5, <1>6, <1>7, <1>8, <1>10, <1>12
  DEF Step, Fault, ServerError, RequestFails, Refusal
<1>13. ASSUME NEW v \in Workers \ {w}, Step(v) \/ Fault(v) PROVE Ascending(w)'
  <2>1. job'[w] = job[w] /\ txnRows'[w] = txnRows[w]
    BY <1>1, <1>13 DEF Step, Fault, TypeOK, SkipPair, ReadWatermark, PageArrives, InsertCandle,
       FinishRun, RecordFailedRun, Commit, ServerError, RequestFails, Refusal, FetchFails,
       WriteFails, WatermarkFails, ConnectionLost, CommitUnacknowledged, Crash, Escapes,
       Publish, Discard
  <2> QED
    BY <1>2, <2>1
<1>14. ASSUME NEW v \in Workers \ {w}, NEW kind, NEW p, StartJob(v, kind, p) PROVE Ascending(w)'
  BY <1>1, <1>2, <1>14 DEF StartJob
<1>15. ASSUME NewDay \/ UNCHANGED vars PROVE Ascending(w)'
  BY <1>2, <1>15 DEF NewDay, vars
<1> QED
  BY <1>11, <1>12, <1>13, <1>14, <1>15 DEF Next

\* No circle of waiting connections, for any number of workers: every transaction takes its
\* keys in the one order that the pairs of config.yaml and the days have.
THEOREM LocksFormNoCircle == Spec => []NoLockCycle
<1> DEFINE Inv == \A w \in Workers : Ascending(w)
<1>1. Init => Inv
  BY DEF Init, Ascending
<1>2. IInv /\ Inv /\ [Next]_vars => Inv'
  BY StaysAscending DEF Ascending
<1>3. IInv /\ Inv => NoLockCycle
  BY NoCircle
<1> QED
  BY <1>1, <1>2, <1>3, Invariance, PTL DEF Spec

-----------------------------------------------------------------------------
(* The audit *)

\* A task that is about to commit has written its audit row.
Recording ==
  \A w \in Workers : At(w, "leave") /\ job[w].kind = "task" => \E r \in txnRuns[w] : r.id = Id(w)

Audited(i) == \E r \in runs \cup UNION {txnRuns[w] : w \in Workers} : r.id = i

\* What a worker that returns from an attempt leaves behind.
LEMMA ReturnsAudited ==
  ASSUME TypeOK, Recording, EveryAttemptAudited, NEW w \in Workers, NEW r, r.id = Id(w),
         txnRuns' = [txnRuns EXCEPT ![w] = @ \cup {r}], UNCHANGED runs,
         job' = [job EXCEPT ![w] = Returned(w, @)], ended' = ended \cup ReturnsNow(w)
  PROVE  Recording' /\ EveryAttemptAudited'
<1>1. job \in [Workers -> Job] /\ txnRuns \in [Workers -> SUBSET AuditRow]
  BY DEF TypeOK
<1>2. r \in txnRuns'[w] /\ \A v \in Workers : txnRuns[v] \subseteq txnRuns'[v]
  BY <1>1
<1>3. \A i : Audited(i) \/ i = Id(w) => Audited(i)'
  BY <1>2 DEF Audited
<1>4. EveryAttemptAudited'
  BY <1>3 DEF EveryAttemptAudited, Audited, ReturnsNow
<1>5. ASSUME NEW v \in Workers, At(v, "leave")', job'[v].kind = "task"
      PROVE  \E q \in txnRuns'[v] : q.id = Id(v)'
  <2>1. CASE v # w
    BY <1>1, <1>5, <2>1 DEF Recording, At, Id
  <2>2. CASE v = w
    <3>1. job'[w] = [job[w] EXCEPT !.pc = "leave"]
      BY <1>1, <1>5, <2>2 DEF Returned, FreshAttempt, Blank, At
    <3>2. Id(w)' = Id(w)
      BY <1>1, <3>1 DEF Id, Job
    <3> QED
      BY <1>2, <2>2, <3>2
  <2> QED
    BY <2>1, <2>2
<1> QED
  BY <1>4, <1>5 DEF Recording

\* A step that neither audits nor ends anything and leads nobody to the end of a connection.
LEMMA NothingEnds ==
  ASSUME Recording, EveryAttemptAudited, UNCHANGED <<runs, txnRuns, ended>>,
         \A v \in Workers : job'[v] = job[v] \/ ~(At(v, "leave")' /\ job'[v].kind = "task")
  PROVE  Recording' /\ EveryAttemptAudited'
BY DEF Recording, EveryAttemptAudited, At, Id

\* Every attempt is audited as long as its connection survives: whatever vendors answer and
\* whichever statement of a write fails.
THEOREM AttemptsAreAudited ==
  ASSUME Faults \cap {"watermark", "connection", "crash"} = {}
  PROVE  Spec => []EveryAttemptAudited
<1>1. Init => Recording /\ EveryAttemptAudited
  BY DEF Init, Recording, EveryAttemptAudited, At, Blank
<1>2. TypeOK /\ Recording /\ EveryAttemptAudited /\ [Next]_vars => Recording' /\ EveryAttemptAudited'
  <2> SUFFICES ASSUME TypeOK, Recording, EveryAttemptAudited, [Next]_vars
               PROVE  Recording' /\ EveryAttemptAudited'
    OBVIOUS
  <2>1. job \in [Workers -> Job] /\ txnRuns \in [Workers -> SUBSET AuditRow]
    BY DEF TypeOK
  <2>2. CASE NewDay \/ UNCHANGED vars
    BY <2>2, NothingEnds DEF NewDay, vars
  <2>3. ASSUME NEW w \in Workers, NEW kind, NEW p, StartJob(w, kind, p)
        PROVE  Recording' /\ EveryAttemptAudited'
    <3>1. job'[w].pc = "watermark" /\ \A v \in Workers \ {w} : job'[v] = job[v]
      BY <2>1, <2>3 DEF StartJob, FreshAttempt, Blank
    <3> QED
      BY <2>3, <3>1, NothingEnds DEF StartJob, At
  <2>4. ASSUME NEW w \in Workers, NEW page, PageArrives(w, page) \/ ReadWatermark(w)
        PROVE  Recording' /\ EveryAttemptAudited'
    <3>1. job'[w].pc \in {"fetch", "insert"} /\ \A v \in Workers \ {w} : job'[v] = job[v]
      <4>1. CASE ReadWatermark(w)
        BY <2>1, <4>1 DEF ReadWatermark, Job
      <4>2. CASE PageArrives(w, page)
        BY <2>1, <4>2 DEF PageArrives, Job
      <4> QED
        BY <2>4, <4>1, <4>2
    <3> QED
      BY <2>4, <3>1, NothingEnds DEF PageArrives, ReadWatermark, At
  <2>5. ASSUME NEW w \in Workers, ServerError(w) \/ RequestFails(w) \/ Refusal(w)
        PROVE  Recording' /\ EveryAttemptAudited'
    <3>1. /\ job'[w].pc \in {"fetch", "insert"} /\ \A v \in Workers \ {w} : job'[v] = job[v]
          /\ UNCHANGED <<runs, txnRuns, ended>>
      BY <2>1, <2>5 DEF ServerError, RequestFails, Refusal, FetchFails, At, Job
    <3> QED
      BY <3>1, NothingEnds DEF At
  <2>6. ASSUME NEW w \in Workers, InsertCandle(w) \/ WriteFails(w)
        PROVE  Recording' /\ EveryAttemptAudited'
    <3>1. /\ job'[w].pc \in {"insert", "record"} /\ \A v \in Workers \ {w} : job'[v] = job[v]
          /\ UNCHANGED <<runs, txnRuns, ended>>
      BY <2>1, <2>6 DEF InsertCandle, WriteFails, At, Job
    <3> QED
      BY <3>1, NothingEnds DEF At
  <2>7. ASSUME NEW w \in Workers, SkipPair(w)
        PROVE  Recording' /\ EveryAttemptAudited'
    <3>1. job'[w].kind = "main" /\ \A v \in Workers \ {w} : job'[v] = job[v]
      BY <2>1, <2>7 DEF SkipPair, Returned, FreshAttempt, Blank, Job
    <3> QED
      BY <2>7, <3>1, NothingEnds DEF SkipPair
  <2>8. ASSUME NEW w \in Workers, FinishRun(w)
        PROVE  Recording' /\ EveryAttemptAudited'
    <3>1. Audit(w, job[w].status, job[w].inserted).id = Id(w)
      BY DEF Audit
    <3> QED
      BY <2>8, <3>1, ReturnsAudited DEF FinishRun
  <2>9. ASSUME NEW w \in Workers, RecordFailedRun(w)
        PROVE  Recording' /\ EveryAttemptAudited'
    <3>1. Audit(w, "failed", 0).id = Id(w)
      BY DEF Audit
    <3> QED
      BY <2>9, <3>1, ReturnsAudited DEF RecordFailedRun
  <2>10. ASSUME NEW w \in Workers, Commit(w)
         PROVE  Recording' /\ EveryAttemptAudited'
    <3>1. /\ At(w, "leave") /\ runs' = runs \cup txnRuns[w]
          /\ txnRuns' = [txnRuns EXCEPT ![w] = {}] /\ ended' = ended \cup EndsNow(w)
          /\ job'[w] \in {Raised(w), Idle(job[w])} /\ \A v \in Workers \ {w} : job'[v] = job[v]
      BY <2>1, <2>10 DEF Commit, Publish, Discard
    <3>2. \A i : Audited(i) => Audited(i)'
      BY <2>1, <3>1 DEF Audited
    <3>3. job[w].kind \in {"task", "main"}
      BY <2>1 DEF Job
    <3>4. \A i \in EndsNow(w) : Audited(i)'
      BY <3>1, <3>3 DEF EndsNow, Recording, Audited
    <3>5. EveryAttemptAudited'
      BY <3>1, <3>2, <3>4 DEF EveryAttemptAudited, Audited
    <3>6. ~At(w, "leave")'
      BY <3>1 DEF At, Raised, Idle, FreshAttempt, Blank
    <3>7. ASSUME NEW v \in Workers, v # w, At(v, "leave")', job'[v].kind = "task"
          PROVE  \E r \in txnRuns'[v] : r.id = Id(v)'
      BY <2>1, <3>1, <3>7 DEF Recording, At, Id
    <3> QED
      BY <3>5, <3>6, <3>7 DEF Recording
  <2>11. ASSUME NEW w \in Workers,
                WatermarkFails(w) \/ ConnectionLost(w) \/ CommitUnacknowledged(w) \/ Crash(w)
         PROVE  FALSE
    BY <2>11 DEF WatermarkFails, ConnectionLost, CommitUnacknowledged, Crash
  <2> QED
    BY <2>2, <2>3, <2>4, <2>5, <2>6, <2>7, <2>8, <2>9, <2>10, <2>11 DEF Next, Step, Fault
<1> QED
  BY <1>1, <1>2, TypeCorrect, PTL DEF Spec

-----------------------------------------------------------------------------
(* Jobs end *)

Ranks == (Nat \X Nat) \X (Nat \X Nat)

\* One rank below another.
Descent == {ss \in Ranks \X Ranks : LexLess(ss[1], ss[2])}

\* The ranks do not descend for ever.
LEMMA NoEndlessDescent == IsWellFoundedOn(Descent, Ranks)
<1> DEFINE Lower == OpToRel(<, Nat)
           Pairwise == LexPairOrdering(Lower, Lower, Nat, Nat)
           Both == LexPairOrdering(Pairwise, Pairwise, Nat \X Nat, Nat \X Nat)
<1>1. \A m, n \in Nat : m < n => <<m, n>> \in Lower
  BY DEF OpToRel
<1>2. ASSUME NEW x \in Nat \X Nat, NEW y \in Nat \X Nat, PairLess(x, y)
      PROVE  <<x, y>> \in Pairwise
  BY <1>1, <1>2 DEF PairLess, LexPairOrdering
<1>3. ASSUME NEW x \in Ranks, NEW y \in Ranks, LexLess(x, y)
      PROVE  <<x, y>> \in Both
  <2> HIDE DEF Pairwise
  <2>1. x[1] \in Nat \X Nat /\ y[1] \in Nat \X Nat /\ x[2] \in Nat \X Nat /\ y[2] \in Nat \X Nat
    BY DEF Ranks
  <2> QED
    BY <1>2, <1>3, <2>1 DEF LexLess, LexPairOrdering, Ranks
<1>4. Descent \cap (Ranks \X Ranks) \subseteq Both
  <2> HIDE DEF Both
  <2> QED
    BY <1>3 DEF Descent
<1>5. IsWellFoundedOn(Pairwise, Nat \X Nat)
  BY NatLessThanWellFounded, WFLexPairOrdering
<1>6. IsWellFoundedOn(Both, Ranks)
  <2> HIDE DEF Pairwise
  <2> QED
    BY <1>5, WFLexPairOrdering DEF Ranks
<1> HIDE DEF Both
<1> QED
  BY <1>4, <1>6, IsWellFoundedOnSubrelation

\* The stages are numbers.
LEMMA StageTyped == \A p \in Phases : Stage[p] \in Nat
BY DEF Stage, Phases

\* A job that is under way and within its limits has a rank.
LEMMA AheadTyped ==
  ASSUME NEW j \in Job, Limited(j), j.pc = "insert" => IsFiniteSet(j.todo)
  PROVE  Ahead(j) \in Ranks
<1>1. /\ j.pair \in 1 .. NPairs /\ j.attempt \in Nat /\ NPairs \in Nat /\ MaxRetries \in Nat
      /\ MaxTries \in Nat /\ j.tries \in Nat /\ j.cursor \in Nat /\ j.we \in Nat \cup {-1}
      /\ j.pc \in Phases
  BY IngestAssumption DEF Job, Pairs
<1>2. Stage[j.pc] \in Nat
  BY <1>1, StageTyped
<1>3. j.pc = "insert" => Cardinality(j.todo) \in Nat
  BY FS_CardinalityType
<1>4. NPairs - j.pair + MaxRetries - j.attempt + 1 \in Nat
  BY <1>1 DEF Limited
<1>5. j.pc = "fetch" => j.we + 1 - j.cursor \in Nat /\ MaxTries - j.tries \in Nat
  BY <1>1 DEF Limited
<1> QED
  BY <1>2, <1>3, <1>4, <1>5 DEF Ahead, Ranks

\* A stage further in the same attempt.
LEMMA LaterStage ==
  ASSUME NEW j \in Job, NEW k \in Job, j.pc # "idle", k.pc # "idle",
         k.pair = j.pair, k.attempt = j.attempt, Stage[k.pc] < Stage[j.pc]
  PROVE  LexLess(Ahead(k), Ahead(j))
BY DEF LexLess, PairLess, Ahead

\* An attempt further, or none to come.
LEMMA LaterAttempt ==
  ASSUME NEW j \in Job, NEW k \in Job, j.pc # "idle", Limited(j),
         \/ k.pc = "idle"
         \/ k.pair = j.pair /\ k.attempt = j.attempt + 1
         \/ k.pair = j.pair + 1 /\ k.attempt = 0 /\ j.attempt = 0
  PROVE  LexLess(Ahead(k), Ahead(j))
<1>1. /\ j.pair \in 1 .. NPairs /\ j.attempt \in Nat /\ NPairs \in Nat /\ MaxRetries \in Nat
  BY IngestAssumption DEF Job, Pairs
<1> QED
  BY <1>1 DEF LexLess, PairLess, Ahead, Limited

\* A page, a try or a candle further in the same stage.
LEMMA LaterInStage ==
  ASSUME NEW j \in Job, NEW k \in Job, Limited(j), Limited(k),
         k.pc = j.pc, k.pair = j.pair, k.attempt = j.attempt,
         \/ j.pc = "fetch" /\ k.we = j.we /\ j.cursor < k.cursor
         \/ j.pc = "fetch" /\ k.we = j.we /\ j.cursor = k.cursor /\ j.tries < k.tries
         \/ j.pc = "insert" /\ Cardinality(k.todo) < Cardinality(j.todo)
  PROVE  LexLess(Ahead(k), Ahead(j))
<1>1. /\ j.we \in Int /\ j.cursor \in Int /\ k.cursor \in Int /\ MaxTries \in Nat
      /\ j.tries \in Nat /\ k.tries \in Nat
  BY IngestAssumption DEF Job
<1> QED
  BY <1>1 DEF LexLess, PairLess, Ahead

\* How w's locals may change: within the limits, and nearer to the end.
Advances(w) ==
  /\ \A v \in Workers \ {w} : job'[v] = job[v]
  /\ Limited(job'[w]) /\ LexLess(Ahead(job'[w]), Ahead(job[w]))

\* The next attempt, the next pair, or none.
LEMMA AttemptEnds ==
  ASSUME IInv, IInv', NEW w \in Workers, ~At(w, "idle"), Limited(job[w]), NEW j,
         job' = [job EXCEPT ![w] = j],
         \/ j = Idle(job[w])
         \/ j = Raised(w)
         \/ /\ job[w].kind = "main" /\ job[w].pair < NPairs
            /\ j = FreshAttempt(job[w], job[w].pair + 1, 0)
  PROVE  Advances(w)
<1>1. /\ job \in [Workers -> Job] /\ today \in Nat /\ NPairs \in Nat /\ MaxRetries \in Nat
      /\ job[w].kind = "main" => job[w].attempt = 0
      /\ MaxTries \in Nat \ {0}
  BY IngestAssumption DEF IInv, TypeOK, WorkerInv, FreshIds
<1>2. job[w] \in Job /\ job'[w] = j /\ job'[w] \in Job /\ \A v \in Workers \ {w} : job'[v] = job[v]
  BY <1>1 DEF IInv, TypeOK
<1>3. job[w].pair \in 1 .. NPairs /\ job[w].attempt \in Nat
  BY <1>2 DEF Job, Pairs
<1>4. ASSUME j = Idle(job[w]) PROVE j.pc = "idle" /\ j.attempt = 0
  BY <1>4 DEF Idle, Blank
<1>5. ASSUME NEW p \in Pairs, NEW n \in Nat, j = FreshAttempt(job[w], p, n)
      PROVE  j.pc = "watermark" /\ j.pair = p /\ j.attempt = n /\ j.tries = 0
  <2>1. j.tries = 0
    BY <1>5 DEF FreshAttempt, Blank
  <2> QED
    BY <1>1, <1>2, <1>5, <2>1, FreshAttemptTyped
<1>6. CASE j = Idle(job[w])
  BY <1>1, <1>2, <1>4, <1>6, LaterAttempt DEF Advances, At, Limited
<1>7. CASE /\ job[w].kind = "main" /\ job[w].pair < NPairs
           /\ j = FreshAttempt(job[w], job[w].pair + 1, 0)
  <2>1. job[w].pair + 1 \in Pairs
    BY <1>1, <1>3, <1>7 DEF Pairs
  <2>2. j.pc = "watermark" /\ j.pair = job[w].pair + 1 /\ j.attempt = 0 /\ j.tries = 0
    BY <1>5, <1>7, <2>1
  <2>3. Limited(j)
    BY <1>1, <2>2 DEF Limited
  <2> QED
    BY <1>1, <1>2, <1>7, <2>2, <2>3, LaterAttempt DEF Advances, At
<1>8. CASE j = FreshAttempt(job[w], job[w].pair, job[w].attempt + 1) /\ job[w].attempt < MaxRetries
  <2>1. job[w].pair \in Pairs /\ job[w].attempt + 1 \in Nat
    BY <1>3 DEF Pairs
  <2>2. j.pc = "watermark" /\ j.pair = job[w].pair /\ j.attempt = job[w].attempt + 1 /\ j.tries = 0
    BY <1>5, <1>8, <2>1
  <2>3. Limited(j)
    BY <1>1, <1>3, <1>8, <2>2 DEF Limited
  <2> QED
    BY <1>1, <1>2, <2>2, <2>3, LaterAttempt DEF Advances, At
<1> QED
  BY <1>6, <1>7, <1>8 DEF Raised

\* w's locals after a step that touches no other worker's.
SameAttemptAt(w, phase) ==
  /\ \A v \in Workers \ {w} : job'[v] = job[v]
  /\ job'[w].pc = phase /\ job'[w].pair = job[w].pair /\ job'[w].attempt = job[w].attempt

\* The next stage of the attempt.
LEMMA StageEnds ==
  ASSUME IInv, IInv', NEW w \in Workers, Limited(job[w]),
         NEW phase \in Phases \ {"idle", "watermark"}, SameAttemptAt(w, phase),
         Stage[phase] < Stage[job[w].pc],
         phase = "fetch" => job'[w].cursor <= job'[w].we /\ job'[w].tries < MaxTries
  PROVE  Advances(w)
<1>1. job[w] \in Job /\ job'[w] \in Job
  BY DEF IInv, TypeOK
<1>2. job[w].pc # "idle"
  BY StageTyped DEF Stage
<1>3. Limited(job'[w])
  BY DEF Limited, SameAttemptAt
<1> QED
  BY <1>1, <1>2, <1>3, LaterStage DEF Advances, SameAttemptAt

\* Within a stage.
LEMMA StageGoesOn ==
  ASSUME IInv, IInv', NEW w \in Workers, Limited(job[w]), Limited(job'[w]),
         SameAttemptAt(w, job[w].pc),
         \/ At(w, "fetch") /\ job'[w].we = job[w].we /\ job[w].cursor < job'[w].cursor
         \/ /\ At(w, "fetch") /\ job'[w].we = job[w].we /\ job[w].cursor = job'[w].cursor
            /\ job[w].tries < job'[w].tries
         \/ At(w, "insert") /\ Cardinality(job'[w].todo) < Cardinality(job[w].todo)
  PROVE  Advances(w)
<1>1. job[w] \in Job /\ job'[w] \in Job
  BY DEF IInv, TypeOK
<1> QED
  BY <1>1, LaterInStage DEF Advances, SameAttemptAt, At

\* What the answers to a page leave to be asked lies further on.
LEMMA PageEndSound ==
  ASSUME NEW j \in Job, j.cursor <= j.we
  PROVE  PageEnd(j) \in Nat /\ j.cursor <= PageEnd(j)
<1>1. j.cursor \in Nat /\ j.we \in Int /\ PageSpan[j.pair] \in Nat
  BY IngestAssumption DEF Job, Pairs
<1> QED
  BY <1>1 DEF PageEnd

\* The candles the loop has not reached are finitely many.
LEMMA TodoIsFinite ==
  ASSUME IInv, NEW w \in Workers, At(w, "insert")
  PROVE  IsFiniteSet(job[w].todo)
<1>1. job[w] \in Job
  BY DEF IInv, TypeOK
<1>2. job[w].ws \in Int /\ job[w].we \in Int
  BY <1>1 DEF Job
<1>3. job[w].todo \subseteq job[w].fetched /\ job[w].fetched \subseteq job[w].ws .. job[w].we
  BY DEF IInv, WorkerInv, WindowSound, At
<1> QED
  BY <1>2, <1>3, FS_Interval, FS_Subset

\* A worker's every step.
LEMMA EveryStepAdvances ==
  ASSUME IInv, IInv', NEW w \in Workers, Limited(job[w]), Step(w) \/ Fault(w)
  PROVE  Advances(w)
<1>1. job \in [Workers -> Job] /\ job[w] \in Job /\ job'[w] \in Job
  BY DEF IInv, TypeOK
<1>2. /\ job[w].pair \in 1 .. NPairs /\ job[w].cursor \in Nat /\ job[w].tries \in Nat
      /\ job[w].we \in Int /\ MaxTries \in Nat \ {0} /\ NPairs \in Nat
  BY <1>1, IngestAssumption DEF Job, Pairs
<1>3. ASSUME NEW j, j = Returned(w, job[w]), job' = [job EXCEPT ![w] = j],
             job[w].pc \in {"watermark", "insert", "record"}
      PROVE  Advances(w)
  <2>1. CASE job[w].kind = "main" /\ job[w].pair < NPairs
    BY <1>3, <2>1, AttemptEnds DEF Returned, At
  <2>2. CASE ~(job[w].kind = "main" /\ job[w].pair < NPairs)
    <3>1. SameAttemptAt(w, "leave")
      BY <1>1, <1>3, <2>2 DEF Returned, Job, SameAttemptAt
    <3>2. Stage["leave"] < Stage[job[w].pc]
      BY <1>3 DEF Stage
    <3> QED
      BY <3>1, <3>2, StageEnds DEF Phases
  <2> QED
    BY <2>1, <2>2
<1>4. CASE SkipPair(w)
  BY <1>3, <1>4 DEF SkipPair, At
<1>5. CASE ReadWatermark(w)
  <2>1. /\ SameAttemptAt(w, job'[w].pc) /\ job'[w].tries = job[w].tries
        /\ job'[w].pc = IF job'[w].cursor <= job'[w].we THEN "fetch" ELSE "insert"
    BY <1>1, <1>5 DEF ReadWatermark, Job, SameAttemptAt
  <2>2. At(w, "watermark") /\ job[w].tries < MaxTries
    BY <1>5 DEF ReadWatermark, At, Limited
  <2> QED
    BY <2>1, <2>2, StageEnds DEF At, Stage, Phases
<1>6. ASSUME NEW page, PageArrives(w, page) PROVE Advances(w)
  <2>1. /\ SameAttemptAt(w, job'[w].pc) /\ job'[w].we = job[w].we
        /\ job'[w].tries = 0 /\ job'[w].cursor = PageEnd(job[w]) + 1
        /\ job'[w].pc = IF job'[w].cursor > job'[w].we THEN "insert" ELSE "fetch"
    BY <1>1, <1>6 DEF PageArrives, Job, SameAttemptAt
  <2>2. At(w, "fetch") /\ job[w].cursor < job'[w].cursor /\ job'[w].cursor \in Nat
    <3>1. At(w, "fetch") /\ job[w].cursor <= job[w].we
      BY <1>6 DEF PageArrives, At, Limited
    <3> QED
      BY <1>1, <1>2, <2>1, <3>1, PageEndSound
  <2>3. CASE job'[w].cursor > job'[w].we
    BY <2>1, <2>2, <2>3, StageEnds DEF At, Stage, Phases
  <2>4. CASE ~(job'[w].cursor > job'[w].we)
    <3>1. Limited(job'[w])
      BY <1>2, <2>1, <2>2, <2>4 DEF Limited, SameAttemptAt
    <3> QED
      BY <2>1, <2>2, <2>4, <3>1, StageGoesOn DEF At
  <2> QED
    BY <2>3, <2>4
<1>7. ASSUME NEW refused, At(w, "fetch"), FetchFails(w, refused) PROVE Advances(w)
  <2>1. SameAttemptAt(w, "insert")
    BY <1>1, <1>7 DEF FetchFails, Job, SameAttemptAt
  <2> QED
    BY <1>7, <2>1, StageEnds DEF At, Stage, Phases
<1>8. CASE ServerError(w)
  <2>1. CASE job[w].tries + 1 < MaxTries
    <3>1. /\ SameAttemptAt(w, "fetch") /\ At(w, "fetch") /\ job'[w].we = job[w].we
          /\ job'[w].cursor = job[w].cursor /\ job'[w].tries = job[w].tries + 1
      BY <1>1, <1>8, <2>1 DEF ServerError, At, Job, SameAttemptAt
    <3>2. Limited(job'[w])
      BY <2>1, <3>1 DEF Limited, SameAttemptAt, At
    <3> QED
      BY <1>2, <3>1, <3>2, StageGoesOn DEF At
  <2> QED
    BY <1>7, <1>8, <2>1 DEF ServerError
<1>9. CASE RequestFails(w) \/ Refusal(w)
  BY <1>7, <1>9 DEF RequestFails, Refusal
<1>10. CASE InsertCandle(w)
  <2>1. At(w, "insert") /\ SameAttemptAt(w, "insert")
    BY <1>1, <1>10 DEF InsertCandle, At, Job, SameAttemptAt
  <2>2. PICK d \in job[w].todo : job'[w].todo = job[w].todo \ {d}
    BY <1>1, <1>10 DEF InsertCandle, NextCandle, Job
  <2>3. Limited(job'[w])
    BY <2>1 DEF Limited, SameAttemptAt
  <2>4. Cardinality(job'[w].todo) < Cardinality(job[w].todo)
    <3>1. IsFiniteSet(job[w].todo)
      BY <2>1, TodoIsFinite
    <3>2. Cardinality(job[w].todo) \in Nat
      BY <3>1, FS_CardinalityType
    <3>3. Cardinality(job[w].todo \ {d}) = Cardinality(job[w].todo) - 1
      BY <3>1, FS_RemoveElement
    <3> QED
      BY <2>2, <3>2, <3>3
  <2> QED
    BY <2>1, <2>3, <2>4, StageGoesOn DEF At
<1>11. CASE FinishRun(w) \/ RecordFailedRun(w)
  BY <1>3, <1>11 DEF FinishRun, RecordFailedRun, At
<1>12. CASE WriteFails(w)
  <2>1. At(w, "insert") /\ SameAttemptAt(w, "record")
    BY <1>1, <1>12 DEF WriteFails, Job, SameAttemptAt
  <2> QED
    BY <2>1, StageEnds DEF At, Stage, Phases
<1>13. CASE Commit(w) \/ CommitUnacknowledged(w)
  <2>1. /\ ~At(w, "idle")
        /\ job' = [job EXCEPT ![w] = Raised(w)] \/ job' = [job EXCEPT ![w] = Idle(job[w])]
    BY <1>13 DEF Commit, CommitUnacknowledged, At
  <2> QED
    BY <2>1, AttemptEnds
<1>14. CASE WatermarkFails(w) \/ ConnectionLost(w) \/ Crash(w)
  <2>1. /\ ~At(w, "idle")
        /\ job' = [job EXCEPT ![w] = Raised(w)] \/ job' = [job EXCEPT ![w] = Idle(job[w])]
    BY <1>14 DEF WatermarkFails, ConnectionLost, Crash, Escapes, At
  <2> QED
    BY <2>1, AttemptEnds
<1> QED
  BY <1>4, <1>5, <1>6, <1>8, <1>9, <1>10, <1>11, <1>12, <1>13, <1>14 DEF Step, Fault

\* A job starts within the limits.
LEMMA StartIsLimited ==
  ASSUME IInv, NEW w \in Workers, NEW kind, NEW p, StartJob(w, kind, p)
  PROVE  At(w, "idle") /\ Limited(job'[w]) /\ \A v \in Workers \ {w} : job'[v] = job[v]
<1>1. job \in [Workers -> Job]
  BY DEF IInv, TypeOK
<1>2. At(w, "idle") /\ \A v \in Workers \ {w} : job'[v] = job[v]
  BY <1>1 DEF StartJob
<1>3. job'[w].attempt = 0 /\ job'[w].pc = "watermark" /\ job'[w].tries = 0
  BY <1>1 DEF StartJob, FreshAttempt, Blank
<1>4. MaxRetries \in Nat /\ MaxTries \in Nat \ {0}
  BY IngestAssumption
<1> QED
  BY <1>2, <1>3, <1>4 DEF Limited

\* Every worker's locals are within the limits.
AllLimited == \A w \in Workers : Limited(job[w])

LEMMA LimitsStay == IInv /\ IInv' /\ AllLimited /\ [Next]_vars => AllLimited'
<1> SUFFICES ASSUME IInv, IInv', AllLimited, [Next]_vars PROVE AllLimited'
  OBVIOUS
<1>1. CASE NewDay \/ UNCHANGED vars
  BY <1>1 DEF NewDay, vars, AllLimited
<1>2. ASSUME NEW w \in Workers, Step(w) \/ Fault(w) PROVE AllLimited'
  BY <1>2, EveryStepAdvances DEF Advances, AllLimited
<1>3. ASSUME NEW w \in Workers, NEW kind, NEW p, StartJob(w, kind, p) PROVE AllLimited'
  BY <1>3, StartIsLimited DEF AllLimited
<1> QED
  BY <1>1, <1>2, <1>3 DEF Next

LEMMA LimitedInvariance == Spec => []AllLimited
<1>1. Init => AllLimited
  <2> SUFFICES ASSUME Init, NEW w \in Workers PROVE Limited(job[w])
    BY DEF AllLimited
  <2>1. job[w].attempt = 0 /\ job[w].pc = "idle"
    BY DEF Init, Blank
  <2> QED
    BY <2>1, IngestAssumption DEF Limited
<1> QED
  BY <1>1, LimitsStay, Invariance, PTL DEF Spec

\* Jobs come to an end, as far as that can be said without fairness: every worker always
\* has a rank, and every step of a job, a failing one too, lowers it.  As ranks descend
\* for finitely many steps (NoEndlessDescent), no job retries, pages or waits its way
\* through infinitely many.
THEOREM JobsRunOut == Spec => [](\A w \in Workers : Ahead(job[w]) \in Ranks) /\ Descends
<1>1. IInv /\ AllLimited => \A w \in Workers : Ahead(job[w]) \in Ranks
  <2> SUFFICES ASSUME IInv, AllLimited, NEW w \in Workers PROVE Ahead(job[w]) \in Ranks
    OBVIOUS
  <2>1. job[w] \in Job
    BY DEF IInv, TypeOK
  <2> QED
    BY <2>1, AheadTyped, TodoIsFinite DEF AllLimited, At
<1>2. IInv /\ IInv' /\ AllLimited /\ [Next]_vars =>
        [\A w \in Workers :
           /\ Step(w) \/ Fault(w) => LexLess(Ahead(job'[w]), Ahead(job[w]))
           /\ ~At(w, "idle") => LexLess(Ahead(job'[w]), Ahead(job[w])) \/ job'[w] = job[w]]_vars
  <2> SUFFICES ASSUME IInv, IInv', AllLimited, Next, NEW w \in Workers
               PROVE  /\ Step(w) \/ Fault(w) => LexLess(Ahead(job'[w]), Ahead(job[w]))
                      /\ ~At(w, "idle") => LexLess(Ahead(job'[w]), Ahead(job[w])) \/ job'[w] = job[w]
    OBVIOUS
  <2>1. CASE Step(w) \/ Fault(w)
    BY <2>1, EveryStepAdvances DEF Advances, AllLimited
  <2>2. ASSUME NEW v \in Workers, v # w, Step(v) \/ Fault(v) PROVE job'[w] = job[w]
    BY <2>2, EveryStepAdvances DEF Advances, AllLimited
  <2>3. ASSUME NEW v \in Workers, NEW kind, NEW p, StartJob(v, kind, p), ~At(w, "idle")
        PROVE  job'[w] = job[w]
    BY <2>3, StartIsLimited
  <2>4. NewDay => job'[w] = job[w]
    BY DEF NewDay
  <2>5. ~(Step(w) \/ Fault(w)) /\ ~At(w, "idle") => job'[w] = job[w]
    BY <2>2, <2>3, <2>4 DEF Next
  <2> QED
    BY <2>1, <2>5
<1> QED
  BY <1>1, <1>2, Invariance, LimitedInvariance, PTL DEF Spec, Descends

\* A set of numbers has a smallest.
LEMMA SmallestExists ==
  ASSUME NEW T, T \subseteq Nat, T # {} PROVE \E m \in T : \A k \in T : m <= k
<1> DEFINE Lower == OpToRel(<, Nat)
<1>1. PICK m \in T : \A k \in T : ~(<<k, m>> \in Lower)
  <2>1. IsWellFoundedOn(Lower, Nat)
    BY NatLessThanWellFounded
  <2> HIDE DEF Lower
  <2> QED
    BY <2>1, WFMin
<1>2. m \in Nat /\ \A k \in T : k \in Nat /\ ~(k < m)
  BY <1>1 DEF OpToRel
<1> HIDE DEF Lower
<1>3. \A k \in T : m <= k
  BY <1>2
<1> QED
  BY <1>3

\* No waiting room without an exit: while any job runs there is one whose next statement
\* waits for nobody.
THEOREM NobodyIsStuckForEver == Spec => []SomebodyCanGoOn
<1>1. IInv /\ NoLockCycle => SomebodyCanGoOn
  <2> SUFFICES ASSUME IInv, NoLockCycle, NEW b \in Workers, ~At(b, "idle")
               PROVE  \E w \in Workers : CanGoOn(w)
    BY DEF SomebodyCanGoOn
  <2> DEFINE Busy == {w \in Workers : ~At(w, "idle")}
  <2>1. PICK w \in Busy : \A v \in Busy : ~WaitsFor(w, v)
    BY DEF NoLockCycle
  <2>2. ASSUME NEW v \in Workers, v \notin Busy PROVE ~WaitsFor(w, v)
    BY <2>2 DEF IInv, WorkerInv, Closed, WaitsFor, Layer!Stored
  <2>3. ASSUME At(w, "insert"), job[w].todo # {}
        PROVE  \E d \in NextCandle(w) :
                 \A v \in Workers \ {w} : ~Layer!Stored(txnRows[v], job[w].pair, d)
    <3>1. job[w].todo \subseteq Nat
      BY DEF IInv, TypeOK, Job
    <3>2. NextCandle(w) # {}
      BY <2>3, <3>1, SmallestExists DEF NextCandle
    <3> QED
      BY <2>1, <2>2, <2>3, <3>2 DEF WaitsFor, At
  <2> QED
    BY <2>1, <2>3 DEF CanGoOn
<1> QED
  BY <1>1, Invariance, LocksFormNoCircle, PTL

-----------------------------------------------------------------------------
(* What the promise is worth: the theorem of BronzeLayer, carried down *)

Promise == INSTANCE BronzeLayerProofs

\* The layer and its proofs are brought in by two instances, which agree.
LEMMA SameCount == \A S : Promise!Cardinality(S) = Layer!Cardinality(S)
BY DEF Promise!Cardinality, Layer!Cardinality

LEMMA SameStep == Layer!Next => Promise!Next
<1>1. Layer!NewDay => Promise!NewDay
  BY DEF Layer!NewDay, Promise!NewDay
<1>2. \A S, p, d : Promise!Stored(S, p, d) <=> Layer!Stored(S, p, d)
  BY DEF Promise!Stored, Layer!Stored
<1>3. \A R, p, d : Promise!Omitted(R, p, d) <=> Layer!Omitted(R, p, d)
  BY DEF Promise!Omitted, Layer!Omitted
<1>4. \A S, R, p, l : Promise!NoGap(S, R, p, l) <=> Layer!NoGap(S, R, p, l)
  BY <1>2, <1>3 DEF Promise!NoGap, Layer!NoGap
<1>5. Layer!Append => Promise!Append
  BY <1>2, <1>4, SameCount DEF Layer!Append, Promise!Append
<1> QED
  BY <1>1, <1>5 DEF Layer!Next, Promise!Next

\* What has been committed to raw_candles and ingest_runs is, after any number of jobs, retries
\* and failures, one closed bar for a pair and a day, brought in by a run that succeeded, counted
\* by that run's rows_inserted, with no day before it that was neither stored nor asked for.
THEOREM BronzeIsSound == Spec => []Promise!LayerInv
<1>1. Layer!Init => Promise!Init
  BY DEF Layer!Init, Promise!Init
<1>2. [Layer!Next]_(Layer!vars) => [Promise!Next]_(Promise!vars)
  BY SameStep DEF Layer!vars, Promise!vars
<1> QED
  BY <1>1, <1>2, Promise!LayerIsSound, Implementation, PTL DEF ImplementsLayer, Layer!Spec, Promise!Spec
=============================================================================
