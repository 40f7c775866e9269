------------------------------ MODULE SyncProofs ------------------------------
(***************************************************************************)
(* Both warehouses stay sound for every number of syncs, pairs, days and   *)
(* ingestion runs, whenever a sync stops: one lemma for what a growing     *)
(* warehouse leaves to everyone who does not move, then one for each       *)
(* action that stores rows or stages them; last, that what is taken for an *)
(* ingestion here is an Append of BronzeLayer.                             *)
(***************************************************************************)
EXTENDS SyncInv, FiniteSetTheorems, WellFoundedInduction, TLAPS

-----------------------------------------------------------------------------
(* The invariant in parts: one warehouse, one sync *)

Sound(d) ==
  /\ \A c, e \in rows[d] : c.pair = e.pair /\ c.day = e.day => c = e
  /\ \A c \in rows[d] : \E r \in runs[d] :
       r.id = c.run /\ r.pair = c.pair /\ r.status = "success" /\ c.day \in r.fetched
  /\ \A c \in rows[d] : c.day \in 0 .. today - 1
  /\ \A c \in rows[d] : Local!NoGap(rows[d], runs[d], c.pair, c.day)

Finished(x) ==
  /\ sync[x].pc = "done" =>
       /\ \A r \in sync[x].begun.ingest_runs : r \in runs[sync[x].to]
       /\ \A c \in sync[x].begun.raw_candles : Stored(sync[x].to, c.pair, c.day)
  /\ sync[x].pc = "failed" => runs[sync[x].from] # sync[x].begun.ingest_runs

HereInv(d) == WarehouseInv(d) /\ Sound(d)
MoveInv(x) == CopyInv(x) /\ Finished(x)

LEMMA InvInParts ==
  /\ SyncInvariant <=>
       TypeOK /\ (\A d \in Warehouses : HereInv(d)) /\ \A x \in Syncers : MoveInv(x)
  /\ SyncInvariant' <=>
       TypeOK' /\ (\A d \in Warehouses : HereInv(d)') /\ \A x \in Syncers : MoveInv(x)'
<1>1. /\ CopiesAreSound /\ WatermarkHidesNothing <=> \A d \in Warehouses : Sound(d)
      /\ CopiesAreSound' /\ WatermarkHidesNothing' <=> \A d \in Warehouses : Sound(d)'
  BY DEF CopiesAreSound, WatermarkHidesNothing, Sound, Warehouses,
         Local!UniqueKey, Local!Provenance, Local!ClosedBarsOnly,
         Managed!UniqueKey, Managed!Provenance, Managed!ClosedBarsOnly
<1>2. /\ SyncDelivers /\ OnlyRacesFail <=> \A x \in Syncers : Finished(x)
      /\ SyncDelivers' /\ OnlyRacesFail' <=> \A x \in Syncers : Finished(x)'
  BY DEF SyncDelivers, OnlyRacesFail, Finished
<1> QED
  BY <1>1, <1>2 DEF SyncInvariant, HereInv, MoveInv

LEMMA Types ==
  ASSUME TypeOK
  PROVE  /\ today \in Nat
         /\ \A d \in Warehouses :
              /\ \A r \in runs[d] : r.id.by \in Warehouses /\ r.id.n \in Nat
              /\ \A c \in rows[d] : c.day \in Nat /\ c.run.by \in Warehouses /\ c.run.n \in Nat
              /\ window[d].pair \in Pairs /\ window[d].ws \in Nat /\ window[d].we \in Nat
         /\ \A x \in Syncers : sync[x].from \in Warehouses /\ sync[x].to \in Warehouses
BY DEF TypeOK, Syncing, AuditRow, Candle, RunId

LEMMA NoGapMonotone ==
  ASSUME NEW S, NEW T, S \subseteq T, NEW R, NEW Q, R \subseteq Q, NEW p, NEW last,
         Local!NoGap(S, R, p, last)
  PROVE  Local!NoGap(T, Q, p, last)
BY DEF Local!NoGap, Local!Stored, Local!Omitted

-----------------------------------------------------------------------------
(* What a step leaves to everyone who does not move *)

\* Nothing is ever taken away, and a warehouse's new runs are numbered after its old ones.
Growth ==
  /\ today <= today'
  /\ \A d \in Warehouses : rows[d] \subseteq rows'[d] /\ runs[d] \subseteq runs'[d]
  /\ \A d \in Warehouses : \A r \in runs'[d] \ runs[d] :
       r.id.by = d => \A q \in Own(d) : q.id.n < r.id.n

LEMMA StaysConsecutive ==
  ASSUME SyncInvariant, TypeOK', Growth, NEW R, NEW d \in Warehouses, R \subseteq runs[d],
         Consecutive(R)
  PROVE  Consecutive(R)'
<1> SUFFICES ASSUME NEW r \in R, NEW q \in runs'[r.id.by], q.id.by = r.id.by, q.id.n <= r.id.n
             PROVE  q \in R
  BY DEF Consecutive
<1>1. r.id.by \in Warehouses /\ r \in Own(r.id.by) /\ r.id.n \in Nat
  BY Types, InvInParts DEF HereInv, WarehouseInv, Originals, Own
<1>2. q.id.n \in Nat
  BY <1>1 DEF TypeOK, AuditRow, RunId
<1>3. q \in runs[r.id.by]
  BY <1>1, <1>2 DEF Growth
<1> QED
  BY <1>3 DEF Consecutive

LEMMA StaysExplained ==
  ASSUME Growth, NEW S, NEW d \in Warehouses, Explained(S, d)
  PROVE  \A c \in S : c.run.by = d => Local!NoGap(S, KnownTo(d, c)', c.pair, c.day)
<1> TAKE c \in S
<1> HAVE c.run.by = d
<1>1. KnownTo(d, c) \subseteq KnownTo(d, c)'
  BY DEF Growth, KnownTo
<1> QED
  BY <1>1, NoGapMonotone DEF Explained

LEMMA StaysHere ==
  ASSUME SyncInvariant, TypeOK', Growth, NEW d \in Warehouses,
         rows'[d] = rows[d], runs'[d] = runs[d], window'[d] = window[d]
  PROVE  HereInv(d)'
<1>1. HereInv(d) /\ TypeOK
  BY InvInParts
<1>2. Numbered(d)'
  BY <1>1 DEF HereInv, WarehouseInv, Numbered, Own
<1>3. Originals(d)'
  BY <1>1, Types DEF HereInv, WarehouseInv, Originals, Growth
<1>4. Consecutive(runs[d])' 
  BY <1>1, StaysConsecutive DEF HereInv, WarehouseInv, Consecutive
<1>5. Explained(rows[d], d)'
  <2> SUFFICES ASSUME NEW c \in rows[d], c.run.by = d
               PROVE  Local!NoGap(rows[d], KnownTo(d, c)', c.pair, c.day)
    BY DEF Explained, Local!NoGap, Local!Stored, Local!Omitted
  <2> QED
    BY <1>1, StaysExplained DEF HereInv, WarehouseInv
<1>6. today \in Nat /\ today' \in Nat /\ today <= today' /\ window[d].we \in Nat
  BY <1>1, Types DEF TypeOK, Growth
<1>7. WindowSound(d)'
  BY <1>1, <1>6 DEF HereInv, WarehouseInv, WindowSound, NoWindow
<1>8. Sound(d)'
  BY <1>1, <1>6 DEF HereInv, Sound
<1> QED
  BY <1>2, <1>3, <1>4, <1>5, <1>7, <1>8 DEF HereInv, WarehouseInv

LEMMA StaysMoving ==
  ASSUME SyncInvariant, TypeOK', Growth, NEW x \in Syncers, sync'[x] = sync[x]
  PROVE  MoveInv(x)'
<1> DEFINE s == sync[x]
<1>1. MoveInv(x) /\ s.from \in Warehouses /\ s.to \in Warehouses
  BY InvInParts, Types
<1>2. /\ rows[s.from] \subseteq rows'[s.from] /\ runs[s.from] \subseteq runs'[s.from]
      /\ rows[s.to] \subseteq rows'[s.to] /\ runs[s.to] \subseteq runs'[s.to]
  BY <1>1 DEF Growth
<1>3. ASSUME s.pc = "insert", s.table = 1 PROVE Consecutive(s.staged)'
  <2>1. Consecutive(s.staged) /\ s.staged \subseteq runs[s.from]
    BY <1>1, <1>3 DEF MoveInv, CopyInv
  <2> QED
    BY <1>1, <2>1, StaysConsecutive DEF Consecutive
<1>4. ASSUME s.pc = "insert", s.table = 2 PROVE Explained(s.staged, s.from)'
  <2>1. Explained(s.staged, s.from)
    BY <1>1, <1>4 DEF MoveInv, CopyInv
  <2> SUFFICES ASSUME NEW c \in s.staged, c.run.by = s.from
               PROVE  Local!NoGap(s.staged, KnownTo(s.from, c)', c.pair, c.day)
    BY DEF Explained, KnownTo, Local!NoGap, Local!Stored, Local!Omitted
  <2> QED
    BY <1>1, <2>1, StaysExplained
<1>5. CopyInv(x)'
  BY <1>1, <1>2, <1>3, <1>4 DEF MoveInv, CopyInv
<1>6. Finished(x)'
  BY <1>1, <1>2 DEF MoveInv, CopyInv, Finished, Stored, Local!Stored
<1> QED
  BY <1>5, <1>6 DEF MoveInv
-----------------------------------------------------------------------------
(* Ingestion *)

\* The largest day of a bounded set.
LEMMA NewestExists ==
  ASSUME NEW D \in SUBSET Nat, D # {}, NEW b \in Nat, \A t \in D : t <= b
  PROVE  \E t \in D : \A u \in D : u <= t
<1> DEFINE Less == OpToRel(<, Nat)
           Below == {n \in Nat : \E t \in D : n = b - t}
<1>1. PICK t \in D : TRUE
  OBVIOUS
<1>2. b - t \in Below
  BY <1>1
<1>3. PICK x \in Below : \A y \in Below : ~ (<<y, x>> \in Less)
  <2> HIDE DEF Below
  <2>1. IsWellFoundedOn(Less, Nat)
    BY NatLessThanWellFounded
  <2> HIDE DEF Less
  <2>2. Below \subseteq Nat
    BY DEF Below
  <2> QED
    BY <1>2, <2>1, <2>2, WFMin
<1>4. \A y \in Below : x <= y
  <2> SUFFICES ASSUME NEW y \in Below, y < x PROVE FALSE
    OBVIOUS
  <2>1. <<y, x>> \in Less
    BY DEF OpToRel
  <2> QED
    BY <1>3, <2>1
<1>5. PICK m \in D : x = b - m
  OBVIOUS
<1>6. \A u \in D : u <= m
  <2> TAKE u \in D
  <2>1. u \in Nat /\ m \in Nat /\ b - u \in Below
    OBVIOUS
  <2>2. x <= b - u
    BY <1>4, <2>1
  <2> QED
    BY <1>5, <2>1, <2>2
<1> QED
  BY <1>6

\* The window starts right after what is stored, and nothing below it is unexplained.
LEMMA WindowStartSound ==
  ASSUME SyncInvariant, NEW d \in Warehouses, NEW p \in Pairs
  PROVE  /\ WindowStart(d, p) \in Nat
         /\ Local!NoGap(rows[d], runs[d], p, WindowStart(d, p) - 1)
<1>1. TypeOK /\ Sound(d) /\ BackfillStart \in Nat
  BY InvInParts, SyncAssumption DEF HereInv
<1>2. CASE Days(d, p) = {}
  BY <1>1, <1>2 DEF WindowStart, Local!NoGap
<1>3. CASE Days(d, p) # {}
  <2>1. today \in Nat /\ Days(d, p) \in SUBSET Nat /\ \A t \in Days(d, p) : t <= today
    BY <1>1, Types DEF Days, Sound
  <2>2. PICK m \in Days(d, p) : m = CHOOSE t \in Days(d, p) : \A u \in Days(d, p) : u <= t
    BY <1>3, <2>1, NewestExists
  <2>3. PICK c \in rows[d] : c.pair = p /\ c.day = m
    BY DEF Days
  <2>4. m \in Nat /\ WindowStart(d, p) = m + 1
    BY <1>3, <2>1, <2>2 DEF WindowStart
  <2> QED
    BY <1>1, <2>3, <2>4 DEF Sound
<1> QED
  BY <1>2, <1>3

LEMMA BeginIngestInv ==
  ASSUME SyncInvariant, NEW d \in Warehouses, NEW p \in Pairs, BeginIngest(d, p)
  PROVE  SyncInvariant'
<1> DEFINE w == [pair |-> p, ws |-> WindowStart(d, p), we |-> today - 1]
<1>1. TypeOK /\ HereInv(d) /\ today \in Nat
  BY InvInParts, Types
<1>2. WindowStart(d, p) \in Nat /\ WindowStart(d, p) < today
  BY WindowStartSound DEF BeginIngest
<1>3. w \in [pair: Pairs, ws: Nat, we: Nat] /\ w.we = today - 1 /\ w.pair = p /\ w.ws = WindowStart(d, p)
  BY <1>1, <1>2
<1>4. window' = [window EXCEPT ![d] = w]
  BY DEF BeginIngest
<1>5. Local!NoGap(rows[d], runs[d], w.pair, w.ws - 1)
  BY <1>3, WindowStartSound
<1> HIDE DEF w
<1>6. TypeOK'
  BY <1>1, <1>3, <1>4 DEF TypeOK, BeginIngest
<1>7. Growth
  BY <1>1 DEF Growth, BeginIngest
<1>8. HereInv(d)'
  <2>1. window'[d] = w /\ w.we < today
    BY <1>1, <1>3, <1>4 DEF TypeOK
  <2>2. WindowSound(d)'
    BY <1>5, <2>1 DEF BeginIngest, WindowSound
  <2>3. /\ Numbered(d)' <=> Numbered(d)
        /\ Originals(d)' <=> Originals(d)
        /\ Consecutive(runs[d])' <=> Consecutive(runs[d])
        /\ Sound(d)' <=> Sound(d)
    BY DEF BeginIngest, Numbered, Own, Originals, Consecutive, Sound
  <2>4. Explained(rows[d], d)' <=> Explained(rows[d], d)
    BY DEF BeginIngest, Explained, KnownTo
  <2> QED
    BY <1>1, <2>2, <2>3, <2>4 DEF HereInv, WarehouseInv
<1>9. \A e \in Warehouses \ {d} : HereInv(e)'
  BY <1>4, <1>6, <1>7, StaysHere DEF BeginIngest, TypeOK, SyncInvariant
<1>10. \A x \in Syncers : MoveInv(x)'
  BY <1>6, <1>7, StaysMoving DEF BeginIngest
<1> QED
  BY <1>6, <1>8, <1>9, <1>10, InvInParts

LEMMA CommitIngestInv ==
  ASSUME SyncInvariant, NEW d \in Warehouses, NEW status \in {"success", "failed"},
         NEW fetched \in SUBSET (0 .. LastDay), CommitIngest(d, status, fetched)
  PROVE  SyncInvariant'
<1> DEFINE w == window[d]
           id == [by |-> d, n |-> Cardinality(Own(d))]
           new == {t \in fetched : ~Stored(d, w.pair, t)}
           bars == {[pair |-> w.pair, day |-> t, run |-> id] : t \in new}
           a == [id |-> id, pair |-> w.pair, status |-> status, ws |-> w.ws, we |-> w.we,
                 asked |-> IF status = "success" THEN w.ws .. w.we ELSE {},
                 fetched |-> fetched, inserted |-> Cardinality(new)]
<1>1. /\ TypeOK /\ HereInv(d) /\ today \in Nat
      /\ w.pair \in Pairs /\ w.ws \in Nat /\ w.we \in Nat /\ BackfillStart \in Nat
  BY InvInParts, Types, SyncAssumption
<1>2. /\ fetched \subseteq w.ws .. w.we /\ (status = "failed" => fetched = {})
      /\ w.we < today /\ Local!NoGap(rows[d], runs[d], w.pair, w.ws - 1)
  BY <1>1 DEF CommitIngest, HereInv, WarehouseInv, WindowSound
<1>3. IsFiniteSet(Own(d)) /\ Cardinality(Own(d)) \in Nat
  BY <1>1, FS_CardinalityType DEF HereInv, WarehouseInv, Numbered
<1>4. Cardinality(new) \in Nat
  <2> DEFINE i == w.ws
             j == w.we
  <2> HIDE DEF i, j
  <2>1. IsFiniteSet(i .. j)
    <3>1. i \in Int /\ j \in Int
      BY <1>1 DEF i, j
    <3> QED
      BY <3>1, FS_Interval
  <2>2. new \subseteq fetched
    OBVIOUS
  <2> QED
    BY <1>2, <2>1, <2>2, FS_Subset, FS_CardinalityType DEF i, j
<1>5. id \in RunId /\ id.by = d /\ id.n = Cardinality(Own(d))
  BY <1>3 DEF RunId
<1> HIDE DEF id
<1>6. /\ a \in AuditRow /\ a.id = id /\ a.pair = w.pair /\ a.status = status
      /\ a.fetched = fetched /\ (status = "success" => a.asked = w.ws .. w.we)
  BY <1>1, <1>2, <1>4, <1>5 DEF AuditRow
<1>7. /\ \A c \in bars : /\ c \in Candle /\ c.pair = w.pair /\ c.run = id /\ c.day \in new
                         /\ \A e \in bars : c.day = e.day => c = e
      /\ \A t \in new : \E c \in bars : c.day = t /\ c.pair = w.pair
  <2>1. \A t \in new : t \in Nat
    <3>1. \A t \in fetched : t \in w.ws .. w.we
      BY <1>2
    <3>2. \A t \in fetched : t \in Nat
      BY <1>1, <3>1
    <3> QED
      BY <3>2
  <2> HIDE DEF new
  <2>2. \A t \in new : LET c == [pair |-> w.pair, day |-> t, run |-> id] IN
          c \in Candle /\ c.pair = w.pair /\ c.run = id /\ c.day = t
    BY <1>1, <1>5, <2>1 DEF Candle
  <2> QED
    BY <2>2
<1>8. /\ rows' = [rows EXCEPT ![d] = @ \cup bars]
      /\ runs' = [runs EXCEPT ![d] = @ \cup {a}]
      /\ window' = [window EXCEPT ![d] = NoWindow] /\ UNCHANGED <<today, sync>>
  BY DEF CommitIngest, id
<1>9. /\ rows'[d] = rows[d] \cup bars /\ runs'[d] = runs[d] \cup {a} /\ window'[d] = NoWindow
      /\ \A e \in Warehouses \ {d} :
           rows'[e] = rows[e] /\ runs'[e] = runs[e] /\ window'[e] = window[e]
  BY <1>1, <1>8 DEF TypeOK
<1> HIDE DEF a, bars
<1>10. TypeOK'
  <2>1. NoWindow \in [pair: Pairs, ws: Nat, we: Nat]
    BY SyncAssumption DEF NoWindow
  <2>2. rows' \in [Warehouses -> SUBSET Candle]
    BY <1>1, <1>7, <1>8 DEF TypeOK
  <2>3. runs' \in [Warehouses -> SUBSET AuditRow]
    BY <1>1, <1>6, <1>8 DEF TypeOK
  <2> QED
    BY <1>1, <1>8, <2>1, <2>2, <2>3 DEF TypeOK
<1>11. \A q \in Own(d) : q.id.n < id.n
  BY <1>1, <1>5 DEF HereInv, WarehouseInv, Numbered
<1>12. \A r \in runs[d] : r.id # id
  BY <1>1, <1>5, <1>11, Types DEF Own
<1>13. Growth
  <2>1. today <= today'
    BY <1>1, <1>8
  <2> QED
    BY <1>6, <1>9, <1>11, <2>1 DEF Growth
<1>14. HereInv(d)'
  <2>1. Numbered(d)'
    <3>1. Own(d)' = Own(d) \cup {a} /\ a \notin Own(d)
      BY <1>5, <1>6, <1>9, <1>12 DEF Own
    <3>2. IsFiniteSet(Own(d)') /\ Cardinality(Own(d)') = id.n + 1
      <4>1. IsFiniteSet(Own(d) \cup {a})
        BY <1>3, FS_AddElement
      <4>2. Cardinality(Own(d) \cup {a}) = Cardinality(Own(d)) + 1
        BY <1>3, <3>1, FS_AddElement
      <4> QED
        BY <1>5, <3>1, <4>1, <4>2
    <3>3. \A r \in Own(d)' : r.id.n < id.n + 1
      <4>1. \A r \in Own(d) : r.id.n \in Nat
        BY <1>1, Types DEF Own
      <4> QED
        BY <1>3, <1>5, <1>6, <1>11, <3>1, <4>1
    <3>4. \A r, q \in runs'[d] : r.id = q.id => r = q
      BY <1>1, <1>6, <1>9, <1>12 DEF HereInv, WarehouseInv, Numbered
    <3> QED
      BY <3>2, <3>3, <3>4 DEF Numbered
  <2>2. Originals(d)'
    <3>1. ASSUME NEW r \in runs'[d] PROVE r \in runs'[r.id.by]
      BY <1>1, <1>5, <1>6, <1>9, <1>13, Types DEF HereInv, WarehouseInv, Originals, Growth
    <3>2. ASSUME NEW c \in rows'[d] PROVE c \in rows'[c.run.by]
      BY <1>1, <1>5, <1>7, <1>9, <1>13, Types DEF HereInv, WarehouseInv, Originals, Growth
    <3> QED
      BY <3>1, <3>2 DEF Originals
  <2>3. Consecutive(runs[d])'
    <3>1. \A r \in runs[d] : \A q \in runs'[r.id.by] :
            q.id.by = r.id.by /\ q.id.n <= r.id.n => q \in runs[d]
      BY <1>1, <1>10, <1>13, StaysConsecutive DEF HereInv, WarehouseInv, Consecutive
    <3> QED
      BY <1>5, <1>6, <1>9, <3>1 DEF Consecutive
  <2>4. \A c \in rows[d] : c.run.by = d =>
          Local!NoGap(rows'[d], KnownTo(d, c)', c.pair, c.day)
    <3>1. \A c \in rows[d] : c.run.by = d =>
            Local!NoGap(rows[d], KnownTo(d, c)', c.pair, c.day)
      BY <1>1, <1>13, StaysExplained DEF HereInv, WarehouseInv
    <3> QED
      BY <1>9, <3>1, NoGapMonotone
  <2>5. \A c \in bars : Local!NoGap(rows'[d], KnownTo(d, c)', c.pair, c.day)
    <3> SUFFICES ASSUME NEW c \in bars, NEW t \in BackfillStart .. c.day
                 PROVE  \/ Local!Stored(rows'[d], w.pair, t)
                        \/ Local!Omitted(KnownTo(d, c)', w.pair, t)
      BY <1>7 DEF Local!NoGap
    <3>1. \A r \in runs'[d] : r \in KnownTo(d, c)'
      <4>1. \A r \in runs[d] : r.id.by = d => r.id.n <= id.n
        BY <1>1, <1>3, <1>5, <1>11, Types DEF Own
      <4> QED
        BY <1>3, <1>5, <1>6, <1>7, <1>9, <4>1 DEF KnownTo
    <3>2. CASE t < w.ws
      <4>1. t \in BackfillStart .. w.ws - 1
        BY <1>1, <1>7, <3>2
      <4>2. Local!Stored(rows[d], w.pair, t) \/ Local!Omitted(runs[d], w.pair, t)
        BY <1>2, <4>1 DEF Local!NoGap
      <4> QED
        BY <1>9, <3>1, <4>2 DEF Local!Stored, Local!Omitted
    <3>3. CASE t >= w.ws /\ t \in fetched
      BY <1>7, <1>9, <3>3 DEF Stored, Local!Stored
    <3>4. CASE t >= w.ws /\ t \notin fetched
      <4>1. c.day \in fetched /\ c.day \in w.ws .. w.we /\ status = "success"
        BY <1>2, <1>7
      <4>2. t \in w.ws .. w.we
        BY <1>1, <3>4, <4>1
      <4>3. a \in KnownTo(d, c)' /\ a.pair = w.pair /\ a.status = "success" /\ t \in a.asked \ a.fetched
        BY <1>6, <1>9, <3>1, <3>4, <4>1, <4>2
      <4> QED
        BY <4>3 DEF Local!Omitted
    <3>5. t \in Int /\ w.ws \in Int
      BY <1>1
    <3> QED
      BY <3>2, <3>3, <3>4, <3>5
  <2>6. Explained(rows[d], d)'
    <3> SUFFICES ASSUME NEW c \in rows'[d], c.run.by = d
                 PROVE  Local!NoGap(rows'[d], KnownTo(d, c)', c.pair, c.day)
      BY DEF Explained, Local!NoGap, Local!Stored, Local!Omitted
    <3> QED
      BY <1>9, <2>4, <2>5
  <2>7. WindowSound(d)'
    BY <1>9 DEF WindowSound, NoWindow
  <2>8. Sound(d)'
    <3>1. \A c, e \in rows'[d] : c.pair = e.pair /\ c.day = e.day => c = e
      BY <1>1, <1>7, <1>9 DEF HereInv, Sound, Stored, Local!Stored
    <3>2. \A c \in rows'[d] : \E r \in runs'[d] :
            r.id = c.run /\ r.pair = c.pair /\ r.status = "success" /\ c.day \in r.fetched
      <4>1. ASSUME NEW c \in bars PROVE status = "success" /\ c.day \in fetched
        BY <1>2, <1>7
      <4> QED
        BY <1>1, <1>6, <1>7, <1>9, <4>1 DEF HereInv, Sound
    <3>3. \A c \in rows'[d] : c.day \in 0 .. today' - 1
      <4>1. ASSUME NEW c \in bars PROVE c.day \in 0 .. today - 1
        <5>1. c.day \in w.ws .. w.we
          BY <1>2, <1>7
        <5> QED
          BY <1>1, <1>2, <5>1
      <4> QED
        BY <1>1, <1>8, <1>9, <4>1 DEF HereInv, Sound
    <3>4. ASSUME NEW c \in rows'[d] PROVE Local!NoGap(rows'[d], runs'[d], c.pair, c.day)
      <4>1. CASE c \in rows[d]
        BY <1>1, <1>9, <4>1, NoGapMonotone DEF HereInv, Sound
      <4>2. CASE c \in bars
        <5>1. KnownTo(d, c)' \subseteq runs'[d]
          BY DEF KnownTo
        <5> QED
          BY <2>5, <4>2, <5>1, NoGapMonotone
      <4> QED
        BY <1>9, <4>1, <4>2
    <3> QED
      BY <3>1, <3>2, <3>3, <3>4 DEF Sound, Local!NoGap, Local!Stored, Local!Omitted
  <2> QED
    BY <2>1, <2>2, <2>3, <2>6, <2>7, <2>8 DEF HereInv, WarehouseInv
<1>15. \A e \in Warehouses \ {d} : HereInv(e)'
  BY <1>9, <1>10, <1>13, StaysHere
<1>16. \A x \in Syncers : MoveInv(x)'
  BY <1>8, <1>10, <1>13, StaysMoving
<1> QED
  BY <1>10, <1>14, <1>15, <1>16, InvInParts

-----------------------------------------------------------------------------
(* The sync *)

LEMMA InitInv == Init => SyncInvariant
<1> SUFFICES ASSUME Init PROVE SyncInvariant
  OBVIOUS
<1>1. /\ \A d \in Warehouses : rows[d] = {} /\ runs[d] = {} /\ window[d] = NoWindow
      /\ \A x \in Syncers : sync[x] = NoSync
  BY DEF Init
<1>2. NoSync \in Syncing /\ NoSync.pc = "off" /\ NoSync.table = 1 /\ NoSync.begun = Nothing
  BY DEF NoSync, Nothing, Syncing, Warehouses
<1>3. NoWindow \in [pair: Pairs, ws: Nat, we: Nat]
  BY SyncAssumption DEF NoWindow
<1>4. TypeOK
  BY <1>2, <1>3 DEF Init, TypeOK
<1>5. ASSUME NEW d \in Warehouses PROVE HereInv(d)
  <2>1. Own(d) = {}
    BY <1>1 DEF Own
  <2>2. Numbered(d)
    BY <1>1, <2>1, FS_EmptySet DEF Numbered
  <2> QED
    BY <1>1, <2>2 DEF HereInv, WarehouseInv, Sound, Originals, Consecutive, Explained, WindowSound
<1>6. ASSUME NEW x \in Syncers PROVE MoveInv(x)
  BY <1>1, <1>2 DEF MoveInv, CopyInv, Finished, Nothing
<1> QED
  BY <1>4, <1>5, <1>6, InvInParts

LEMMA Moves ==
  ASSUME TypeOK, NEW x \in Syncers, NEW s \in Syncing, sync' = [sync EXCEPT ![x] = s]
  PROVE  /\ sync' \in [Syncers -> Syncing] /\ sync'[x] = s
         /\ \A y \in Syncers \ {x} : sync'[y] = sync[y]
BY DEF TypeOK

\* A step of x that leaves both warehouses alone.
LEMMA OnlyTheSync ==
  ASSUME SyncInvariant, UNCHANGED <<today, rows, runs, window>>,
         NEW x \in Syncers, NEW s \in Syncing, sync' = [sync EXCEPT ![x] = s], MoveInv(x)'
  PROVE  SyncInvariant'
<1>1. TypeOK /\ today \in Nat
  BY InvInParts, Types
<1>2. TypeOK'
  BY <1>1, Moves DEF TypeOK
<1>3. Growth
  BY <1>1 DEF Growth
<1>4. \A d \in Warehouses : HereInv(d)'
  BY <1>2, <1>3, StaysHere
<1>5. \A y \in Syncers \ {x} : MoveInv(y)'
  BY <1>1, <1>2, <1>3, Moves, StaysMoving
<1> QED
  BY <1>2, <1>4, <1>5, InvInParts

LEMMA StartSyncInv ==
  ASSUME SyncInvariant, NEW x \in Syncers, NEW from \in Warehouses, NEW to \in Warehouses,
         StartSync(x, from, to)
  PROVE  SyncInvariant'
<1> DEFINE b == Content(from)
           s == [NoSync EXCEPT !.pc = "copy", !.from = from, !.to = to, !.begun = b]
<1>1. /\ TypeOK /\ b \in [ingest_runs: SUBSET AuditRow, raw_candles: SUBSET Candle]
      /\ b.ingest_runs = runs[from] /\ b.raw_candles = rows[from]
  BY InvInParts DEF Content, TypeOK
<1> HIDE DEF b
<1>2. s \in Syncing /\ s.pc = "copy" /\ s.table = 1 /\ s.from = from /\ s.begun = b
  <2>1. NoSync \in Syncing /\ NoSync.table = 1
    BY DEF NoSync, Nothing, Syncing, Warehouses
  <2> QED
    BY <1>1, <2>1 DEF Syncing
<1>3. sync' = [sync EXCEPT ![x] = s] /\ UNCHANGED <<today, rows, runs, window>>
  BY DEF StartSync, b
<1> HIDE DEF s
<1>4. MoveInv(x)'
  <2>1. sync'[x] = s
    BY <1>1, <1>2, <1>3, Moves
  <2> QED
    BY <1>1, <1>2, <1>3, <2>1 DEF MoveInv, CopyInv, Finished
<1> QED
  BY <1>2, <1>3, <1>4, OnlyTheSync

LEMMA DieInv ==
  ASSUME SyncInvariant, NEW x \in Syncers, Die(x)
  PROVE  SyncInvariant'
<1>1. TypeOK
  BY InvInParts
<1>2. NoSync \in Syncing /\ NoSync.pc = "off" /\ NoSync.table = 1 /\ NoSync.begun = Nothing
  BY DEF NoSync, Nothing, Syncing, Warehouses
<1>3. sync' = [sync EXCEPT ![x] = NoSync] /\ UNCHANGED <<today, rows, runs, window>>
  BY DEF Die
<1>4. MoveInv(x)'
  <2>1. sync'[x] = NoSync
    BY <1>1, <1>2, <1>3, Moves
  <2> QED
    BY <1>2, <2>1 DEF MoveInv, CopyInv, Finished, Nothing
<1> QED
  BY <1>2, <1>3, <1>4, OnlyTheSync

LEMMA TableIs ==
  ASSUME TypeOK, NEW x \in Syncers
  PROVE  /\ sync[x] \in Syncing /\ sync[x].table \in 1 .. 2
         /\ Table(x) = "ingest_runs" <=> sync[x].table = 1
         /\ Table(x) = "raw_candles" <=> sync[x].table = 2
         /\ sync[x].table = 1 => Content(sync[x].from)[Table(x)] = runs[sync[x].from]
         /\ sync[x].table = 2 => Content(sync[x].from)[Table(x)] = rows[sync[x].from]
<1>1. sync[x] \in Syncing /\ sync[x].table \in 1 .. 2
  BY DEF TypeOK, Syncing
<1>2. sync[x].table = 1 => Table(x) = "ingest_runs"
  BY DEF Table, Tables
<1>3. sync[x].table = 2 => Table(x) = "raw_candles"
  BY DEF Table, Tables
<1>4. sync[x].table = 1 \/ sync[x].table = 2
  BY <1>1
<1> QED
  BY <1>1, <1>2, <1>3, <1>4 DEF Content

LEMMA CopyTableInv ==
  ASSUME SyncInvariant, NEW x \in Syncers, CopyTable(x)
  PROVE  SyncInvariant'
<1> DEFINE old == sync[x]
           copy == Content(old.from)[Table(x)]
           s == [old EXCEPT !.pc = "insert", !.staged = copy]
<1>1. TypeOK /\ MoveInv(x) /\ old \in Syncing /\ old.from \in Warehouses /\ HereInv(old.from)
  BY InvInParts, TableIs, Types
<1>2. /\ old.table = 1 => copy = runs[old.from]
      /\ old.table = 2 => copy = rows[old.from]
      /\ old.table = 1 \/ old.table = 2
  BY <1>1, TableIs
<1>3. copy \in (SUBSET Candle) \cup (SUBSET AuditRow)
  BY <1>1, <1>2 DEF TypeOK
<1>4. sync' = [sync EXCEPT ![x] = s] /\ UNCHANGED <<today, rows, runs, window>>
  BY <1>1 DEF CopyTable, TypeOK
<1> HIDE DEF copy
<1>5. /\ s \in Syncing /\ s.pc = "insert" /\ s.staged = copy /\ s.table = old.table
      /\ s.from = old.from /\ s.to = old.to /\ s.begun = old.begun
  BY <1>1, <1>3 DEF Syncing
<1> HIDE DEF s
<1>6. MoveInv(x)'
  <2>1. sync'[x] = s
    BY <1>1, <1>4, <1>5, Moves
  <2>2. ASSUME old.table = 1 PROVE Consecutive(sync[x].staged)'
    BY <1>1, <1>2, <1>4, <1>5, <2>1, <2>2 DEF HereInv, WarehouseInv, Consecutive
  <2>3. ASSUME old.table = 2 PROVE Explained(sync[x].staged, sync[x].from)'
    BY <1>1, <1>2, <1>4, <1>5, <2>1, <2>3 DEF HereInv, WarehouseInv, Explained, KnownTo
  <2>4. CopyInv(x)'
    BY <1>1, <1>2, <1>4, <1>5, <2>1, <2>2, <2>3 DEF MoveInv, CopyInv
  <2> QED
    BY <1>5, <2>1, <2>4 DEF MoveInv, Finished
<1> QED
  BY <1>4, <1>5, <1>6, OnlyTheSync

\* Two warehouses never name different runs alike.
LEMMA SameRun ==
  ASSUME SyncInvariant, NEW d \in Warehouses, NEW e \in Warehouses,
         NEW r \in runs[d], NEW q \in runs[e], r.id = q.id
  PROVE  r = q
<1>1. TypeOK /\ HereInv(d) /\ HereInv(e)
  BY InvInParts
<1>2. r.id.by \in Warehouses
  BY <1>1, Types
<1>3. r \in runs[r.id.by] /\ q \in runs[r.id.by]
  BY <1>1 DEF HereInv, WarehouseInv, Originals
<1> QED
  BY <1>2, <1>3, InvInParts DEF HereInv, WarehouseInv, Numbered

LEMMA ForeignKeyFailsInv ==
  ASSUME SyncInvariant, NEW x \in Syncers, ForeignKeyFails(x)
  PROVE  SyncInvariant'
<1> DEFINE old == sync[x]
           s == [old EXCEPT !.pc = "failed", !.staged = {}]
<1>1. /\ TypeOK /\ MoveInv(x) /\ old \in Syncing /\ old.pc = "insert" /\ old.table = 2
      /\ old.from \in Warehouses /\ old.to \in Warehouses
  BY InvInParts, TableIs, Types DEF ForeignKeyFails
<1>2. sync' = [sync EXCEPT ![x] = s] /\ UNCHANGED <<today, rows, runs, window>>
  BY <1>1 DEF ForeignKeyFails, TypeOK
<1>3. /\ s \in Syncing /\ s.pc = "failed" /\ s.table = 2
      /\ s.from = old.from /\ s.to = old.to /\ s.begun = old.begun
  BY <1>1 DEF Syncing
<1> HIDE DEF s
<1>4. runs[old.from] # old.begun.ingest_runs
  <2>1. PICK c \in old.staged : \A r \in runs[old.to] : r.id # c.run
    BY DEF ForeignKeyFails, Orphans, NewCandles
  <2>2. PICK r \in runs[old.from] : r.id = c.run
    <3>1. c \in rows[old.from]
      BY <1>1, <2>1 DEF MoveInv, CopyInv
    <3> QED
      BY <1>1, <3>1, InvInParts DEF HereInv, Sound
  <2>3. old.begun.ingest_runs \subseteq runs[old.to]
    BY <1>1 DEF MoveInv, CopyInv
  <2> QED
    BY <2>1, <2>2, <2>3
<1>5. MoveInv(x)'
  <2>1. sync'[x] = s
    BY <1>1, <1>2, <1>3, Moves
  <2> QED
    BY <1>1, <1>2, <1>3, <1>4, <2>1 DEF MoveInv, CopyInv, Finished
<1> QED
  BY <1>2, <1>3, <1>5, OnlyTheSync

LEMMA InsertRunsInv ==
  ASSUME SyncInvariant, NEW x \in Syncers, InsertRuns(x)
  PROVE  SyncInvariant'
<1> PICK old, from, to : old = sync[x] /\ from = old.from /\ to = old.to
  OBVIOUS
<1> DEFINE new == NewRuns(x)
           s == [old EXCEPT !.staged = {}, !.pc = "copy", !.table = 2]
<1>1. /\ TypeOK /\ MoveInv(x) /\ old \in Syncing /\ old.pc = "insert" /\ old.table = 1
      /\ from \in Warehouses /\ to \in Warehouses /\ HereInv(from) /\ HereInv(to)
  BY InvInParts, TableIs, Types DEF InsertRuns
<1>2. /\ sync' = [sync EXCEPT ![x] = s]
      /\ runs' = [runs EXCEPT ![to] = @ \cup new]
      /\ UNCHANGED <<today, rows, window>>
  <2>1. sync[x].table # 2 /\ sync[x].table + 1 = 2
    BY <1>1
  <2>2. sync' = [sync EXCEPT ![x] = s]
    BY <1>1, <2>1 DEF InsertRuns, Committed, TypeOK
  <2> QED
    BY <1>1, <2>2 DEF InsertRuns
<1>3. /\ s \in Syncing /\ s.pc = "copy" /\ s.table = 2
      /\ s.from = from /\ s.to = to /\ s.begun = old.begun
  <2>1. 2 \in 1 .. 2
    OBVIOUS
  <2> QED
    BY <1>1, <2>1 DEF Syncing
<1> HIDE DEF s
<1>4. /\ new \subseteq old.staged /\ old.staged \subseteq runs[from]
      /\ \A r \in new, q \in runs[to] : q.id # r.id
  BY <1>1 DEF NewRuns, MoveInv, CopyInv
<1>5. /\ runs'[to] = runs[to] \cup new
      /\ \A d \in Warehouses \ {to} : runs'[d] = runs[d]
  BY <1>1, <1>2 DEF TypeOK
<1>6. TypeOK'
  <2>1. new \subseteq AuditRow
    BY <1>1, <1>4 DEF TypeOK
  <2>2. runs' \in [Warehouses -> SUBSET AuditRow]
    BY <1>1, <1>2, <2>1 DEF TypeOK
  <2> QED
    BY <1>1, <1>2, <1>3, <2>2, Moves DEF TypeOK
<1>7. \A r \in new : r.id.by # to
  BY <1>1, <1>4 DEF HereInv, WarehouseInv, Originals
<1>8. Growth
  BY <1>1, <1>2, <1>5, <1>7, Types DEF Growth
\* Whoever is not inserted is there already, and the same row.
<1>9. old.staged \subseteq runs'[to]
  <2> SUFFICES ASSUME NEW r \in old.staged, r \notin new PROVE r \in runs[to]
    BY <1>5
  <2>1. PICK q \in runs[to] : q.id = r.id
    BY DEF NewRuns
  <2> QED
    BY <1>1, <1>4, <2>1, SameRun
<1>10. HereInv(to)'
  <2>1. Numbered(to)'
    <3>1. Own(to)' = Own(to)
      BY <1>5, <1>7 DEF Own
    <3>2. \A r, q \in runs'[to] : r.id = q.id => r = q
      BY <1>1, <1>4, <1>5 DEF HereInv, WarehouseInv, Numbered
    <3> QED
      BY <1>1, <3>1, <3>2 DEF HereInv, WarehouseInv, Numbered
  <2>2. Originals(to)'
    <3>1. \A r \in runs[to] \cup runs[from] : r.id.by \in Warehouses /\ r \in runs[r.id.by]
      BY <1>1, Types DEF HereInv, WarehouseInv, Originals
    <3>2. \A r \in runs'[to] : r \in runs'[r.id.by]
      BY <1>4, <1>5, <1>8, <3>1 DEF Growth
    <3> QED
      BY <1>1, <1>2, <3>2 DEF HereInv, WarehouseInv, Originals
  <2>3. Consecutive(runs[to])'
    <3>1. \A r \in runs[to] : \A q \in runs'[r.id.by] :
            q.id.by = r.id.by /\ q.id.n <= r.id.n => q \in runs[to]
      BY <1>1, <1>6, <1>8, StaysConsecutive DEF HereInv, WarehouseInv, Consecutive
    <3>2. \A r \in old.staged : \A q \in runs'[r.id.by] :
            q.id.by = r.id.by /\ q.id.n <= r.id.n => q \in old.staged
      BY <1>1, <1>6, <1>8, StaysConsecutive DEF MoveInv, CopyInv, Consecutive
    <3> QED
      BY <1>4, <1>5, <1>9, <3>1, <3>2 DEF Consecutive
  <2>4. Explained(rows[to], to)'
    <3> SUFFICES ASSUME NEW c \in rows[to], c.run.by = to
                 PROVE  Local!NoGap(rows[to], KnownTo(to, c)', c.pair, c.day)
      BY <1>2 DEF Explained, KnownTo, Local!NoGap, Local!Stored, Local!Omitted
    <3> QED
      BY <1>1, <1>8, StaysExplained DEF HereInv, WarehouseInv
  <2>5. runs[to] \subseteq runs'[to]
    BY <1>5
  <2>6. WindowSound(to)'
    <3>1. ASSUME window[to] # NoWindow
          PROVE  /\ window[to].we < today
                 /\ Local!NoGap(rows[to], runs'[to], window[to].pair, window[to].ws - 1)
      BY <1>1, <2>5, <3>1, NoGapMonotone DEF HereInv, WarehouseInv, WindowSound
    <3> QED
      BY <1>2, <3>1 DEF WindowSound, NoWindow, Local!NoGap, Local!Stored, Local!Omitted
  <2>7. Sound(to)'
    <3>1. \A c \in rows[to] : Local!NoGap(rows[to], runs'[to], c.pair, c.day)
      BY <1>1, <2>5, NoGapMonotone DEF HereInv, Sound
    <3> QED
      BY <1>1, <1>2, <2>5, <3>1 DEF HereInv, Sound, Local!NoGap, Local!Stored, Local!Omitted
  <2> QED
    BY <2>1, <2>2, <2>3, <2>4, <2>6, <2>7 DEF HereInv, WarehouseInv
<1>11. \A d \in Warehouses \ {to} : HereInv(d)'
  BY <1>2, <1>5, <1>6, <1>8, StaysHere
<1>12. MoveInv(x)'
  <2>1. sync'[x] = s
    BY <1>1, <1>2, <1>3, Moves
  <2>2. old.begun.ingest_runs \subseteq old.staged
    BY <1>1 DEF MoveInv, CopyInv
  <2>3. runs[from] \subseteq runs'[from]
    BY <1>1, <1>8 DEF Growth
  <2> QED
    BY <1>1, <1>2, <1>3, <1>9, <2>1, <2>2, <2>3 DEF MoveInv, CopyInv, Finished
<1>13. \A y \in Syncers \ {x} : MoveInv(y)'
  BY <1>1, <1>2, <1>3, <1>6, <1>8, Moves, StaysMoving
<1> QED
  BY <1>6, <1>10, <1>11, <1>12, <1>13, InvInParts

\* A bar that is inserted comes from the source, with its audit row, and what explained the
\* days below it there is at the target: the source's earlier runs because it has the run
\* of the bar, the others because they are the target's own, the bars because they came too.
LEMMA InsertCandlesInv ==
  ASSUME SyncInvariant, NEW x \in Syncers, InsertCandles(x)
  PROVE  SyncInvariant'
<1> PICK old, from, to : old = sync[x] /\ from = old.from /\ to = old.to
  OBVIOUS
<1> DEFINE new == NewCandles(x)
           s == [old EXCEPT !.staged = {}, !.pc = "done", !.table = 2]
<1>1. /\ TypeOK /\ MoveInv(x) /\ old \in Syncing /\ old.pc = "insert" /\ old.table = 2
      /\ from \in Warehouses /\ to \in Warehouses /\ HereInv(from) /\ HereInv(to)
  BY InvInParts, TableIs, Types DEF InsertCandles
<1>2. /\ sync' = [sync EXCEPT ![x] = s]
      /\ rows' = [rows EXCEPT ![to] = @ \cup new]
      /\ UNCHANGED <<today, runs, window>>
  BY <1>1 DEF InsertCandles, Committed, TypeOK
<1>3. /\ s \in Syncing /\ s.pc = "done" /\ s.table = 2
      /\ s.from = from /\ s.to = to /\ s.begun = old.begun
  BY <1>1 DEF Syncing
<1> HIDE DEF s
<1>4. /\ new \subseteq old.staged /\ old.staged \subseteq rows[from]
      /\ \A c \in new : ~Stored(to, c.pair, c.day)
      /\ \A c \in new : \E r \in runs[to] : r.id = c.run
      /\ \A c \in old.staged : c \in new \/ Stored(to, c.pair, c.day)
  BY <1>1 DEF InsertCandles, Orphans, NewCandles, MoveInv, CopyInv
<1>5. /\ rows'[to] = rows[to] \cup new
      /\ \A d \in Warehouses \ {to} : rows'[d] = rows[d]
  BY <1>1, <1>2 DEF TypeOK
<1>6. TypeOK'
  <2>1. new \subseteq Candle
    BY <1>1, <1>4 DEF TypeOK
  <2>2. rows' \in [Warehouses -> SUBSET Candle]
    BY <1>1, <1>2, <2>1 DEF TypeOK
  <2> QED
    BY <1>1, <1>2, <1>3, <2>2, Moves DEF TypeOK
<1>7. Growth
  BY <1>1, <1>2, <1>5, Types DEF Growth
<1> HIDE DEF new
<1>8. \A c \in old.staged : Local!Stored(rows'[to], c.pair, c.day)
  BY <1>4, <1>5 DEF Stored, Local!Stored
<1>9. \A c \in rows[to] : Local!NoGap(rows'[to], runs[to], c.pair, c.day)
  BY <1>1, <1>5, NoGapMonotone DEF HereInv, Sound
<1>10. \A c \in new : c.run.by # to
  BY <1>1, <1>4 DEF HereInv, WarehouseInv, Originals, Stored, Local!Stored
<1>11. ASSUME NEW c \in new PROVE Local!NoGap(rows'[to], runs[to], c.pair, c.day)
  <2>1. c \in rows[from] /\ c.run.by \in Warehouses /\ c.run.by # to
    BY <1>1, <1>4, <1>10, Types
  <2>2. from # to
    BY <1>4, <2>1 DEF Stored, Local!Stored
  <2>3. c.run.by = from
    BY <1>1, <2>1, <2>2 DEF Warehouses
  <2>4. Local!NoGap(old.staged, KnownTo(from, c), c.pair, c.day)
    BY <1>1, <1>4, <2>3 DEF MoveInv, CopyInv, Explained
  <2>5. PICK r \in runs[to] : r.id = c.run
    BY <1>4
  <2>6. KnownTo(from, c) \subseteq runs[to]
    <3> SUFFICES ASSUME NEW q \in runs[from], q.id.by = from => q.id.n <= r.id.n
                 PROVE  q \in runs[to]
      BY <2>5 DEF KnownTo
    <3>1. q \in runs[q.id.by] /\ q.id.by \in Warehouses
      BY <1>1, Types DEF HereInv, WarehouseInv, Originals
    <3>2. CASE q.id.by = from
      BY <1>1, <2>3, <2>5, <3>2 DEF HereInv, WarehouseInv, Consecutive
    <3>3. CASE q.id.by # from
      BY <1>1, <2>2, <3>1, <3>3 DEF Warehouses
    <3> QED
      BY <3>2, <3>3
  <2> QED
    BY <1>8, <2>4, <2>6 DEF Local!NoGap, Local!Stored, Local!Omitted
<1>12. HereInv(to)'
  <2>1. Numbered(to)' /\ Consecutive(runs[to])'
    BY <1>1, <1>2 DEF HereInv, WarehouseInv, Numbered, Own, Consecutive
  <2>2. Originals(to)'
    <3>1. \A c \in rows[to] \cup rows[from] : c.run.by \in Warehouses /\ c \in rows[c.run.by]
      BY <1>1, Types DEF HereInv, WarehouseInv, Originals
    <3>2. \A c \in rows'[to] : c \in rows'[c.run.by]
      BY <1>4, <1>5, <1>7, <3>1 DEF Growth
    <3> QED
      BY <1>1, <1>2, <3>2 DEF HereInv, WarehouseInv, Originals
  <2>3. Explained(rows[to], to)'
    <3> SUFFICES ASSUME NEW c \in rows'[to], c.run.by = to
                 PROVE  Local!NoGap(rows'[to], KnownTo(to, c), c.pair, c.day)
      BY <1>2 DEF Explained, KnownTo, Local!NoGap, Local!Stored, Local!Omitted
    <3>1. c \in rows[to] /\ rows[to] \subseteq rows'[to]
      BY <1>5, <1>10
    <3> QED
      BY <1>1, <3>1, NoGapMonotone DEF HereInv, WarehouseInv, Explained
  <2>4. WindowSound(to)'
    <3>1. ASSUME window[to] # NoWindow
          PROVE  /\ window[to].we < today
                 /\ Local!NoGap(rows'[to], runs[to], window[to].pair, window[to].ws - 1)
      BY <1>1, <1>5, <3>1, NoGapMonotone DEF HereInv, WarehouseInv, WindowSound
    <3> QED
      BY <1>2, <3>1 DEF WindowSound, NoWindow, Local!NoGap, Local!Stored, Local!Omitted
  <2>5. Sound(to)'
    <3>1. \A c, e \in rows'[to] : c.pair = e.pair /\ c.day = e.day => c = e
      BY <1>1, <1>4, <1>5 DEF HereInv, Sound, Stored, Local!Stored
    <3>2. \A c \in rows'[to] : \E r \in runs[to] :
            r.id = c.run /\ r.pair = c.pair /\ r.status = "success" /\ c.day \in r.fetched
      <4> SUFFICES ASSUME NEW c \in new
                   PROVE  \E r \in runs[to] : r.id = c.run /\ r.pair = c.pair
                            /\ r.status = "success" /\ c.day \in r.fetched
        BY <1>1, <1>5 DEF HereInv, Sound
      <4>1. PICK r \in runs[to] : r.id = c.run
        BY <1>4
      <4>2. PICK q \in runs[from] :
              q.id = c.run /\ q.pair = c.pair /\ q.status = "success" /\ c.day \in q.fetched
        BY <1>1, <1>4 DEF HereInv, Sound
      <4> QED
        BY <1>1, <4>1, <4>2, SameRun
    <3>3. \A c \in rows'[to] : c.day \in 0 .. today - 1
      BY <1>1, <1>4, <1>5 DEF HereInv, Sound
    <3>4. \A c \in rows'[to] : Local!NoGap(rows'[to], runs[to], c.pair, c.day)
      BY <1>5, <1>9, <1>11
    <3> QED
      BY <1>2, <3>1, <3>2, <3>3, <3>4 DEF Sound, Local!NoGap, Local!Stored, Local!Omitted
  <2> QED
    BY <2>1, <2>2, <2>3, <2>4, <2>5 DEF HereInv, WarehouseInv
<1>13. \A d \in Warehouses \ {to} : HereInv(d)'
  BY <1>2, <1>5, <1>6, <1>7, StaysHere
<1>14. MoveInv(x)'
  <2>1. sync'[x] = s
    BY <1>1, <1>2, <1>3, Moves
  <2>2. /\ old.begun.raw_candles \subseteq old.staged
        /\ old.begun.ingest_runs \subseteq runs[from] /\ old.begun.ingest_runs \subseteq runs[to]
    BY <1>1 DEF MoveInv, CopyInv
  <2>3. rows[from] \subseteq rows'[from]
    BY <1>1, <1>7 DEF Growth
  <2>4. CopyInv(x)'
    BY <1>2, <1>3, <1>4, <2>1, <2>2, <2>3 DEF CopyInv
  <2>5. Finished(x)'
    BY <1>2, <1>3, <1>8, <2>1, <2>2 DEF Finished, Stored, Local!Stored
  <2> QED
    BY <2>4, <2>5 DEF MoveInv
<1>15. \A y \in Syncers \ {x} : MoveInv(y)'
  BY <1>1, <1>2, <1>3, <1>6, <1>7, Moves, StaysMoving
<1> QED
  BY <1>6, <1>12, <1>13, <1>14, <1>15, InvInParts

-----------------------------------------------------------------------------
(* Every step *)

LEMMA NextInv == SyncInvariant /\ [Next]_vars => SyncInvariant'
<1> SUFFICES ASSUME SyncInvariant, [Next]_vars PROVE SyncInvariant'
  OBVIOUS
<1>1. TypeOK /\ today \in Nat
  BY InvInParts, Types
<1>3. ASSUME today' \in Nat, today <= today', UNCHANGED <<rows, runs, window, sync>>
      PROVE  SyncInvariant'
  <2>1. TypeOK'
    BY <1>1, <1>3 DEF TypeOK
  <2>2. Growth
    BY <1>1, <1>3 DEF Growth
  <2>3. \A d \in Warehouses : HereInv(d)'
    BY <1>3, <2>1, <2>2, StaysHere
  <2>4. \A x \in Syncers : MoveInv(x)'
    BY <1>3, <2>1, <2>2, StaysMoving
  <2> QED
    BY <2>1, <2>3, <2>4, InvInParts
<1>4. CASE NewDay
  BY <1>1, <1>3, <1>4 DEF NewDay
<1>5. CASE UNCHANGED vars
  BY <1>1, <1>3, <1>5 DEF vars
<1> QED
  BY <1>4, <1>5, BeginIngestInv, CommitIngestInv, StartSyncInv, CopyTableInv, InsertRunsInv,
     InsertCandlesInv, ForeignKeyFailsInv, DieInv DEF Next

\* What holds between any two statements of any two ingestions and syncs.
THEOREM SyncInvariance == Spec => []SyncInvariant
  BY InitInv, NextInv, PTL DEF Spec

\* No copy leaves a warehouse with a bar twice, without its audit row or still forming.
THEOREM CopiesStaySound == Spec => []CopiesAreSound
  BY SyncInvariance, PTL DEF SyncInvariant

\* No copy moves a watermark over a day nobody asked the vendor about.
THEOREM WatermarksStayHonest == Spec => []WatermarkHidesNothing
  BY SyncInvariance, PTL DEF SyncInvariant

\* A sync that returns has brought everything over that was there when it began.
THEOREM SyncsDeliver == Spec => []SyncDelivers
  BY SyncInvariance, PTL DEF SyncInvariant

\* A sync whose source rests does not fail.
THEOREM QuietSyncsPass == Spec => []OnlyRacesFail
  BY SyncInvariance, PTL DEF SyncInvariant

-----------------------------------------------------------------------------
(* The ingestions keep the bronze layer's promise *)

\* A warehouse d grew as BronzeLayer's Append has it, by newRows and newRuns.
Appended(d, newRows, newRuns) ==
  /\ UNCHANGED today
  /\ rows[d] \subseteq rows'[d] /\ runs[d] \subseteq runs'[d]
  /\ \A r \in newRuns, q \in runs[d] : q.id # r.id
  /\ \A c \in newRows : c.day \in 0 .. today - 1 /\ ~Local!Stored(rows[d], c.pair, c.day)
  /\ \A c, e \in newRows : c.pair = e.pair /\ c.day = e.day => c = e
  /\ \A c \in newRows :
       \E r \in newRuns : /\ r.id = c.run /\ r.pair = c.pair
                          /\ r.status = "success" /\ c.day \in r.fetched
  /\ \A r \in newRuns : r.inserted = Cardinality({c \in newRows : c.run = r.id})
  /\ \A r \in newRuns : r.status = "success" => Local!NoGap(rows'[d], runs'[d], r.pair, r.we)

AppendTo(d) == IF d = "local" THEN Local!Append ELSE Managed!Append

LEMMA AppendedIsAppend ==
  ASSUME NEW d \in Warehouses, Appended(d, rows'[d] \ rows[d], runs'[d] \ runs[d])
  PROVE  AppendTo(d)
<1>1. /\ \A S : Local!Cardinality(S) = Cardinality(S)
      /\ \A S : Managed!Cardinality(S) = Cardinality(S)
  BY DEF Local!Cardinality, Managed!Cardinality, Cardinality
<1>2. /\ \A S, p, t : Managed!Stored(S, p, t) <=> Local!Stored(S, p, t)
      /\ \A S, R, p, t : Managed!NoGap(S, R, p, t) <=> Local!NoGap(S, R, p, t)
  BY DEF Managed!Stored, Local!Stored, Managed!NoGap, Local!NoGap, Managed!Omitted, Local!Omitted
<1>3. CASE d = "local"
  BY <1>1, <1>3 DEF Appended, AppendTo, Local!Append
<1>4. CASE d = "managed"
  BY <1>1, <1>2, <1>4 DEF Appended, AppendTo, Managed!Append
<1> QED
  BY <1>3, <1>4 DEF Warehouses

\* A set counted through distinct names for its members.
LEMMA NamesCount ==
  ASSUME NEW S, IsFiniteSet(S), NEW T, NEW f, f \in Bijection(S, T)
  PROVE  Cardinality(T) = Cardinality(S)
BY FS_Bijection DEF ExistsBijection

LEMMA CommitIngestAppends ==
  ASSUME SyncInvariant, NEW d \in Warehouses, NEW status \in {"success", "failed"},
         NEW fetched, CommitIngest(d, status, fetched)
  PROVE  AppendTo(d)
<1> DEFINE w == window[d]
           id == [by |-> d, n |-> Cardinality(Own(d))]
           new == {t \in fetched : ~Stored(d, w.pair, t)}
           Bar(t) == [pair |-> w.pair, day |-> t, run |-> id]
           bars == {Bar(t) : t \in new}
           a == [id |-> id, pair |-> w.pair, status |-> status, ws |-> w.ws, we |-> w.we,
                 asked |-> IF status = "success" THEN w.ws .. w.we ELSE {},
                 fetched |-> fetched, inserted |-> Cardinality(new)]
<1>1. /\ TypeOK /\ HereInv(d) /\ today \in Nat
      /\ w.pair \in Pairs /\ w.ws \in Nat /\ w.we \in Nat /\ BackfillStart \in Nat
  BY InvInParts, Types, SyncAssumption
<1>2. /\ fetched \subseteq w.ws .. w.we /\ (status = "failed" => fetched = {})
      /\ w.we < today /\ Local!NoGap(rows[d], runs[d], w.pair, w.ws - 1)
  BY <1>1 DEF CommitIngest, HereInv, WarehouseInv, WindowSound
<1>3. IsFiniteSet(new)
  <2>1. IsFiniteSet(w.ws .. w.we)
    <3>1. \A i, j \in Nat : IsFiniteSet(i .. j)
      BY FS_Interval
    <3> QED
      BY <1>1, <3>1
  <2> QED
    BY <1>2, <2>1, FS_Subset
<1>4. /\ rows' = [rows EXCEPT ![d] = @ \cup bars]
      /\ runs' = [runs EXCEPT ![d] = @ \cup {a}] /\ UNCHANGED today
  BY DEF CommitIngest
<1>5. rows'[d] = rows[d] \cup bars /\ runs'[d] = runs[d] \cup {a}
  BY <1>1, <1>4 DEF TypeOK
<1>6. /\ a.id = id /\ a.pair = w.pair /\ a.status = status /\ a.we = w.we
      /\ a.fetched = fetched /\ (status = "success" => a.asked = w.ws .. w.we)
      /\ a.inserted = Cardinality(new)
  OBVIOUS
<1>7. \A r \in runs[d] : r.id # id
  <2>1. \A q \in Own(d) : q.id.n < Cardinality(Own(d)) /\ q.id.n \in Nat
    BY <1>1, Types DEF HereInv, WarehouseInv, Numbered, Own
  <2>2. Cardinality(Own(d)) \in Nat
    BY <1>1, FS_CardinalityType DEF HereInv, WarehouseInv, Numbered
  <2>3. \A r \in runs[d] : r.id.by = d => r.id.n # Cardinality(Own(d))
    BY <2>1, <2>2 DEF Own
  <2> QED
    BY <2>3
<1> HIDE DEF id, new
<1>8. \A t \in new : Bar(t).pair = w.pair /\ Bar(t).day = t /\ Bar(t).run = id
  OBVIOUS
<1> HIDE DEF Bar, a
<1>9. /\ \A c \in bars : /\ c.pair = w.pair /\ c.run = id /\ c.day \in new
                         /\ \A e \in bars : c.day = e.day => c = e
      /\ \A t \in new : \E c \in bars : c.day = t /\ c.pair = w.pair
  BY <1>8
<1>10. Cardinality(bars) = Cardinality(new)
  <2> DEFINE f == [t \in new |-> Bar(t)]
  <2>1. f \in Bijection(new, bars)
    <3>1. f \in [new -> bars] /\ (\A s, t \in new : f[s] = f[t] => s = t)
      BY <1>8
    <3>2. \A c \in bars : \E t \in new : f[t] = c
      OBVIOUS
    <3> HIDE DEF f
    <3> QED
      BY <3>1, <3>2 DEF Bijection, Injection, Surjection, IsInjective
  <2> QED
    BY <1>3, <2>1, NamesCount
<1>11. \A t \in new : t \in w.ws .. w.we /\ ~Local!Stored(rows[d], w.pair, t) /\ t \in fetched
  BY <1>2 DEF new, Stored
<1> HIDE DEF bars
<1>12. rows'[d] \ rows[d] = bars /\ runs'[d] \ runs[d] = {a}
  <2>1. \A c \in bars : c \notin rows[d]
    BY <1>9, <1>11 DEF Local!Stored
  <2> QED
    BY <1>5, <1>6, <1>7, <2>1
<1>13. \A c \in bars : c.day \in 0 .. today - 1 /\ ~Local!Stored(rows[d], c.pair, c.day)
  <2> SUFFICES ASSUME NEW c \in bars
               PROVE  c.day \in 0 .. today - 1 /\ ~Local!Stored(rows[d], c.pair, c.day)
    OBVIOUS
  <2>1. c.day \in w.ws .. w.we /\ ~Local!Stored(rows[d], c.pair, c.day)
    BY <1>9, <1>11
  <2> QED
    BY <1>1, <1>2, <2>1
<1>14. \A c \in bars : status = "success" /\ c.day \in fetched
  BY <1>2, <1>9, <1>11
<1>15. {c \in bars : c.run = a.id} = bars
  BY <1>6, <1>9
<1>16. status = "success" => Local!NoGap(rows'[d], runs'[d], w.pair, w.we)
  <2> SUFFICES ASSUME status = "success", NEW t \in BackfillStart .. w.we
               PROVE  \/ Local!Stored(rows'[d], w.pair, t)
                      \/ Local!Omitted(runs'[d], w.pair, t)
    BY DEF Local!NoGap
  <2>1. CASE t < w.ws
    <3>1. t \in BackfillStart .. w.ws - 1
      BY <1>1, <2>1
    <3>2. Local!Stored(rows[d], w.pair, t) \/ Local!Omitted(runs[d], w.pair, t)
      BY <1>2, <3>1 DEF Local!NoGap
    <3> QED
      BY <1>5, <3>2 DEF Local!Stored, Local!Omitted
  <2>2. CASE t >= w.ws /\ t \in fetched
    BY <1>5, <1>9, <2>2 DEF new, Stored, Local!Stored
  <2>3. CASE t >= w.ws /\ t \notin fetched
    <3>1. t \in w.ws .. w.we
      BY <1>1, <2>3
    <3> QED
      BY <1>5, <1>6, <2>3, <3>1 DEF Local!Omitted
  <2>4. t \in Int /\ w.ws \in Int
    BY <1>1
  <2> QED
    BY <2>1, <2>2, <2>3, <2>4
<1>17. Appended(d, bars, {a})
  <2>1. \A c, e \in bars : c.pair = e.pair /\ c.day = e.day => c = e
    BY <1>9
  <2>2. \A c \in bars : a.id = c.run /\ a.pair = c.pair /\ a.status = "success" /\ c.day \in a.fetched
    BY <1>6, <1>9, <1>14
  <2>3. a.inserted = Cardinality({c \in bars : c.run = a.id})
    BY <1>6, <1>10, <1>15
  <2>4. a.status = "success" => Local!NoGap(rows'[d], runs'[d], a.pair, a.we)
    BY <1>6, <1>16
  <2>5. \A q \in runs[d] : q.id # a.id
    BY <1>6, <1>7
  <2> QED
    BY <1>4, <1>5, <1>13, <2>1, <2>2, <2>3, <2>4, <2>5 DEF Appended
<1> QED
  BY <1>12, <1>17, AppendedIsAppend

\* What this module takes an ingestion to do is what BronzeLayer promises of one, at either
\* warehouse and whatever was copied into it between the watermark and the commit: the copies
\* do not break the promise for the runs that come after them.
THEOREM IngestionsAppend ==
  Spec => [][\A d \in Warehouses, status \in {"success", "failed"}, fetched \in SUBSET (0 .. LastDay) :
               CommitIngest(d, status, fetched) => AppendTo(d)]_vars
<1>1. SyncInvariant /\ [Next]_vars =>
        [\A d \in Warehouses, status \in {"success", "failed"}, fetched \in SUBSET (0 .. LastDay) :
           CommitIngest(d, status, fetched) => AppendTo(d)]_vars
  BY CommitIngestAppends
<1> QED
  BY <1>1, SyncInvariance, PTL DEF Spec
=============================================================================
