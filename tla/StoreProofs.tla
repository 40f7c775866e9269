----------------------------- MODULE StoreProofs -----------------------------
(***************************************************************************)
(* The backtest store and the exported directory keep what they promise    *)
(* for every number of flows, variants, assets, generations and jobs: one  *)
(* lemma on what a change of the store leaves to every flow, then one for  *)
(* each action; then the bound, the curves, and that flows end.            *)
(***************************************************************************)
EXTENDS StoreInv, FiniteSetTheorems, WellFoundedInduction, TLAPS

\* A run that is counted alone among those not older than it is the newest.
LEMMA CountedAlone ==
  ASSUME NEW S \in SUBSET Runs, IsFiniteSet(S), \A r, q \in S : r.at = q.at => r = q, NEW r \in S
  PROVE  Cardinality({q \in {x \in S : x.variant = r.variant} : q.at >= r.at}) = 1
           <=> \A q \in S : q.variant = r.variant => q.at <= r.at
<1> DEFINE Rank == {q \in {x \in S : x.variant = r.variant} : q.at >= r.at}
<1>1. IsFiniteSet(Rank)
  BY FS_Subset, Rank \subseteq S
<1>2. r \in Rank /\ \A q \in S : q.at \in Nat
  BY DEF Runs
<1>3. Cardinality(Rank) = 1 <=> \E x : Rank = {x}
  BY <1>1, FS_Singleton
<1>4. (\E x : Rank = {x}) <=> \A q \in Rank : q = r
  BY <1>2
<1>5. (\A q \in Rank : q = r) <=> \A q \in S : q.variant = r.variant => q.at <= r.at
  BY <1>2
<1> QED
  BY <1>3, <1>4, <1>5

LEMMA LatestIsNewest ==
  /\ store \subseteq Runs /\ Stamped => LatestRuns = Newest
  /\ store' \subseteq Runs /\ Stamped' => LatestRuns' = Newest'
<1>1. ASSUME store \subseteq Runs, Stamped PROVE LatestRuns = Newest
  <2>1. \A r \in store : Recency(r) = 1 <=> \A q \in store : q.variant = r.variant => q.at <= r.at
    BY <1>1, CountedAlone DEF Stamped, Recency, RunsOf
  <2> QED
    BY <2>1 DEF LatestRuns, Newest
<1>2. ASSUME store' \subseteq Runs, Stamped' PROVE LatestRuns' = Newest'
  <2>1. \A r \in store' :
          Recency(r)' = 1 <=> \A q \in store' : q.variant = r.variant => q.at <= r.at
    BY <1>2, CountedAlone DEF Stamped, Recency, RunsOf
  <2> QED
    BY <2>1 DEF LatestRuns, Newest
<1> QED
  BY <1>1, <1>2

\* Nothing takes a variant's newest run away but a newer one.
Overtaken ==
  \A r \in Newest : \E q \in Newest' : q.variant = r.variant /\ q.at >= r.at

-----------------------------------------------------------------------------
(* What a step leaves to the flows *)

\* The parts of the invariant that speak of one flow.
FlowInv(f) ==
  /\ At(f, "write") =>
       1 <= flow[f].at /\ flow[f].since < flow[f].at /\ \A r \in store : r.at # flow[f].at
  /\ \A v \in flow[f].todo \cup flow[f].wrote : SymbolOf[v] \in flow[f].cfg
  /\ \A r \in flow[f].before \cup flow[f].latest : SymbolOf[r.variant] \in flow[f].cfg
  /\ UpToDate(f, Newest)
  /\ flow[f].pc \in Reading => UpToDate(f, flow[f].latest)

DirInv(f) == LET d == dir[f] IN
  /\ flow[f].since <= clock /\ flow[f].at <= clock
  /\ d.index <= clock /\ \A s \in Symbols : d.files[s] <= clock
  /\ flow[f].pc \in {"export", "curves"} =>
       d.index < flow[f].at /\ \A s \in Symbols : d.files[s] < flow[f].at
  /\ At(f, "files") => d.index < flow[f].at /\ \A s \in Symbols : d.files[s] <= flow[f].at
  /\ At(f, "index") =>
       /\ d.index < flow[f].at /\ d.dirty
       /\ \A s \in Symbols : d.files[s] = IF s \in Shown(f) THEN flow[f].at ELSE Absent
  /\ ~d.dirty => \A s \in Symbols : d.files[s] = IF s \in d.shown THEN d.index ELSE Absent
  /\ \A s \in Symbols : d.files[s] \in {Absent, Torn} \/ d.files[s] >= d.index

\* Those that speak of the store.
StoreInv ==
  /\ Stamped /\ CurvesMatchRuns
  /\ \A f, g \in Flows : At(f, "write") /\ At(g, "write") /\ f # g => flow[f].at # flow[g].at

LEMMA InvInParts ==
  /\ FilesInv <=> FilesTypeOK /\ StoreInv /\ \A f \in Flows : FlowInv(f) /\ DirInv(f)
  /\ FilesInv' <=> FilesTypeOK' /\ StoreInv' /\ \A f \in Flows : FlowInv(f)' /\ DirInv(f)'
BY DEF FilesInv, StoreInv, FlowInv, DirInv, Apart, Configured, Represented, Placed, Reading,
       ExportIsThisRuns, DirectoryIsWhole

LEMMA FlowTypes ==
  ASSUME FilesTypeOK
  PROVE  /\ clock \in Nat
         /\ \A f \in Flows :
              /\ flow[f].since \in Nat /\ flow[f].at \in Nat
              /\ flow[f].pc \in Phases /\ flow[f].cfg \subseteq Symbols
              /\ flow[f].todo \subseteq Variants /\ flow[f].wrote \subseteq Variants
              /\ flow[f].before \subseteq Runs /\ flow[f].latest \subseteq Runs
              /\ dir[f].index \in Int /\ \A s \in Symbols : dir[f].files[s] \in Int
         /\ \A r \in store : r.at \in Nat /\ r.variant \in Variants
BY DEF FilesTypeOK, TypeOK, Directory, Stamp, Torn, Runs

\* What was up to date stays so as long as the newest runs are only overtaken.
LEMMA UpToDateStays ==
  ASSUME FilesInv, FilesTypeOK', NEW f \in Flows, Overtaken
  PROVE  /\ \A v \in flow[f].wrote : \E r \in Newest' : r.variant = v /\ r.at > flow[f].since
         /\ \A q \in flow[f].before : \E r \in Newest' : r.variant = q.variant /\ r.at >= q.at
<1>1. /\ flow[f].since \in Nat /\ \A q \in flow[f].before : q.at \in Nat
      /\ \A r \in Newest \cup Newest' : r.at \in Nat
  BY FlowTypes DEF FilesInv, FilesTypeOK, TypeOK, Newest, Runs
<1>2. UpToDate(f, Newest)
  BY InvInParts DEF FlowInv
<1>3. ASSUME NEW v \in flow[f].wrote PROVE \E r \in Newest' : r.variant = v /\ r.at > flow[f].since
  <2>1. PICK r \in Newest : r.variant = v /\ r.at > flow[f].since
    BY <1>2 DEF UpToDate
  <2>2. PICK q \in Newest' : q.variant = r.variant /\ q.at >= r.at
    BY DEF Overtaken
  <2> QED
    BY <1>1, <2>1, <2>2
<1>4. ASSUME NEW q \in flow[f].before
      PROVE  \E r \in Newest' : r.variant = q.variant /\ r.at >= q.at
  <2>1. PICK r \in Newest : r.variant = q.variant /\ r.at >= q.at
    BY <1>2 DEF UpToDate
  <2>2. PICK x \in Newest' : x.variant = r.variant /\ x.at >= r.at
    BY DEF Overtaken
  <2> QED
    BY <1>1, <2>1, <2>2
<1> QED
  BY <1>3, <1>4

\* A step of f leaves every other flow as sound as it was.
LEMMA Others ==
  ASSUME FilesInv, FilesTypeOK', NEW f \in Flows, NEW g \in Flows, g # f,
         flow'[g] = flow[g], dir'[g] = dir[g], clock <= clock', Overtaken,
         \A r \in store' : r \in store \/ (At(f, "write") /\ r.at = flow[f].at)
  PROVE  FlowInv(g)' /\ DirInv(g)'
<1>1. FlowInv(g) /\ DirInv(g) /\ StoreInv
  BY InvInParts
<1>2. clock \in Nat /\ clock' \in Nat
  BY DEF FilesInv, FilesTypeOK, TypeOK
<1>3. /\ flow[g].since \in Nat /\ flow[g].at \in Nat
      /\ dir[g].index \in Int /\ \A s \in Symbols : dir[g].files[s] \in Int
  BY FlowTypes DEF FilesInv
<1>4. Shown(g)' = Shown(g) /\ (\A phase : At(g, phase)' <=> At(g, phase))
  BY DEF Shown, At
<1>5. UpToDate(g, Newest)'
  BY UpToDateStays DEF UpToDate
<1>6. At(g, "write") => \A r \in store' : r.at # flow[g].at
  BY <1>1 DEF FlowInv, StoreInv
<1>7. FlowInv(g)'
  BY <1>1, <1>4, <1>5, <1>6 DEF FlowInv, UpToDate
<1>8. DirInv(g)'
  BY <1>1, <1>2, <1>3, <1>4 DEF DirInv
<1> QED
  BY <1>7, <1>8

\* As long as the store stays, so do its newest runs.
LEMMA QuietStore ==
  ASSUME FilesInv, UNCHANGED <<store, curves>>, clock <= clock', clock' \in Nat,
         \A f, g \in Flows : At(f, "write")' /\ At(g, "write")' /\ f # g => flow'[f].at # flow'[g].at
  PROVE  StoreInv' /\ Overtaken
<1>1. Newest' = Newest
  BY DEF Newest
<1>2. store \subseteq Runs /\ clock \in Nat /\ StoreInv
  BY InvInParts DEF FilesInv, FilesTypeOK, TypeOK
<1>3. Stamped'
  BY <1>2 DEF Stamped, StoreInv, Runs
<1>4. Overtaken
  BY <1>1, <1>2 DEF Overtaken, Newest, Runs
<1> QED
  BY <1>1, <1>2, <1>3, <1>4 DEF StoreInv, CurvesMatchRuns

-----------------------------------------------------------------------------
(* Initially *)

LEMMA FirstStamps ==
  ASSUME NEW g \in Nat, NEW h \in Nat, NEW v \in 1 .. NVariants, NEW w \in 1 .. NVariants
  PROVE  /\ g * NVariants \in Nat
         /\ g < h => g * NVariants + v < h * NVariants + w
         /\ h < Keep => h * NVariants + w <= Keep * NVariants
<1>1. NVariants \in Nat /\ Keep \in Nat
  BY BacktestStoreAssumption
<1>2. g * NVariants \in Nat /\ h * NVariants \in Nat /\ Keep * NVariants \in Nat
  BY <1>1
<1>3. \A a, b \in Nat : a < b => a * NVariants + NVariants <= b * NVariants
  <2> SUFFICES ASSUME NEW a \in Nat, NEW b \in Nat, a < b
               PROVE  a * NVariants + NVariants <= b * NVariants
    OBVIOUS
  <2>1. PICK k \in Nat : b = a + 1 + k
    <3>1. b - a - 1 \in Nat /\ b = a + 1 + (b - a - 1)
      OBVIOUS
    <3> QED
      BY <3>1
  <2>2. b * NVariants = a * NVariants + NVariants + k * NVariants
    BY <1>1, <2>1
  <2>3. k * NVariants \in Nat /\ a * NVariants \in Nat
    BY <1>1
  <2> QED
    BY <1>1, <2>2, <2>3
<1>4. g < h => g * NVariants + NVariants <= h * NVariants
  BY <1>3
<1>5. h < Keep => h * NVariants + NVariants <= Keep * NVariants
  BY <1>1, <1>3
<1> QED
  BY <1>1, <1>2, <1>4, <1>5

LEMMA InitStore ==
  ASSUME FilesInit
  PROVE  clock \in Nat /\ store \subseteq Runs /\ Stamped
<1> DEFINE At0(g, v) == g * NVariants + v
<1>1. /\ NVariants \in Nat /\ Keep \in Nat \ {0} /\ Variants = 1 .. NVariants
      /\ store \subseteq {[variant |-> v, at |-> At0(g, v)] : v \in Variants, g \in 0 .. Keep - 1}
      /\ clock = Keep * NVariants
  <2>1. store \subseteq Earlier
    BY BacktestStoreAssumption DEF FilesInit, Init
  <2>2. store \subseteq {[variant |-> v, at |-> At0(g, v)] : v \in Variants, g \in 0 .. Keep - 1}
    BY <2>1 DEF Earlier
  <2> HIDE DEF At0
  <2> QED
    BY <2>2, BacktestStoreAssumption DEF FilesInit, Init, Variants
<1>2. clock \in Nat
  BY <1>1
<1>3. \A v \in Variants, g \in 0 .. Keep - 1 :
        g * NVariants \in Nat /\ At0(g, v) \in Nat /\ 1 <= At0(g, v) /\ At0(g, v) <= clock
  <2> SUFFICES ASSUME NEW v \in Variants, NEW g \in 0 .. Keep - 1
               PROVE  g * NVariants \in Nat /\ At0(g, v) \in Nat /\ 1 <= At0(g, v) /\ At0(g, v) <= clock
    OBVIOUS
  <2> DEFINE k == g * NVariants
  <2>1. v \in 1 .. NVariants /\ v \in Nat /\ 1 <= v /\ g \in Nat /\ g < Keep
    BY <1>1
  <2>2. k \in Nat /\ k + v <= clock
    BY <1>1, <2>1, FirstStamps
  <2> HIDE DEF k
  <2>3. k + v \in Nat /\ 1 <= k + v
    BY <2>1, <2>2
  <2> QED
    BY <2>2, <2>3 DEF k
<1>4. \A v, w \in Variants, g, h \in 0 .. Keep - 1 : At0(g, v) = At0(h, w) => v = w
  <2> SUFFICES ASSUME NEW v \in Variants, NEW w \in Variants, NEW g \in 0 .. Keep - 1,
                      NEW h \in 0 .. Keep - 1, At0(g, v) = At0(h, w)
               PROVE  v = w
    OBVIOUS
  <2> DEFINE k == g * NVariants
             l == h * NVariants
  <2>1. g \in Nat /\ h \in Nat /\ v \in 1 .. NVariants /\ w \in 1 .. NVariants /\ v \in Nat /\ w \in Nat
    BY <1>1
  <2>2. k \in Nat /\ l \in Nat /\ k + v = l + w
    BY <2>1, FirstStamps
  <2>3. (g < h => k + v < l + w) /\ (h < g => l + w < k + v)
    BY <2>1, FirstStamps
  <2>4. g = h => k = l
    OBVIOUS
  <2> HIDE DEF k, l
  <2>5. g = h
    BY <2>1, <2>2, <2>3
  <2> QED
    BY <2>1, <2>2, <2>4, <2>5
<1>5. \A r \in store : \E v \in Variants, g \in 0 .. Keep - 1 : r = [variant |-> v, at |-> At0(g, v)]
  <2> HIDE DEF At0
  <2> QED
    BY <1>1
<1>6. store \subseteq Runs /\ \A r \in store : r.at \in Nat /\ 1 <= r.at /\ r.at <= clock
  <2> HIDE DEF At0
  <2>1. \A v \in Variants, g \in 0 .. Keep - 1 :
          At0(g, v) \in Nat /\ 1 <= At0(g, v) /\ At0(g, v) <= clock
    BY <1>3
  <2> QED
    BY <1>5, <2>1 DEF Runs
<1> HIDE DEF At0
<1>7. \A r, q \in store : r.at = q.at => r = q
  <2> SUFFICES ASSUME NEW r \in store, NEW q \in store, r.at = q.at PROVE r = q
    OBVIOUS
  <2>1. PICK v \in Variants, g \in 0 .. Keep - 1 : r = [variant |-> v, at |-> At0(g, v)]
    BY <1>5
  <2>2. PICK w \in Variants, h \in 0 .. Keep - 1 : q = [variant |-> w, at |-> At0(h, w)]
    BY <1>5
  <2> QED
    BY <1>4, <2>1, <2>2
<1>8. IsFiniteSet(store)
  <2>1. [r \in store |-> r.at] \in Injection(store, 1 .. clock)
    BY <1>2, <1>6, <1>7 DEF Injection, IsInjective
  <2>2. IsFiniteSet(1 .. clock)
    BY <1>2, FS_Interval
  <2> QED
    BY <2>1, <2>2, FS_Injection
<1> QED
  BY <1>2, <1>6, <1>7, <1>8 DEF Stamped

LEMMA InitFiles == FilesInit => FilesInv
<1> SUFFICES ASSUME FilesInit PROVE FilesInv
  OBVIOUS
<1>1. clock \in Nat /\ store \subseteq Runs /\ Stamped
  BY InitStore
<1>2. flow = [f \in Flows |-> NoFlow] /\ jobs = 0 /\ died = 0
  BY DEF FilesInit, Init
<1>3. PICK d \in {Empty, Whole(clock)} : dir = [f \in Flows |-> d]
  BY DEF FilesInit
<1>4. /\ d \in Directory /\ d.index <= clock /\ \A s \in Symbols : d.files[s] <= clock
      /\ \A s \in Symbols : d.files[s] = IF s \in d.shown THEN d.index ELSE Absent
      /\ d.index \in Int
  <2>1. Stocked \subseteq Symbols
    BY <1>1 DEF Stocked, Symbols, Runs
  <2>2. CASE d = Empty
    BY <1>1, <2>2 DEF Empty, Directory, Stamp, Absent
  <2>3. CASE d = Whole(clock)
    <3>1. /\ d.index = clock /\ d.shown = Stocked /\ d.dirty = FALSE
          /\ d.files = [s \in Symbols |-> IF s \in Stocked THEN clock ELSE Absent]
      BY <2>3 DEF Whole, Empty
    <3>2. d = [files |-> d.files, index |-> d.index, shown |-> d.shown, dirty |-> d.dirty]
      BY <2>3 DEF Whole, Empty
    <3>3. \A s \in Symbols : d.files[s] = IF s \in Stocked THEN clock ELSE Absent
      BY <3>1
    <3>4. d \in Directory
      <4>1. clock \in Stamp /\ Absent \in Stamp
        BY <1>1 DEF Stamp, Absent
      <4>2. d.files \in [Symbols -> Stamp]
        BY <3>1, <4>1
      <4> QED
        BY <2>1, <3>1, <3>2, <4>1, <4>2 DEF Directory
    <3> QED
      BY <1>1, <3>1, <3>3, <3>4 DEF Absent
  <2> QED
    BY <1>3, <2>2, <2>3
<1>5. FilesTypeOK
  <2>1. store \subseteq Runs /\ curves \subseteq Nat
    BY <1>1 DEF FilesInit, Init, Runs
  <2>2. flow \in [Flows -> [pc: Phases, cfg: SUBSET Symbols, todo: SUBSET Variants,
                            wrote: SUBSET Variants, since: Nat, before: SUBSET Runs, at: Nat,
                            latest: SUBSET Runs]]
    BY <1>2 DEF NoFlow, Phases
  <2> QED
    BY <1>1, <1>2, <1>3, <1>4, <2>1, <2>2, BacktestStoreAssumption DEF FilesTypeOK, TypeOK
<1>6. StoreInv
  <2>1. CurvesMatchRuns
    BY DEF FilesInit, Init, CurvesMatchRuns
  <2> QED
    BY <1>1, <1>2, <2>1 DEF StoreInv, At, NoFlow
<1>7. ASSUME NEW f \in Flows PROVE FlowInv(f) /\ DirInv(f)
  <2>1. flow[f] = NoFlow /\ dir[f] = d
    BY <1>2, <1>3
  <2>2. FlowInv(f)
    BY <2>1 DEF FlowInv, At, NoFlow, Reading, UpToDate
  <2>3. DirInv(f)
    BY <1>1, <1>4, <2>1 DEF DirInv, At, NoFlow
  <2> QED
    BY <2>2, <2>3
<1> QED
  BY <1>5, <1>6, <1>7, InvInParts

LEMMA OneMoves ==
  ASSUME FilesInv, FilesTypeOK', NEW f \in Flows, StoreInv', Overtaken, clock <= clock',
         \A g \in Flows \ {f} : flow'[g] = flow[g] /\ dir'[g] = dir[g],
         \A r \in store' : r \in store \/ (At(f, "write") /\ r.at = flow[f].at),
         FlowInv(f)', DirInv(f)'
  PROVE  FilesInv'
<1>1. ASSUME NEW g \in Flows PROVE FlowInv(g)' /\ DirInv(g)'
  <2>1. CASE g = f
    BY <2>1
  <2>2. CASE g # f
    BY <2>2, Others
  <2> QED
    BY <2>1, <2>2
<1> QED
  BY <1>1, InvInParts

\* Before its export a flow does not touch its directory.
LEMMA DirectoryWaits ==
  ASSUME FilesInv, NEW f \in Flows, clock <= clock', clock' \in Nat, dir'[f] = dir[f],
         flow'[f].pc \in {"off", "backtest", "write", "prune"},
         flow'[f].since <= clock', flow'[f].at <= clock'
  PROVE  DirInv(f)'
<1>1. DirInv(f) /\ clock \in Nat /\ dir[f].index \in Int /\ \A s \in Symbols : dir[f].files[s] \in Int
  BY InvInParts, FlowTypes DEF FilesInv
<1>2. ~At(f, "files")' /\ ~At(f, "index")' /\ flow'[f].pc \notin {"export", "curves"}
  BY DEF At
<1> QED
  BY <1>1, <1>2 DEF DirInv

FlowRecords ==
  [pc: Phases, cfg: SUBSET Symbols, todo: SUBSET Variants, wrote: SUBSET Variants,
   since: Nat, before: SUBSET Runs, at: Nat, latest: SUBSET Runs]

\* A step that puts x in the place of flow[f].
LEMMA Replaced ==
  ASSUME FilesTypeOK, NEW f \in Flows, NEW x \in FlowRecords, flow' = [flow EXCEPT ![f] = x],
         clock' \in Nat, jobs' = jobs, died' \in Nat, store' \subseteq Runs, curves' \subseteq Nat,
         dir' \in [Flows -> Directory]
  PROVE  /\ FilesTypeOK'
         /\ flow'[f] = x /\ \A g \in Flows \ {f} : flow'[g] = flow[g]
         /\ flow' = [flow EXCEPT ![f] = flow'[f]]
BY DEF FilesTypeOK, TypeOK, FlowRecords

LEMMA FlowIsRecord ==
  ASSUME FilesTypeOK, NEW f \in Flows
  PROVE  flow[f] \in FlowRecords /\ flow \in [Flows -> FlowRecords]
BY DEF FilesTypeOK, TypeOK, FlowRecords

\* A flow that writes has an executed_at of its own before and after a step that sends
\* nobody to "write".
LEMMA NobodyBegins ==
  ASSUME FilesInv, FilesTypeOK', NEW f \in Flows, flow' = [flow EXCEPT ![f] = flow'[f]],
         ~At(f, "write")'
  PROVE  \A g, h \in Flows : At(g, "write")' /\ At(h, "write")' /\ g # h => flow'[g].at # flow'[h].at
<1>1. \A g \in Flows : At(g, "write")' => g # f /\ flow'[g] = flow[g] /\ At(g, "write")
  BY DEF At, FilesInv, FilesTypeOK, TypeOK
<1> QED
  BY <1>1, InvInParts DEF StoreInv

-----------------------------------------------------------------------------
(* Backtests *)

LEMMA StartJobKeeps ==
  ASSUME FilesInv, NEW f \in Flows, StartJob(f), UNCHANGED dir
  PROVE  FilesInv'
<1>1. PICK cfg \in Configs :
        flow' = [flow EXCEPT ![f] =
          [NoFlow EXCEPT !.pc = "backtest", !.cfg = cfg, !.since = clock, !.before = LatestOf(cfg),
                         !.todo = UNION {VariantsOf(s) : s \in cfg}]]
  BY DEF StartJob
<1> DEFINE new == [NoFlow EXCEPT !.pc = "backtest", !.cfg = cfg, !.since = clock,
                         !.before = LatestOf(cfg), !.todo = UNION {VariantsOf(s) : s \in cfg}]
<1>2. FilesTypeOK /\ clock \in Nat /\ UNCHANGED <<clock, store, curves, died, dir>>
  BY FlowTypes DEF FilesInv, StartJob
<1>3. /\ new.pc = "backtest" /\ new.cfg = cfg /\ new.since = clock /\ new.wrote = {} /\ new.at = 0
      /\ new.latest = {} /\ new.before = LatestOf(cfg)
      /\ new.todo = UNION {VariantsOf(s) : s \in cfg}
  BY DEF NoFlow
<1>4. /\ cfg \subseteq Symbols /\ new.todo \subseteq Variants /\ new.before \subseteq Runs
      /\ \A v \in new.todo : SymbolOf[v] \in cfg
      /\ \A r \in new.before : SymbolOf[r.variant] \in cfg
  <2>1. cfg \subseteq Symbols
    BY BacktestStoreAssumption DEF Symbols, Variants
  <2>2. new.before \subseteq Runs /\ \A r \in new.before : SymbolOf[r.variant] \in cfg
    BY <1>2, <1>3 DEF LatestOf, LatestRuns, FilesTypeOK, TypeOK
  <2> QED
    BY <1>3, <2>1, <2>2 DEF VariantsOf
<1>5. \A q \in new.before : q \in Newest /\ q.at \in Nat
  BY <1>2, <1>3, <1>4, LatestIsNewest, InvInParts DEF LatestOf, StoreInv, FilesTypeOK, TypeOK, Runs
<1>6. FilesTypeOK' /\ flow'[f] = new /\ (\A g \in Flows \ {f} : flow'[g] = flow[g])
  <2>1. new \in FlowRecords
    <3>1. NoFlow \in FlowRecords
      BY DEF NoFlow, FlowRecords, Phases
    <3> QED
      BY <1>2, <1>3, <1>4, <3>1 DEF FlowRecords, Phases
  <2>2. jobs' \in 0 .. MaxJobs
    BY <1>2, BacktestStoreAssumption DEF StartJob, FilesTypeOK, TypeOK
  <2> HIDE DEF new
  <2>3. flow' = [flow EXCEPT ![f] = new]
    BY <1>1 DEF new
  <2> QED
    BY <1>2, <2>1, <2>2, <2>3 DEF FilesTypeOK, TypeOK, FlowRecords
<1> HIDE DEF new
<1>7. ~At(f, "write")' /\ flow' = [flow EXCEPT ![f] = flow'[f]]
  BY <1>1, <1>3, <1>6 DEF At, new
<1>8. StoreInv' /\ Overtaken
  BY <1>2, <1>6, <1>7, NobodyBegins, QuietStore
<1>9. FlowInv(f)'
  <2>1. UpToDate(f, Newest)'
    BY <1>2, <1>3, <1>5, <1>6 DEF UpToDate, Newest
  <2> QED
    BY <1>3, <1>4, <1>6, <2>1 DEF FlowInv, At, Reading
<1>10. DirInv(f)'
  BY <1>2, <1>3, <1>6, InvInParts DEF DirInv, At
<1> QED
  BY <1>2, <1>6, <1>8, <1>9, <1>10, OneMoves

LEMMA BeginWriteKeeps ==
  ASSUME FilesInv, NEW f \in Flows, BeginWrite(f), UNCHANGED dir
  PROVE  FilesInv'
<1>1. /\ At(f, "backtest") /\ UNCHANGED <<store, curves, jobs, died, dir>> /\ clock' = clock + 1
  BY DEF BeginWrite
<1>2. FilesTypeOK /\ clock \in Nat /\ clock + 1 \in Nat /\ clock' \in Nat /\ clock <= clock'
  BY <1>1, FlowTypes DEF FilesInv
<1> DEFINE x == [flow[f] EXCEPT !.pc = "write", !.at = clock + 1]
<1>3. FilesTypeOK' /\ flow'[f] = x /\ \A g \in Flows \ {f} : flow'[g] = flow[g]
  <2>1. x \in FlowRecords
    BY <1>2, FlowIsRecord DEF FlowRecords, Phases
  <2>2. flow' = [flow EXCEPT ![f] = x]
    BY DEF BeginWrite
  <2>3. died' \in Nat /\ store' \subseteq Runs /\ curves' \subseteq Nat /\ dir' \in [Flows -> Directory]
    BY <1>1, <1>2 DEF FilesTypeOK, TypeOK
  <2> QED
    BY <1>1, <1>2, <2>1, <2>2, <2>3, Replaced
<1>4. /\ flow'[f].pc = "write" /\ flow'[f].at = clock + 1
      /\ flow'[f].since = flow[f].since /\ flow'[f].wrote = flow[f].wrote
      /\ flow'[f].before = flow[f].before /\ flow'[f].todo = flow[f].todo
      /\ flow'[f].cfg = flow[f].cfg /\ flow'[f].latest = flow[f].latest
      /\ \A g \in Flows \ {f} : flow'[g] = flow[g]
  BY <1>2, <1>3, FlowIsRecord DEF FlowRecords
<1>5. \A g \in Flows : flow[g].at <= clock /\ flow[g].since <= clock /\ flow[g].at \in Nat
                         /\ flow[g].since \in Nat
  BY <1>2, FlowTypes, InvInParts DEF DirInv
<1>6. \A g, h \in Flows : At(g, "write")' /\ At(h, "write")' /\ g # h => flow'[g].at # flow'[h].at
  <2> SUFFICES ASSUME NEW g \in Flows, NEW h \in Flows, At(g, "write")', At(h, "write")', g # h
               PROVE  flow'[g].at # flow'[h].at
    OBVIOUS
  <2>1. CASE g = f \/ h = f
    BY <1>2, <1>4, <1>5, <2>1
  <2>2. CASE g # f /\ h # f
    BY <1>4, <2>2, InvInParts DEF StoreInv, At
  <2> QED
    BY <2>1, <2>2
<1>7. StoreInv' /\ Overtaken
  BY <1>1, <1>2, <1>6, QuietStore
<1>8. FlowInv(f)'
  <2>1. \A r \in store : r.at <= clock /\ r.at \in Nat
    BY <1>2, FlowTypes, InvInParts DEF StoreInv, Stamped
  <2>2. UpToDate(f, Newest)'
    BY <1>3, <1>4, <1>7, UpToDateStays DEF UpToDate
  <2>3. /\ 1 <= flow'[f].at /\ flow'[f].since < flow'[f].at
        /\ \A r \in store' : r.at # flow'[f].at
    BY <1>1, <1>2, <1>4, <1>5, <2>1
  <2> QED
    BY <1>4, <2>2, <2>3, InvInParts DEF FlowInv, At, Reading
<1>9. DirInv(f)'
  <2>1. flow'[f].since <= clock' /\ flow'[f].at <= clock'
    BY <1>1, <1>2, <1>4, <1>5
  <2> QED
    BY <1>1, <1>2, <1>4, <2>1, DirectoryWaits
<1> QED
  BY <1>1, <1>2, <1>3, <1>4, <1>7, <1>8, <1>9, OneMoves

\* Of finitely many runs one is the latest.
LEMMA LatestExists ==
  ASSUME FilesInv, NEW S \in SUBSET store, S # {}
  PROVE  \E x \in S : \A y \in S : y.at <= x.at
<1> DEFINE Less == OpToRel(<, Nat)
           T == {clock - r.at : r \in S}
<1>1. clock \in Nat /\ \A r \in S : r.at \in Nat /\ r.at <= clock
  BY FlowTypes DEF FilesInv, Stamped
<1>2. T # {} /\ T \subseteq Nat
  BY <1>1
<1>3. PICK n \in T : \A m \in T : ~ (<<m, n>> \in Less)
  <2> HIDE DEF T
  <2>1. IsWellFoundedOn(Less, Nat)
    BY NatLessThanWellFounded
  <2> HIDE DEF Less
  <2> QED
    BY <1>2, <2>1, WFMin
<1>4. \A m \in T : n <= m
  <2> HIDE DEF T
  <2> SUFFICES ASSUME NEW m \in T, m < n PROVE FALSE
    BY <1>2
  <2>1. <<m, n>> \in Less
    BY <1>2 DEF OpToRel
  <2> QED
    BY <1>3, <2>1
<1>5. PICK x \in S : n = clock - x.at
  OBVIOUS
<1>6. ASSUME NEW y \in S PROVE y.at <= x.at
  <2>1. n <= clock - y.at
    BY <1>4, <1>6
  <2> QED
    BY <1>1, <1>5, <2>1
<1> QED
  BY <1>6

LEMMA CommitKeepsStore ==
  ASSUME FilesInv, NEW f \in Flows, NEW v \in Variants,
         CommitWrite(f, v) \/ CommitUnacknowledged(f, v)
  PROVE  /\ Stamped' /\ CurvesMatchRuns' /\ Overtaken
         /\ \E r \in Newest' : r.variant = v /\ r.at > flow[f].since
<1> DEFINE new == [variant |-> v, at |-> flow[f].at]
<1>1. /\ At(f, "write") /\ UNCHANGED clock /\ store' = store \cup {new}
      /\ curves' = IF v \in Singles THEN curves \cup {flow[f].at} ELSE curves
  BY DEF CommitWrite, CommitUnacknowledged, Committed
<1>2. /\ clock \in Nat /\ flow[f].at \in Nat /\ flow[f].since \in Nat
      /\ \A r \in store : r.at \in Nat /\ r.variant \in Variants
      /\ store \subseteq Runs
  BY FlowTypes DEF FilesInv, FilesTypeOK, TypeOK
<1>3. /\ 1 <= flow[f].at /\ flow[f].since < flow[f].at /\ flow[f].at <= clock
      /\ \A r \in store : r.at # flow[f].at
  BY <1>1, InvInParts DEF FlowInv, DirInv
<1>4. /\ IsFiniteSet(store) /\ \A r \in store : 1 <= r.at /\ r.at <= clock
      /\ \A r, q \in store : r.at = q.at => r = q
  BY InvInParts DEF StoreInv, Stamped
<1>5. Stamped'
  <2>1. IsFiniteSet(store')
    BY <1>1, <1>4, FS_AddElement
  <2> QED
    BY <1>1, <1>2, <1>3, <1>4, <2>1 DEF Stamped
<1>6. CurvesMatchRuns'
  <2>1. curves = {r.at : r \in {q \in store : q.variant \in Singles}}
    BY DEF FilesInv, CurvesMatchRuns
  <2>2. {q \in store' : q.variant \in Singles} =
          IF v \in Singles THEN {q \in store : q.variant \in Singles} \cup {new}
          ELSE {q \in store : q.variant \in Singles}
    BY <1>1
  <2>3. curves' = {r.at : r \in {q \in store' : q.variant \in Singles}}
    <3>1. CASE v \in Singles
      <4>1. curves' = curves \cup {new.at}
        BY <1>1, <3>1
      <4>2. {q \in store' : q.variant \in Singles} = {q \in store : q.variant \in Singles} \cup {new}
        BY <2>2, <3>1
      <4> QED
        BY <2>1, <4>1, <4>2
    <3>2. CASE v \notin Singles
      BY <1>1, <2>1, <2>2, <3>2
    <3> QED
      BY <3>1, <3>2
  <2> QED
    BY <2>3 DEF CurvesMatchRuns
<1>7. ASSUME NEW r \in Newest
      PROVE  \E q \in Newest' : q.variant = r.variant /\ q.at >= r.at
  <2>1. r \in store /\ r.at \in Nat /\ \A q \in store : q.variant = r.variant => q.at <= r.at
    BY <1>2 DEF Newest
  <2>2. CASE r.variant = v /\ r.at < flow[f].at
    <3>1. new \in Newest'
      BY <1>1, <1>2, <2>1, <2>2 DEF Newest
    <3> QED
      BY <1>2, <2>1, <2>2, <3>1
  <2>3. CASE ~(r.variant = v /\ r.at < flow[f].at)
    <3>1. r \in Newest'
      BY <1>1, <1>2, <2>1, <2>3 DEF Newest
    <3> QED
      BY <1>2, <2>1, <2>3, <3>1
  <2> QED
    BY <2>2, <2>3
<1>8. Overtaken
  BY <1>7 DEF Overtaken
<1>9. \E r \in Newest' : r.variant = v /\ r.at > flow[f].since
  <2> DEFINE Later == {q \in store : q.variant = v /\ q.at > new.at}
  <2>1. CASE Later = {}
    <3>1. new \in Newest'
      BY <1>1, <1>2, <2>1 DEF Newest
    <3> QED
      BY <1>2, <1>3, <3>1
  <2>2. CASE Later # {}
    <3>1. PICK x \in Later : \A y \in Later : y.at <= x.at
      BY <2>2, LatestExists
    <3>2. x \in Newest'
      BY <1>1, <1>2, <3>1 DEF Newest
    <3> QED
      BY <1>2, <1>3, <3>1, <3>2
  <2> QED
    BY <2>1, <2>2
<1> QED
  BY <1>5, <1>6, <1>8, <1>9

LEMMA CommitWriteKeeps ==
  ASSUME FilesInv, NEW f \in Flows, NEW v \in Variants, UNCHANGED dir,
         CommitWrite(f, v) \/ CommitUnacknowledged(f, v)
  PROVE  FilesInv'
<1>1. /\ At(f, "write") /\ UNCHANGED <<clock, jobs, died, dir>>
      /\ store' = store \cup {[variant |-> v, at |-> flow[f].at]}
      /\ curves' = IF v \in Singles THEN curves \cup {flow[f].at} ELSE curves
      /\ v \in flow[f].todo
  BY DEF CommitWrite, CommitUnacknowledged, Committed, Turn
<1>2. FilesTypeOK /\ clock \in Nat /\ flow[f].at \in Nat /\ flow[f].since \in Nat
  BY FlowTypes DEF FilesInv
<1>0. PICK gone \in {{v}, VariantsOf(SymbolOf[v])} :
        flow' = [flow EXCEPT ![f].pc = "backtest", ![f].todo = @ \ gone, ![f].wrote = @ \cup {v},
                             ![f].at = 0]
  BY DEF CommitWrite, CommitUnacknowledged, Written
<1> DEFINE x == [flow[f] EXCEPT !.pc = "backtest", !.todo = @ \ gone, !.wrote = @ \cup {v}, !.at = 0]
<1>3. /\ FilesTypeOK' /\ flow'[f] = x /\ \A g \in Flows \ {f} : flow'[g] = flow[g]
      /\ flow' = [flow EXCEPT ![f] = flow'[f]]
  <2>1. x \in FlowRecords
    BY <1>2, FlowIsRecord DEF FlowRecords, Phases
  <2>2. flow' = [flow EXCEPT ![f] = x]
    BY <1>0
  <2>3. store' \subseteq Runs
    BY <1>1, <1>2 DEF FilesTypeOK, TypeOK, Runs
  <2>4. curves' \subseteq Nat
    BY <1>1, <1>2 DEF FilesTypeOK, TypeOK
  <2>5. died' \in Nat /\ dir' \in [Flows -> Directory]
    BY <1>1, <1>2 DEF FilesTypeOK, TypeOK
  <2> QED
    BY <1>1, <1>2, <2>1, <2>2, <2>3, <2>4, <2>5, Replaced
<1>4. /\ flow'[f].pc = "backtest" /\ flow'[f].at = 0 /\ flow'[f].since = flow[f].since
      /\ flow'[f].wrote = flow[f].wrote \cup {v} /\ flow'[f].todo \subseteq flow[f].todo
      /\ flow'[f].before = flow[f].before /\ flow'[f].cfg = flow[f].cfg
      /\ flow'[f].latest = flow[f].latest
  BY <1>2, <1>3, FlowIsRecord DEF FlowRecords
<1>5. ~At(f, "write")'
  BY <1>4 DEF At
<1>6. StoreInv' /\ Overtaken
  BY <1>3, <1>5, CommitKeepsStore, NobodyBegins DEF StoreInv
<1>7. FlowInv(f)'
  <2>1. \E r \in Newest' : r.variant = v /\ r.at > flow[f].since
    BY CommitKeepsStore
  <2>2. UpToDate(f, Newest)'
    BY <1>3, <1>4, <1>6, <2>1, UpToDateStays DEF UpToDate
  <2> QED
    BY <1>1, <1>4, <2>2, InvInParts DEF FlowInv, At, Reading
<1>8. DirInv(f)'
  <2>1. flow[f].since <= clock
    BY InvInParts DEF DirInv
  <2> QED
    BY <1>1, <1>2, <1>4, <2>1, DirectoryWaits
<1>9. \A r \in store' : r \in store \/ (At(f, "write") /\ r.at = flow[f].at)
  BY <1>1
<1> QED
  BY <1>1, <1>2, <1>3, <1>6, <1>7, <1>8, <1>9, OneMoves

\* A flow that only moves on before its export.
LEMMA WorkingOn ==
  ASSUME FilesInv, NEW f \in Flows, NEW x \in FlowRecords, flow' = [flow EXCEPT ![f] = x],
         x.pc \in {"backtest", "prune"}, x.todo \subseteq flow[f].todo, x.wrote = flow[f].wrote,
         x.cfg = flow[f].cfg, x.since = flow[f].since, x.before = flow[f].before,
         x.latest = flow[f].latest, x.at <= clock,
         UNCHANGED <<clock, store, curves, jobs>>, died' \in Nat,
         dir'[f] = dir[f], \A g \in Flows \ {f} : dir'[g] = dir[g],
         dir' \in [Flows -> Directory]
  PROVE  FilesInv'
<1>1. FilesTypeOK /\ clock \in Nat /\ clock' \in Nat /\ clock <= clock'
  BY FlowTypes DEF FilesInv
<1>2. /\ FilesTypeOK' /\ flow'[f] = x /\ \A g \in Flows \ {f} : flow'[g] = flow[g]
      /\ flow' = [flow EXCEPT ![f] = flow'[f]]
  <2>1. store' \subseteq Runs /\ curves' \subseteq Nat
    BY <1>1 DEF FilesTypeOK, TypeOK
  <2> QED
    BY <1>1, <2>1, Replaced
<1>3. ~At(f, "write")'
  BY <1>2 DEF At
<1>4. StoreInv' /\ Overtaken
  BY <1>1, <1>2, <1>3, NobodyBegins, QuietStore
<1>5. FlowInv(f)'
  <2>1. UpToDate(f, Newest)'
    BY <1>2, <1>4, UpToDateStays DEF UpToDate
  <2> QED
    BY <1>2, <1>3, <2>1, InvInParts DEF FlowInv, Reading
<1>6. DirInv(f)'
  <2>1. flow[f].since <= clock
    BY InvInParts DEF DirInv
  <2> QED
    BY <1>1, <1>2, <2>1, DirectoryWaits
<1> QED
  BY <1>1, <1>2, <1>4, <1>5, <1>6, OneMoves

LEMMA BacktestFailsKeeps ==
  ASSUME FilesInv, NEW f \in Flows, NEW v \in Variants, BacktestFails(f, v), UNCHANGED dir
  PROVE  FilesInv'
<1> DEFINE x == [flow[f] EXCEPT !.pc = "backtest", !.at = 0, !.todo = @ \ VariantsOf(SymbolOf[v])]
<1>1. FilesTypeOK /\ clock \in Nat /\ dir \in [Flows -> Directory] /\ died \in Nat
  BY FlowTypes DEF FilesInv, FilesTypeOK, TypeOK
<1>2. x \in FlowRecords
  BY <1>1, FlowIsRecord DEF FlowRecords, Phases
<1>3. flow' = [flow EXCEPT ![f] = x] /\ UNCHANGED <<clock, store, curves, jobs, died>>
  BY DEF BacktestFails
<1>4. /\ x.pc = "backtest" /\ x.wrote = flow[f].wrote /\ x.since = flow[f].since /\ x.at = 0
      /\ x.cfg = flow[f].cfg /\ x.before = flow[f].before /\ x.latest = flow[f].latest
      /\ x.todo \subseteq flow[f].todo
  BY <1>1, FlowIsRecord DEF FlowRecords
<1>5. x.at <= clock
  BY <1>1, <1>4
<1> HIDE DEF x
<1> QED
  BY <1>1, <1>2, <1>3, <1>4, <1>5, WorkingOn

LEMMA BacktestsDoneKeeps ==
  ASSUME FilesInv, NEW f \in Flows, BacktestsDone(f), UNCHANGED dir
  PROVE  FilesInv'
<1> DEFINE x == [flow[f] EXCEPT !.pc = "prune"]
<1>1. FilesTypeOK /\ clock \in Nat /\ dir \in [Flows -> Directory] /\ died \in Nat
  BY FlowTypes DEF FilesInv, FilesTypeOK, TypeOK
<1>2. x \in FlowRecords
  BY <1>1, FlowIsRecord DEF FlowRecords, Phases
<1>3. flow' = [flow EXCEPT ![f] = x] /\ UNCHANGED <<clock, store, curves, jobs, died>>
  BY DEF BacktestsDone
<1>4. /\ x.pc = "prune" /\ x.wrote = flow[f].wrote /\ x.since = flow[f].since /\ x.at = flow[f].at
      /\ x.cfg = flow[f].cfg /\ x.before = flow[f].before /\ x.latest = flow[f].latest
      /\ x.todo = flow[f].todo
  BY <1>1, FlowIsRecord DEF FlowRecords
<1>5. x.at <= clock
  BY <1>4, InvInParts DEF DirInv
<1> HIDE DEF x
<1> QED
  BY <1>1, <1>2, <1>3, <1>4, <1>5, WorkingOn

-----------------------------------------------------------------------------
(* Retention *)

LEMMA PruneKeepsStore ==
  ASSUME FilesInv, NEW f \in Flows, Prune(f)
  PROVE  Stamped' /\ CurvesMatchRuns' /\ Overtaken
<1>1. /\ clock' = clock + 1 /\ store' = store \ Superseded
      /\ curves' = curves \ {r.at : r \in Superseded}
  BY DEF Prune
<1>2. clock \in Nat /\ store \subseteq Runs /\ (\A r \in store : r.at \in Nat) /\ Stamped
  BY FlowTypes, InvInParts DEF FilesInv, FilesTypeOK, TypeOK, StoreInv
<1>3. Stamped'
  <2>1. IsFiniteSet(store')
    BY <1>1, <1>2, FS_Subset DEF Stamped
  <2> QED
    BY <1>1, <1>2, <2>1 DEF Stamped
<1>4. Newest \subseteq Newest'
  <2>1. ASSUME NEW r \in Newest PROVE r \in store'
    <3>1. r \in store /\ Recency(r) = 1
      BY <1>2, <2>1, LatestIsNewest DEF LatestRuns
    <3>2. ~(Recency(r) > Keep)
      BY <3>1, BacktestStoreAssumption
    <3> QED
      BY <1>1, <3>1, <3>2 DEF Superseded
  <2> QED
    BY <1>1, <2>1 DEF Newest
<1>5. Overtaken
  <2>1. \A r \in Newest : r.at \in Nat
    BY <1>2 DEF Newest
  <2> QED
    BY <1>4, <2>1 DEF Overtaken
<1>6. CurvesMatchRuns'
  <2>1. curves = {r.at : r \in {q \in store : q.variant \in Singles}}
    BY DEF FilesInv, CurvesMatchRuns
  <2>2. Superseded \subseteq store /\ \A r, q \in store : r.at = q.at => r = q
    BY <1>2 DEF Superseded, Stamped
  <2>3. curves' = {r.at : r \in {q \in store' : q.variant \in Singles}}
    BY <1>1, <2>1, <2>2
  <2> QED
    BY <2>3 DEF CurvesMatchRuns
<1> QED
  BY <1>3, <1>5, <1>6

LEMMA PruneKeeps ==
  ASSUME FilesInv, NEW f \in Flows, Prune(f), UNCHANGED dir
  PROVE  FilesInv'
<1> DEFINE x == [flow[f] EXCEPT !.pc = "export", !.at = clock + 1]
<1>1. /\ clock' = clock + 1 /\ store' \subseteq store /\ curves' \subseteq curves
      /\ UNCHANGED <<jobs, dir>> /\ died' = 0
  BY DEF Prune
<1>2. /\ FilesTypeOK /\ clock \in Nat /\ clock + 1 \in Nat /\ clock' \in Nat /\ clock <= clock'
      /\ died' \in Nat /\ dir' \in [Flows -> Directory]
      /\ store' \subseteq Runs /\ curves' \subseteq Nat
  BY <1>1, FlowTypes DEF FilesInv, FilesTypeOK, TypeOK
<1>3. x \in FlowRecords
  BY <1>2, FlowIsRecord DEF FlowRecords, Phases
<1>4. flow' = [flow EXCEPT ![f] = x]
  BY DEF Prune
<1>5. /\ x.pc = "export" /\ x.wrote = flow[f].wrote /\ x.since = flow[f].since /\ x.at = clock + 1
      /\ x.cfg = flow[f].cfg /\ x.before = flow[f].before /\ x.latest = flow[f].latest
      /\ x.todo = flow[f].todo
  BY <1>2, FlowIsRecord DEF FlowRecords
<1> HIDE DEF x
<1>6. /\ FilesTypeOK' /\ flow'[f] = x /\ \A g \in Flows \ {f} : flow'[g] = flow[g]
      /\ flow' = [flow EXCEPT ![f] = flow'[f]]
  BY <1>1, <1>2, <1>3, <1>4, Replaced
<1>7. ~At(f, "write")' /\ ~At(f, "files")' /\ ~At(f, "index")'
  BY <1>5, <1>6 DEF At
<1>8. StoreInv' /\ Overtaken
  BY <1>6, <1>7, NobodyBegins, PruneKeepsStore DEF StoreInv
<1>9. FlowInv(f)'
  <2>1. UpToDate(f, Newest)'
    BY <1>5, <1>6, <1>8, UpToDateStays DEF UpToDate
  <2> QED
    BY <1>5, <1>6, <1>7, <2>1, InvInParts DEF FlowInv, Reading
<1>10. DirInv(f)'
  <2>1. DirInv(f) /\ dir[f].index \in Int /\ (\A s \in Symbols : dir[f].files[s] \in Int)
        /\ flow[f].since \in Nat
    BY <1>2, FlowTypes, InvInParts
  <2>2. dir[f].index < clock + 1 /\ \A s \in Symbols : dir[f].files[s] < clock + 1
    BY <1>2, <2>1 DEF DirInv
  <2>3. flow[f].since <= clock + 1
    BY <1>2, <2>1 DEF DirInv
  <2> QED
    BY <1>1, <1>2, <1>5, <1>6, <1>7, <2>1, <2>2, <2>3 DEF DirInv
<1>11. \A r \in store' : r \in store
  BY <1>1
<1> QED
  BY <1>1, <1>2, <1>6, <1>8, <1>9, <1>10, <1>11, OneMoves

-----------------------------------------------------------------------------
(* The export *)

LEMMA ReadRunsKeeps ==
  ASSUME FilesInv, NEW f \in Flows, ReadRuns(f), UNCHANGED dir
  PROVE  FilesInv'
<1> DEFINE found == LatestOf(flow[f].cfg)
           x == [flow[f] EXCEPT !.pc = "curves", !.latest = found]
<1>1. At(f, "export") /\ UNCHANGED <<clock, store, curves, jobs, died, dir>>
  BY DEF ReadRuns
<1>2. /\ FilesTypeOK /\ clock \in Nat /\ died' \in Nat /\ dir' \in [Flows -> Directory]
      /\ store \subseteq Runs /\ store' \subseteq Runs /\ curves' \subseteq Nat
  BY <1>1, FlowTypes DEF FilesInv, FilesTypeOK, TypeOK
<1>3. LatestRuns = Newest /\ Newest \subseteq Runs
  BY <1>2, LatestIsNewest, InvInParts DEF StoreInv, Newest
<1>4. x \in FlowRecords
  <2>1. found \subseteq Runs
    BY <1>3 DEF LatestOf
  <2> QED
    BY <1>2, <2>1, FlowIsRecord DEF FlowRecords, Phases
<1>5. flow' = [flow EXCEPT ![f] = x]
  BY DEF ReadRuns
<1>6. /\ x.pc = "curves" /\ x.wrote = flow[f].wrote /\ x.since = flow[f].since
      /\ x.at = flow[f].at /\ x.cfg = flow[f].cfg /\ x.latest = found
      /\ x.before = flow[f].before /\ x.todo = flow[f].todo
  BY <1>2, FlowIsRecord DEF FlowRecords
<1> HIDE DEF x
<1>7. /\ FilesTypeOK' /\ flow'[f] = x /\ \A g \in Flows \ {f} : flow'[g] = flow[g]
      /\ flow' = [flow EXCEPT ![f] = flow'[f]]
  BY <1>1, <1>2, <1>4, <1>5, Replaced
<1>8. ~At(f, "write")' /\ ~At(f, "files")' /\ ~At(f, "index")'
  BY <1>6, <1>7 DEF At
<1>9. StoreInv' /\ Overtaken
  BY <1>1, <1>2, <1>7, <1>8, NobodyBegins, QuietStore
<1>10. FlowInv(f)'
  <2>1. UpToDate(f, Newest)'
    BY <1>6, <1>7, <1>9, UpToDateStays DEF UpToDate
  <2>2. \A r : r \in found <=> r \in Newest /\ SymbolOf[r.variant] \in flow[f].cfg
    BY <1>3 DEF LatestOf
  <2>3. FlowInv(f)
    BY InvInParts
  <2>4. UpToDate(f, found)
    BY <2>2, <2>3 DEF FlowInv, UpToDate
  <2>5. UpToDate(f, flow[f].latest)'
    BY <1>6, <1>7, <2>4 DEF UpToDate
  <2> QED
    BY <1>6, <1>7, <1>8, <2>1, <2>2, <2>3, <2>5 DEF FlowInv
<1>11. DirInv(f)'
  <2>1. DirInv(f) /\ flow[f].pc = "export"
    BY <1>1, InvInParts DEF At
  <2> QED
    BY <1>1, <1>6, <1>7, <1>8, <2>1 DEF DirInv
<1>12. clock <= clock' /\ \A r \in store' : r \in store
  BY <1>1, <1>2
<1> QED
  BY <1>1, <1>2, <1>7, <1>9, <1>10, <1>11, <1>12, OneMoves

\* A flow that works on its directory, or stops.
LEMMA ExportsOn ==
  ASSUME FilesInv, NEW f \in Flows, NEW x \in FlowRecords, flow' = [flow EXCEPT ![f] = x],
         \/ x = NoFlow
         \/ /\ flow[f].pc \in Reading /\ x.pc \in Reading /\ x.wrote = flow[f].wrote
            /\ x.since = flow[f].since /\ x.cfg = flow[f].cfg /\ x.latest = flow[f].latest
            /\ x.before = flow[f].before /\ x.todo = flow[f].todo,
         UNCHANGED <<clock, store, curves, jobs>>, died' \in Nat,
         \A g \in Flows \ {f} : dir'[g] = dir[g], dir' \in [Flows -> Directory],
         flow'[f] = x => DirInv(f)'
  PROVE  FilesInv'
<1>1. FilesTypeOK /\ clock \in Nat /\ clock' \in Nat /\ clock <= clock'
  BY FlowTypes DEF FilesInv
<1>2. /\ FilesTypeOK' /\ flow'[f] = x /\ \A g \in Flows \ {f} : flow'[g] = flow[g]
      /\ flow' = [flow EXCEPT ![f] = flow'[f]]
  <2>1. store' \subseteq Runs /\ curves' \subseteq Nat
    BY <1>1 DEF FilesTypeOK, TypeOK
  <2> QED
    BY <1>1, <2>1, Replaced
<1>3. ~At(f, "write")'
  BY <1>2 DEF At, Reading, NoFlow
<1>4. StoreInv' /\ Overtaken
  BY <1>1, <1>2, <1>3, NobodyBegins, QuietStore
<1>5. FlowInv(f)'
  <2>1. CASE x = NoFlow
    BY <1>2, <1>3, <2>1 DEF FlowInv, Reading, NoFlow, UpToDate
  <2>2. CASE /\ flow[f].pc \in Reading /\ x.pc \in Reading /\ x.wrote = flow[f].wrote
             /\ x.since = flow[f].since /\ x.cfg = flow[f].cfg /\ x.latest = flow[f].latest
             /\ x.before = flow[f].before /\ x.todo = flow[f].todo
    <3>1. UpToDate(f, Newest)'
      BY <1>2, <1>4, <2>2, UpToDateStays DEF UpToDate
    <3>2. FlowInv(f)
      BY InvInParts
    <3>3. UpToDate(f, flow[f].latest)'
      BY <1>2, <2>2, <3>2 DEF FlowInv, UpToDate
    <3> QED
      BY <1>2, <1>3, <2>2, <3>1, <3>2, <3>3 DEF FlowInv
  <2> QED
    BY <2>1, <2>2
<1> QED
  BY <1>1, <1>2, <1>4, <1>5, OneMoves

LEMMA ReadCurvesKeeps ==
  ASSUME FilesInv, NEW f \in Flows, ReadCurves(f), UNCHANGED dir
  PROVE  FilesInv'
<1> DEFINE x == [flow[f] EXCEPT !.pc = "files"]
<1>1. At(f, "curves") /\ UNCHANGED <<clock, store, curves, jobs, died, dir>>
  BY DEF ReadCurves
<1>2. FilesTypeOK /\ died' \in Nat /\ dir' \in [Flows -> Directory]
  BY <1>1 DEF FilesInv, FilesTypeOK, TypeOK
<1>3. x \in FlowRecords
  BY <1>2, FlowIsRecord DEF FlowRecords, Phases
<1>4. flow' = [flow EXCEPT ![f] = x]
  BY DEF ReadCurves
<1>5. /\ x.pc = "files" /\ x.wrote = flow[f].wrote /\ x.since = flow[f].since
      /\ x.at = flow[f].at /\ x.cfg = flow[f].cfg /\ x.latest = flow[f].latest
      /\ x.before = flow[f].before /\ x.todo = flow[f].todo
  BY <1>2, FlowIsRecord DEF FlowRecords
<1> HIDE DEF x
<1>6. ASSUME flow'[f] = x PROVE DirInv(f)'
  <2>1. DirInv(f) /\ flow[f].pc = "curves"
    BY <1>1, InvInParts DEF At
  <2>2. flow[f].at \in Nat /\ \A s \in Symbols : dir[f].files[s] \in Int
    BY <1>2, FlowTypes
  <2>3. dir[f].index < flow[f].at /\ \A s \in Symbols : dir[f].files[s] <= flow[f].at
    BY <2>1, <2>2 DEF DirInv
  <2>4. ~At(f, "index")' /\ flow'[f].pc \notin {"export", "curves"}
    BY <1>5, <1>6 DEF At
  <2> QED
    BY <1>1, <1>5, <1>6, <2>1, <2>3, <2>4 DEF DirInv
<1>7. flow[f].pc \in Reading /\ x.pc \in Reading
  BY <1>1, <1>5 DEF At, Reading
<1> QED
  BY <1>1, <1>2, <1>3, <1>4, <1>5, <1>6, <1>7, ExportsOn

-----------------------------------------------------------------------------
(* The files *)

LEMMA DirTypes ==
  ASSUME FilesTypeOK, NEW f \in Flows
  PROVE  /\ dir \in [Flows -> Directory] /\ dir[f] \in Directory
         /\ died \in Nat /\ flow[f].at \in Stamp /\ flow[f].cfg \subseteq Symbols
         /\ Absent \in Stamp /\ Torn \in Stamp
BY DEF FilesTypeOK, TypeOK, Stamp, Absent, Torn

LEMMA WriteFileKeeps ==
  ASSUME FilesInv, NEW f \in Flows, NEW s \in Symbols, WriteFile(f, s)
  PROVE  FilesInv'
<1> DEFINE d == [dir[f] EXCEPT !.files = [@ EXCEPT ![s] = flow[f].at], !.dirty = TRUE]
<1>1. /\ At(f, "files") /\ UNCHANGED <<clock, store, curves, flow, jobs, died>>
      /\ dir' = [dir EXCEPT ![f] = d]
  BY DEF WriteFile, vars
<1>2. FilesTypeOK /\ died' \in Nat /\ dir[f] \in Directory /\ flow[f].at \in Stamp
  BY <1>1, DirTypes DEF FilesInv
<1>3. d \in Directory /\ dir' \in [Flows -> Directory]
  <2>1. d \in Directory
    BY <1>2 DEF Directory
  <2> QED
    BY <1>1, <1>2, <2>1, DirTypes
<1>4. dir'[f] = d /\ \A g \in Flows \ {f} : dir'[g] = dir[g]
  BY <1>1, <1>2, DirTypes
<1>5. /\ d.index = dir[f].index /\ d.dirty = TRUE
      /\ \A u \in Symbols : d.files[u] = IF u = s THEN flow[f].at ELSE dir[f].files[u]
  BY <1>2 DEF Directory
<1> HIDE DEF d
<1>6. DirInv(f)'
  <2>1. /\ DirInv(f) /\ flow[f].pc = "files" /\ flow[f].at \in Nat /\ clock \in Nat
        /\ dir[f].index \in Int /\ \A u \in Symbols : dir[f].files[u] \in Int
    BY <1>1, <1>2, InvInParts, FlowTypes DEF At
  <2>2. /\ dir[f].index < flow[f].at /\ flow[f].at <= clock
        /\ \A u \in Symbols : dir[f].files[u] <= flow[f].at /\ dir[f].files[u] <= clock
    BY <2>1 DEF DirInv, At
  <2>3. ~At(f, "index")' /\ flow'[f] = flow[f] /\ flow'[f].pc \notin {"export", "curves"}
    BY <1>1, <2>1 DEF At
  <2>4. \A u \in Symbols : d.files[u] <= flow[f].at /\ d.files[u] <= clock
    BY <1>5, <2>1, <2>2
  <2>5. \A u \in Symbols : d.files[u] \in {Absent, Torn} \/ d.files[u] >= d.index
    BY <1>5, <2>1, <2>2 DEF DirInv
  <2> QED
    BY <1>1, <1>4, <1>5, <2>1, <2>2, <2>3, <2>4, <2>5 DEF DirInv
<1>7. flow' = [flow EXCEPT ![f] = flow[f]] /\ flow[f] \in FlowRecords /\ flow[f].pc \in Reading
  BY <1>1, <1>2, FlowIsRecord DEF At, Reading
<1> QED
  BY <1>1, <1>2, <1>3, <1>4, <1>6, <1>7, ExportsOn

LEMMA PruneStaleKeeps ==
  ASSUME FilesInv, NEW f \in Flows, PruneStale(f)
  PROVE  FilesInv'
<1> DEFINE x == [flow[f] EXCEPT !.pc = "index"]
           d == [dir[f] EXCEPT !.dirty = TRUE,
                   !.files = [s \in Symbols |-> IF s \in Shown(f) THEN dir[f].files[s] ELSE Absent]]
<1>1. /\ At(f, "files") /\ Unfiled(f) = {} /\ UNCHANGED <<clock, store, curves, jobs, died>>
      /\ dir' = [dir EXCEPT ![f] = d] /\ flow' = [flow EXCEPT ![f] = x]
  BY DEF PruneStale, Filed
<1>2. FilesTypeOK /\ died' \in Nat /\ dir[f] \in Directory
  BY <1>1, DirTypes DEF FilesInv
<1>3. x \in FlowRecords
  BY <1>2, FlowIsRecord DEF FlowRecords, Phases
<1>4. /\ x.pc = "index" /\ x.wrote = flow[f].wrote /\ x.since = flow[f].since
      /\ x.at = flow[f].at /\ x.cfg = flow[f].cfg /\ x.latest = flow[f].latest
      /\ x.before = flow[f].before /\ x.todo = flow[f].todo
  BY <1>2, FlowIsRecord DEF FlowRecords
<1>5. d \in Directory /\ dir' \in [Flows -> Directory]
  <2>1. d \in Directory
    BY <1>2, DirTypes DEF Directory
  <2> QED
    BY <1>1, <1>2, <2>1, DirTypes
<1>6. dir'[f] = d /\ \A g \in Flows \ {f} : dir'[g] = dir[g]
  BY <1>1, <1>2, DirTypes
<1>7. \A s \in Shown(f) : s \in Symbols /\ dir[f].files[s] = flow[f].at
  <2>1. \A s \in Shown(f) : s \in Symbols
    BY <1>2, FlowTypes DEF Shown, Symbols, Runs
  <2> QED
    BY <1>1, <2>1 DEF Unfiled
<1>8. /\ d.index = dir[f].index /\ d.dirty = TRUE
      /\ \A s \in Symbols : d.files[s] = IF s \in Shown(f) THEN flow[f].at ELSE Absent
  BY <1>2, <1>7 DEF Directory
<1> HIDE DEF d, x
<1>9. ASSUME flow'[f] = x PROVE DirInv(f)'
  <2>1. /\ DirInv(f) /\ flow[f].pc = "files" /\ flow[f].at \in Nat /\ clock \in Nat
        /\ dir[f].index \in Int
    BY <1>1, <1>2, InvInParts, FlowTypes DEF At
  <2>2. dir[f].index < flow[f].at /\ flow[f].at <= clock
    BY <2>1 DEF DirInv, At
  <2>3. ~At(f, "files")' /\ flow'[f].pc \notin {"export", "curves"} /\ Shown(f)' = Shown(f)
    BY <1>4, <1>9 DEF At, Shown
  <2>4. \A s \in Symbols : d.files[s] <= clock
    BY <1>8, <2>1, <2>2 DEF Absent
  <2>5. \A s \in Symbols : d.files[s] \in {Absent, Torn} \/ d.files[s] >= d.index
    BY <1>8, <2>1, <2>2
  <2> QED
    BY <1>1, <1>4, <1>6, <1>8, <1>9, <2>1, <2>2, <2>3, <2>4, <2>5 DEF DirInv
<1>10. flow[f].pc \in Reading /\ x.pc \in Reading
  BY <1>1, <1>4 DEF At, Reading
<1> QED
  BY <1>1, <1>2, <1>3, <1>4, <1>5, <1>6, <1>9, <1>10, ExportsOn

LEMMA NoFlowIsRecord == NoFlow \in FlowRecords /\ NoFlow.pc = "off" /\ NoFlow.wrote = {}
                          /\ NoFlow.since = 0 /\ NoFlow.at = 0
BY DEF NoFlow, FlowRecords, Phases

LEMMA WriteIndexKeeps ==
  ASSUME FilesInv, NEW f \in Flows, WriteIndex(f)
  PROVE  FilesInv'
<1> DEFINE d == [dir[f] EXCEPT !.index = flow[f].at, !.shown = Shown(f), !.dirty = FALSE]
<1>1. /\ At(f, "index") /\ UNCHANGED <<clock, store, curves, jobs, died>>
      /\ dir' = [dir EXCEPT ![f] = d] /\ flow' = [flow EXCEPT ![f] = NoFlow]
  BY DEF WriteIndex, Exported
<1>2. FilesTypeOK /\ died' \in Nat /\ dir[f] \in Directory
  BY <1>1, DirTypes DEF FilesInv
<1>3. d \in Directory /\ dir' \in [Flows -> Directory]
  <2>1. Shown(f) \subseteq Symbols
    BY <1>2, FlowTypes DEF Shown, Symbols, Runs
  <2>2. d \in Directory
    BY <1>2, <2>1, DirTypes DEF Directory
  <2> QED
    BY <1>1, <1>2, <2>2, DirTypes
<1>4. dir'[f] = d /\ \A g \in Flows \ {f} : dir'[g] = dir[g]
  BY <1>1, <1>2, DirTypes
<1>5. d.index = flow[f].at /\ d.shown = Shown(f) /\ d.files = dir[f].files
  BY <1>2 DEF Directory
<1> HIDE DEF d
<1>6. ASSUME flow'[f] = NoFlow PROVE DirInv(f)'
  <2>1. DirInv(f) /\ FlowInv(f) /\ flow[f].pc = "index" /\ flow[f].at \in Nat /\ clock \in Nat
    BY <1>1, <1>2, InvInParts, FlowTypes DEF At
  <2>3. \A s \in Symbols : d.files[s] = IF s \in d.shown THEN d.index ELSE Absent
    BY <1>1, <1>5, <2>1 DEF DirInv
  <2>4. d.index <= clock /\ \A s \in Symbols : d.files[s] <= clock
    BY <1>5, <2>1, <2>3 DEF DirInv, Absent
  <2>5. \A s \in Symbols : d.files[s] \in {Absent, Torn} \/ d.files[s] >= d.index
    BY <1>5, <2>1, <2>3
  <2>6. ~At(f, "files")' /\ ~At(f, "index")' /\ flow'[f].pc \notin {"export", "curves"}
    BY <1>6, NoFlowIsRecord DEF At
  <2>7. flow'[f].since <= clock /\ flow'[f].at <= clock
    BY <1>6, <2>1, NoFlowIsRecord
  <2> QED
    BY <1>1, <1>4, <2>3, <2>4, <2>5, <2>6, <2>7 DEF DirInv
<1> QED
  BY <1>1, <1>2, <1>3, <1>4, <1>6, NoFlowIsRecord, ExportsOn

\* A file that is cut off does not speak of anything any more.
LEMMA DieKeeps ==
  ASSUME FilesInv, NEW f \in Flows, Die(f)
  PROVE  FilesInv'
<1>1. UNCHANGED <<clock, store, curves, jobs>> /\ flow' = [flow EXCEPT ![f] = NoFlow]
  BY DEF Die, Crash
<1>2. FilesTypeOK /\ dir[f] \in Directory /\ dir \in [Flows -> Directory] /\ died \in Nat
  BY DirTypes DEF FilesInv
<1>3. died' \in Nat
  BY <1>2 DEF Die, Crash
<1>4. /\ DirInv(f) /\ clock \in Nat /\ flow[f].at \in Nat
      /\ dir[f].index \in Int /\ \A u \in Symbols : dir[f].files[u] \in Int
  BY <1>2, InvInParts, FlowTypes
<1>5. ASSUME NEW d \in Directory, dir' = [dir EXCEPT ![f] = d],
             d.index \in {dir[f].index, Torn}, \A u \in Symbols : d.files[u] \in {dir[f].files[u], Torn},
             d.dirty \/ d = dir[f]
      PROVE  FilesInv'
  <2>1. dir' \in [Flows -> Directory] /\ dir'[f] = d /\ \A g \in Flows \ {f} : dir'[g] = dir[g]
    BY <1>2, <1>5
  <2>2. ASSUME flow'[f] = NoFlow PROVE DirInv(f)'
    <3>1. d.index <= clock /\ \A u \in Symbols : d.files[u] <= clock
      BY <1>4, <1>5 DEF DirInv, Torn
    <3>2. \A u \in Symbols : d.files[u] \in {Absent, Torn} \/ d.files[u] >= d.index
      <4>1. CASE d.index = dir[f].index
        BY <1>4, <1>5, <4>1 DEF DirInv
      <4>2. CASE d.index = Torn
        <5>1. \A u \in Symbols : dir[f].files[u] \in {Absent, Torn} \/ dir[f].files[u] >= Torn
          BY <1>2 DEF Directory, Stamp, Torn, Absent
        <5> QED
          BY <1>5, <4>2, <5>1
      <4> QED
        BY <1>5, <4>1, <4>2
    <3>3. ~d.dirty => \A u \in Symbols : d.files[u] = IF u \in d.shown THEN d.index ELSE Absent
      BY <1>4, <1>5 DEF DirInv
    <3>4. ~At(f, "files")' /\ ~At(f, "index")' /\ flow'[f].pc \notin {"export", "curves"}
      BY <2>2, NoFlowIsRecord DEF At
    <3>5. flow'[f].since <= clock /\ flow'[f].at <= clock
      BY <1>4, <2>2, NoFlowIsRecord
    <3> QED
      BY <1>1, <2>1, <3>1, <3>2, <3>3, <3>4, <3>5 DEF DirInv
  <2> QED
    BY <1>1, <1>3, <2>1, <2>2, NoFlowIsRecord, ExportsOn
<1>6. CASE UNCHANGED dir
  <2>1. dir' = [dir EXCEPT ![f] = dir[f]]
    BY <1>2, <1>6
  <2> QED
    BY <1>2, <1>5, <2>1
<1>7. CASE \E s \in Unfiled(f) : dir' = [dir EXCEPT ![f].files[s] = Torn, ![f].dirty = TRUE]
  <2>1. PICK s \in Unfiled(f) : dir' = [dir EXCEPT ![f].files[s] = Torn, ![f].dirty = TRUE]
    BY <1>7
  <2>5. s \in Symbols
    BY <1>2, FlowTypes DEF Unfiled, Shown, Symbols, Runs
  <2> DEFINE d == [dir[f] EXCEPT !.files = [@ EXCEPT ![s] = Torn], !.dirty = TRUE]
  <2>2. d \in Directory
    BY <1>2, DirTypes DEF Directory
  <2>3. d.index = dir[f].index /\ d.dirty /\ \A u \in Symbols : d.files[u] \in {dir[f].files[u], Torn}
    BY <1>2 DEF Directory
  <2>4. dir' = [dir EXCEPT ![f] = d]
    BY <2>1
  <2> HIDE DEF d
  <2> QED
    BY <1>5, <2>2, <2>3, <2>4
<1>8. CASE At(f, "index") /\ dir' = [dir EXCEPT ![f].index = Torn]
  <2> DEFINE d == [dir[f] EXCEPT !.index = Torn]
  <2>1. d \in Directory
    BY <1>2, DirTypes DEF Directory
  <2>2. d.index = Torn /\ d.dirty = dir[f].dirty /\ d.files = dir[f].files
    BY <1>2 DEF Directory
  <2>3. dir[f].dirty
    BY <1>4, <1>8 DEF DirInv
  <2>4. dir' = [dir EXCEPT ![f] = d]
    BY <1>8
  <2> HIDE DEF d
  <2> QED
    BY <1>5, <2>1, <2>2, <2>3, <2>4
<1> QED
  BY <1>6, <1>7, <1>8 DEF Die

-----------------------------------------------------------------------------

LEMMA StepKeeps == FilesInv /\ [FilesNext]_fileVars => FilesInv'
<1> SUFFICES ASSUME FilesInv, [FilesNext]_fileVars PROVE FilesInv'
  OBVIOUS
<1>1. ASSUME NEW f \in Flows, Work(f), UNCHANGED dir PROVE FilesInv'
  BY <1>1, StartJobKeeps, BeginWriteKeeps, BacktestsDoneKeeps, CommitWriteKeeps, BacktestFailsKeeps,
     PruneKeeps, ReadRunsKeeps, ReadCurvesKeeps DEF Work
<1>2. ASSUME NEW f \in Flows, NEW s \in Symbols, WriteFile(f, s) PROVE FilesInv'
  BY <1>2, WriteFileKeeps
<1>3. ASSUME NEW f \in Flows, PruneStale(f) \/ WriteIndex(f) \/ Die(f) PROVE FilesInv'
  BY <1>3, PruneStaleKeeps, WriteIndexKeeps, DieKeeps
<1>4. CASE UNCHANGED fileVars
  <2>1. UNCHANGED <<clock, store, curves, flow, jobs, died, dir>>
    BY <1>4 DEF fileVars, vars
  <2> QED
    BY <2>1 DEF FilesInv, FilesTypeOK, TypeOK, Stamped, Apart, Configured, Represented, Placed,
                Newest, At, Shown, UpToDate, CurvesMatchRuns, ExportIsThisRuns, DirectoryIsWhole
<1> QED
  BY <1>1, <1>2, <1>3, <1>4 DEF FilesNext

\* The invariant of the store, the flows and their directories.
THEOREM StoreInvariance == FilesSpec => []FilesInv
BY InitFiles, StepKeeps, PTL DEF FilesSpec

\* A run and its curve come and go together.
THEOREM CurvesMatch == FilesSpec => []CurvesMatchRuns
<1>1. FilesInv => CurvesMatchRuns
  BY DEF FilesInv
<1> QED
  BY <1>1, StoreInvariance, PTL

\* A job exports what it has backtested and what was there when it began, neither with an
\* older run, whatever other flows write and prune before it reads.
THEOREM ExportsItsRuns == FilesSpec => []ExportIsThisRuns
<1>1. FilesInv => ExportIsThisRuns
  BY DEF FilesInv
<1> QED
  BY <1>1, StoreInvariance, PTL

\* A finished export leaves a file of its own moment for every asset it has numbers for, and
\* no other: neither of a dropped asset nor of one that is still pending.
THEOREM DirectoriesAreWhole == FilesSpec => []DirectoryIsWhole
<1>1. FilesInv => DirectoryIsWhole
  BY DEF FilesInv
<1> QED
  BY <1>1, StoreInvariance, PTL

\* Neither pruning nor a late commit takes a variant's newest run away.
THEOREM NewestStays == FilesSpec => NewestIsKept
<1>1. FilesInv /\ FilesInv' /\ [FilesNext]_fileVars =>
        [\A r \in LatestRuns : \E q \in LatestRuns' : q.variant = r.variant /\ q.at >= r.at]_store
  <2> SUFFICES ASSUME FilesInv, FilesInv', [FilesNext]_fileVars, store' # store
               PROVE  \A r \in LatestRuns : \E q \in LatestRuns' : q.variant = r.variant /\ q.at >= r.at
    OBVIOUS
  <2>1. LatestRuns = Newest /\ LatestRuns' = Newest'
    BY LatestIsNewest DEF FilesInv, FilesTypeOK, TypeOK
  <2>2. PICK f \in Flows : Work(f)
    BY DEF FilesNext, fileVars, vars, WriteFile, PruneStale, Filed, WriteIndex, Exported, Die, Crash
  <2>3. (\E v \in Variants : CommitWrite(f, v) \/ CommitUnacknowledged(f, v)) \/ Prune(f)
    BY <2>2 DEF Work, StartJob, BeginWrite, BacktestsDone, BacktestFails, ReadRuns, ReadCurves
  <2>4. Overtaken
    BY <2>3, CommitKeepsStore, PruneKeepsStore
  <2> QED
    BY <2>1, <2>4 DEF Overtaken
<1> QED
  BY <1>1, StoreInvariance, PTL DEF FilesSpec, NewestIsKept

-----------------------------------------------------------------------------
(* The bound *)

Waiting(v) == {f \in Flows : Unpruned(f, v)}

LEMMA Finite ==
  ASSUME FilesInv, NEW v \in Variants
  PROVE  /\ IsFiniteSet(RunsOf(v)) /\ Cardinality(RunsOf(v)) \in Nat
         /\ IsFiniteSet(Waiting(v)) /\ Cardinality(Waiting(v)) \in Nat
         /\ died \in Nat /\ Keep \in Nat
<1>1. IsFiniteSet(RunsOf(v))
  BY FS_Subset DEF FilesInv, Stamped, RunsOf
<1>2. IsFiniteSet(Waiting(v))
  BY FS_Subset, BacktestStoreAssumption DEF Waiting
<1> QED
  BY <1>1, <1>2, FS_CardinalityType, BacktestStoreAssumption DEF FilesInv, FilesTypeOK, TypeOK

\* A step after which the same flows have yet to prune the same runs.
LEMMA NothingWritten ==
  ASSUME BoundInv, NEW f \in Flows, UNCHANGED <<store, died>>,
         \A g \in Flows \ {f} : flow'[g] = flow[g],
         \A v \in Variants : Unpruned(f, v)' <=> Unpruned(f, v),
         flow'[f].wrote \cap flow'[f].todo = {}
  PROVE  BoundInv'
<1>1. \A v \in Variants : {g \in Flows : Unpruned(g, v)}' = {g \in Flows : Unpruned(g, v)}
  <2> SUFFICES ASSUME NEW v \in Variants, NEW g \in Flows PROVE Unpruned(g, v)' <=> Unpruned(g, v)
    OBVIOUS
  <2> QED
    BY DEF Unpruned
<1>2. \A v \in Variants : RunsOf(v)' = RunsOf(v)
  BY DEF RunsOf
<1>3. StoreIsBounded'
  BY <1>1, <1>2 DEF BoundInv, StoreIsBounded
<1> QED
  BY <1>3 DEF BoundInv

LEMMA CommitKeepsBound ==
  ASSUME FilesInv, BoundInv, NEW f \in Flows, NEW u \in Variants,
         CommitWrite(f, u) \/ CommitUnacknowledged(f, u)
  PROVE  BoundInv'
<1> DEFINE new == [variant |-> u, at |-> flow[f].at]
<1>1. /\ flow[f].pc = "write" /\ u \in flow[f].todo /\ died' = died /\ store' = store \cup {new}
  BY DEF CommitWrite, CommitUnacknowledged, Committed, Turn, At
<1>2. /\ flow'[f].pc = "backtest" /\ flow'[f].todo \subseteq flow[f].todo \ {u}
      /\ flow'[f].wrote = flow[f].wrote \cup {u} /\ \A g \in Flows \ {f} : flow'[g] = flow[g]
  <2>0. PICK gone \in {{u}, VariantsOf(SymbolOf[u])} :
          flow' = [flow EXCEPT ![f].pc = "backtest", ![f].todo = @ \ gone, ![f].wrote = @ \cup {u},
                               ![f].at = 0]
    BY DEF CommitWrite, CommitUnacknowledged, Written
  <2> DEFINE x == [flow[f] EXCEPT !.pc = "backtest", !.todo = @ \ gone, !.wrote = @ \cup {u}, !.at = 0]
  <2>1. flow' = [flow EXCEPT ![f] = x]
    BY <2>0
  <2>2. flow \in [Flows -> FlowRecords] /\ flow[f] \in FlowRecords
    BY FlowIsRecord DEF FilesInv
  <2>3. x.pc = "backtest" /\ x.todo \subseteq flow[f].todo \ {u} /\ x.wrote = flow[f].wrote \cup {u}
    BY <2>2 DEF FlowRecords, VariantsOf
  <2> HIDE DEF x
  <2> QED
    BY <2>1, <2>2, <2>3
<1>3. \A g \in Flows : flow'[g].wrote \cap flow'[g].todo = {}
  BY <1>2 DEF BoundInv
<1>4. ASSUME NEW v \in Variants
      PROVE  Cardinality(RunsOf(v)') <= Keep + Cardinality(Waiting(v)') + died'
  <2>1. /\ Cardinality(RunsOf(v)) <= Keep + Cardinality(Waiting(v)) + died
    BY DEF BoundInv, StoreIsBounded, Waiting
  <2>2. CASE v # u
    <3>1. RunsOf(v)' = RunsOf(v)
      BY <1>1, <2>2 DEF RunsOf
    <3>2. Waiting(v)' = Waiting(v)
      BY <1>1, <1>2, <2>2 DEF Waiting, Unpruned
    <3> QED
      BY <1>1, <2>1, <3>1, <3>2
  <2>3. CASE v = u
    <3>1. RunsOf(v)' = RunsOf(v) \cup {new}
      BY <1>1, <2>3 DEF RunsOf
    <3>2. Waiting(v)' = Waiting(v) \cup {f} /\ f \notin Waiting(v)
      BY <1>1, <1>2, <2>3 DEF Waiting, Unpruned, BoundInv
    <3>3. Cardinality(RunsOf(v)') <= Cardinality(RunsOf(v)) + 1
      <4>1. IsFiniteSet(RunsOf(v)) /\ Cardinality(RunsOf(v)) \in Nat
        BY Finite
      <4>2. Cardinality(RunsOf(v) \cup {new}) =
              IF new \in RunsOf(v) THEN Cardinality(RunsOf(v)) ELSE Cardinality(RunsOf(v)) + 1
        BY <4>1, FS_AddElement
      <4> HIDE DEF new
      <4> QED
        BY <3>1, <4>1, <4>2
    <3>4. Cardinality(Waiting(v)') = Cardinality(Waiting(v)) + 1
      BY <3>2, Finite, FS_AddElement
    <3>5. Cardinality(RunsOf(v)') \in Nat
      BY <3>1, Finite, FS_AddElement, FS_CardinalityType
    <3> QED
      BY <1>1, <2>1, <3>3, <3>4, <3>5, Finite
  <2> QED
    BY <2>2, <2>3
<1> QED
  BY <1>3, <1>4 DEF BoundInv, StoreIsBounded, Waiting

\* Runs of a variant have ranks of their own, so at most Keep of them are not superseded.
LEMMA PruneLeavesKeep ==
  ASSUME FilesInv, NEW f \in Flows, Prune(f), NEW v \in Variants
  PROVE  Cardinality(RunsOf(v)') <= Keep
<1> DEFINE S == RunsOf(v)'
           NotOlder(r) == {q \in RunsOf(v) : q.at >= r.at}
           Rank == [r \in S |-> Recency(r)]
<1>1. store' = store \ Superseded
  BY DEF Prune
<1>2. /\ \A r \in store : r.at \in Nat
      /\ \A r, q \in store : r.at = q.at => r = q
      /\ IsFiniteSet(RunsOf(v)) /\ Keep \in Nat
  BY Finite, FlowTypes DEF FilesInv, Stamped
<1>3. \A r \in S : r \in RunsOf(v) /\ Recency(r) = Cardinality(NotOlder(r)) /\ ~(Recency(r) > Keep)
  BY <1>1 DEF RunsOf, Superseded, Recency
<1>4. \A r \in S : IsFiniteSet(NotOlder(r)) /\ Cardinality(NotOlder(r)) \in Nat /\ r \in NotOlder(r)
  BY <1>2, <1>3, FS_Subset, FS_CardinalityType DEF RunsOf
<1>5. \A r \in S : Recency(r) \in 1 .. Keep
  <2> SUFFICES ASSUME NEW r \in S PROVE Recency(r) \in 1 .. Keep
    OBVIOUS
  <2>1. Cardinality(NotOlder(r)) # 0
    BY <1>4, FS_EmptySet
  <2> QED
    BY <1>2, <1>3, <1>4, <2>1
<1>6. ASSUME NEW r \in S, NEW q \in S, Recency(r) = Recency(q), r.at <= q.at PROVE r = q
  <2>4. /\ \A x \in RunsOf(v) : x.at \in Nat
        /\ r \in RunsOf(v) /\ q \in RunsOf(v) /\ \A x, y \in RunsOf(v) : x.at = y.at => x = y
    BY <1>2, <1>3, <1>6 DEF RunsOf
  <2>1. NotOlder(q) \subseteq NotOlder(r)
    BY <1>6, <2>4
  <2>2. NotOlder(q) = NotOlder(r)
    BY <1>3, <1>4, <1>6, <2>1, FS_Subset
  <2>3. r.at >= q.at
    BY <1>4, <2>2
  <2> QED
    BY <1>6, <2>3, <2>4
<1>7. \A r, q \in S : Recency(r) = Recency(q) => r = q
  <2>1. \A r \in S : r.at \in Nat
    BY <1>2, <1>3 DEF RunsOf
  <2>2. \A r, q \in S : r.at <= q.at \/ q.at <= r.at
    BY <2>1
  <2> QED
    BY <1>6, <2>2
<1>8. Rank \in Injection(S, 1 .. Keep)
  <2> HIDE DEF S
  <2> QED
    BY <1>5, <1>7 DEF Injection, IsInjective
<1>9. IsFiniteSet(1 .. Keep) /\ Cardinality(1 .. Keep) = Keep
  <2>1. Keep \in Int /\ 1 \in Int /\ ~(1 > Keep)
    BY BacktestStoreAssumption
  <2> QED
    BY <2>1, FS_Interval
<1>10. Cardinality(S) <= Cardinality(1 .. Keep)
  <2> HIDE DEF S, Rank
  <2> QED
    BY <1>8, <1>9, FS_Injection
<1> QED
  BY <1>9, <1>10

LEMMA PruneKeepsBound ==
  ASSUME FilesInv, FilesInv', BoundInv, NEW f \in Flows, Prune(f)
  PROVE  BoundInv'
<1>1. \A g \in Flows : flow'[g].wrote \cap flow'[g].todo = {}
  <2> DEFINE x == [flow[f] EXCEPT !.pc = "export", !.at = clock + 1]
  <2>1. flow' = [flow EXCEPT ![f] = x]
    BY DEF Prune
  <2>2. flow \in [Flows -> FlowRecords] /\ flow[f] \in FlowRecords
    BY FlowIsRecord DEF FilesInv
  <2>3. x.wrote = flow[f].wrote /\ x.todo = flow[f].todo
    BY <2>2 DEF FlowRecords
  <2> HIDE DEF x
  <2> QED
    BY <2>1, <2>2, <2>3 DEF BoundInv
<1>2. ASSUME NEW v \in Variants
      PROVE  Cardinality(RunsOf(v)') <= Keep + Cardinality(Waiting(v)') + died'
  <2>1. IsFiniteSet(Waiting(v)')
    BY FS_Subset, BacktestStoreAssumption DEF Waiting
  <2>2. Cardinality(Waiting(v)') \in Nat
    BY <2>1, FS_CardinalityType
  <2>3. IsFiniteSet(RunsOf(v)')
    BY FS_Subset DEF FilesInv, Stamped, RunsOf
  <2>4. Cardinality(RunsOf(v)') \in Nat
    BY <2>3, FS_CardinalityType
  <2>5. died' \in Nat /\ Keep \in Nat
    BY BacktestStoreAssumption DEF FilesInv, FilesTypeOK, TypeOK
  <2>6. Cardinality(RunsOf(v)') <= Keep
    BY PruneLeavesKeep
  <2> QED
    BY <2>2, <2>4, <2>5, <2>6
<1> QED
  BY <1>1, <1>2 DEF BoundInv, StoreIsBounded, Waiting

LEMMA CrashKeepsBound ==
  ASSUME FilesInv, BoundInv, NEW f \in Flows, Crash(f)
  PROVE  BoundInv'
<1>1. /\ UNCHANGED store /\ died' = IF \E v \in Variants : Unpruned(f, v) THEN died + 1 ELSE died
      /\ flow'[f] = NoFlow /\ \A g \in Flows \ {f} : flow'[g] = flow[g]
  <2>1. flow \in [Flows -> FlowRecords]
    BY FlowIsRecord DEF FilesInv
  <2> QED
    BY <2>1 DEF Crash
<1>2. \A g \in Flows : flow'[g].wrote \cap flow'[g].todo = {}
  BY <1>1, NoFlowIsRecord DEF BoundInv
<1>3. ASSUME NEW v \in Variants
      PROVE  Cardinality(RunsOf(v)') <= Keep + Cardinality(Waiting(v)') + died'
  <2>1. Cardinality(RunsOf(v)) <= Keep + Cardinality(Waiting(v)) + died
    BY DEF BoundInv, StoreIsBounded, Waiting
  <2>2. RunsOf(v)' = RunsOf(v)
    BY <1>1 DEF RunsOf
  <2>3. Waiting(v)' = Waiting(v) \ {f}
    BY <1>1, NoFlowIsRecord DEF Waiting, Unpruned
  <2>4. Cardinality(Waiting(v) \ {f}) =
          IF f \in Waiting(v) THEN Cardinality(Waiting(v)) - 1 ELSE Cardinality(Waiting(v))
    BY Finite, FS_RemoveElement
  <2>5. f \in Waiting(v) => died' = died + 1
    BY <1>1 DEF Waiting
  <2>6. /\ Cardinality(RunsOf(v)) \in Nat /\ Cardinality(Waiting(v)) \in Nat
        /\ died \in Nat /\ Keep \in Nat
    BY Finite
  <2>7. died' = died \/ died' = died + 1
    BY <1>1
  <2> QED
    BY <2>1, <2>2, <2>3, <2>4, <2>5, <2>6, <2>7
<1> QED
  BY <1>2, <1>3 DEF BoundInv, StoreIsBounded, Waiting

LEMMA QuietKeepsBound ==
  ASSUME FilesInv, BoundInv, NEW f \in Flows,
         \/ StartJob(f) \/ BeginWrite(f) \/ BacktestsDone(f) \/ ReadRuns(f) \/ ReadCurves(f)
         \/ Filed(f) \/ Exported(f) \/ \E v \in Variants : BacktestFails(f, v)
  PROVE  BoundInv'
<1>1. flow \in [Flows -> FlowRecords] /\ flow[f] \in FlowRecords /\ flow[f].wrote \cap flow[f].todo = {}
  BY FlowIsRecord DEF FilesInv, BoundInv
<1>2. UNCHANGED <<store, died>> /\ \A g \in Flows \ {f} : flow'[g] = flow[g]
  <2>1. UNCHANGED <<store, died>>
    BY DEF StartJob, BeginWrite, BacktestsDone, ReadRuns, ReadCurves, Filed, Exported, BacktestFails
  <2>2. \E x : flow' = [flow EXCEPT ![f] = x]
    BY DEF StartJob, BeginWrite, BacktestsDone, ReadRuns, ReadCurves, Filed, Exported, BacktestFails
  <2> QED
    BY <1>1, <2>1, <2>2
<1>3. CASE StartJob(f) \/ Exported(f)
  <2>1. flow[f].pc \in {"off", "index"}
    BY <1>3 DEF StartJob, Exported, At
  <2>2. flow'[f].wrote = {}
    <3>1. CASE Exported(f)
      BY <1>1, <3>1, NoFlowIsRecord DEF Exported
    <3>2. CASE StartJob(f)
      <4>1. PICK cfg \in Configs :
              flow' = [flow EXCEPT ![f] =
                [NoFlow EXCEPT !.pc = "backtest", !.cfg = cfg, !.since = clock,
                               !.before = LatestOf(cfg),
                               !.todo = UNION {VariantsOf(s) : s \in cfg}]]
        BY <3>2 DEF StartJob
      <4> QED
        BY <1>1, <4>1, NoFlowIsRecord DEF NoFlow
    <3> QED
      BY <1>3, <3>1, <3>2
  <2> QED
    BY <1>2, <2>1, <2>2, NothingWritten DEF Unpruned
<1>4. CASE BeginWrite(f) \/ BacktestsDone(f)
  <2>1. flow[f].pc = "backtest" /\ flow'[f].pc \in {"write", "prune"}
    BY <1>1, <1>4 DEF BeginWrite, BacktestsDone, At, FlowRecords
  <2>2. flow'[f].wrote = flow[f].wrote /\ flow'[f].todo = flow[f].todo
    <3>1. CASE BeginWrite(f)
      <4> DEFINE x == [flow[f] EXCEPT !.pc = "write", !.at = clock + 1]
      <4>1. flow' = [flow EXCEPT ![f] = x]
        BY <3>1 DEF BeginWrite
      <4>2. x.wrote = flow[f].wrote /\ x.todo = flow[f].todo
        BY <1>1 DEF FlowRecords
      <4> HIDE DEF x
      <4> QED
        BY <1>1, <4>1, <4>2
    <3>2. CASE BacktestsDone(f)
      BY <1>1, <3>2 DEF BacktestsDone, FlowRecords
    <3> QED
      BY <1>4, <3>1, <3>2
  <2> QED
    BY <1>1, <1>2, <2>1, <2>2, NothingWritten DEF Unpruned
<1>5. CASE \E v \in Variants : BacktestFails(f, v)
  <2>3. PICK v \in Variants : BacktestFails(f, v)
    BY <1>5
  <2> DEFINE x == [flow[f] EXCEPT !.pc = "backtest", !.at = 0, !.todo = @ \ VariantsOf(SymbolOf[v])]
  <2>4. flow[f].pc \in {"backtest", "write"} /\ flow' = [flow EXCEPT ![f] = x]
    BY <2>3 DEF BacktestFails
  <2>5. x.pc = "backtest" /\ x.wrote = flow[f].wrote /\ x.todo \subseteq flow[f].todo
    BY <1>1 DEF FlowRecords
  <2> HIDE DEF x
  <2>1. flow[f].pc \in {"backtest", "write"} /\ flow'[f].pc = "backtest"
    BY <1>1, <2>4, <2>5
  <2>2. flow'[f].wrote = flow[f].wrote /\ flow'[f].todo \subseteq flow[f].todo
    BY <1>1, <2>4, <2>5
  <2> QED
    BY <1>1, <1>2, <2>1, <2>2, NothingWritten DEF Unpruned
<1>6. CASE ReadRuns(f) \/ ReadCurves(f) \/ Filed(f)
  <2>1. flow[f].pc \in {"export", "curves", "files"} /\ flow'[f].pc \in {"curves", "files", "index"}
    BY <1>1, <1>6 DEF ReadRuns, ReadCurves, Filed, At, FlowRecords
  <2>2. flow'[f].wrote = flow[f].wrote /\ flow'[f].todo = flow[f].todo
    BY <1>1, <1>6 DEF ReadRuns, ReadCurves, Filed, FlowRecords
  <2> QED
    BY <1>1, <1>2, <2>1, <2>2, NothingWritten DEF Unpruned
<1> QED
  BY <1>3, <1>4, <1>5, <1>6

LEMMA InitBound == FilesInit => BoundInv
<1> SUFFICES ASSUME FilesInit PROVE BoundInv
  OBVIOUS
<1>1. /\ NVariants \in Nat /\ Keep \in Nat \ {0} /\ died = 0
      /\ store \subseteq Earlier /\ flow = [f \in Flows |-> NoFlow]
  BY BacktestStoreAssumption DEF FilesInit, Init
<1>2. FilesInv
  BY InitFiles
<1>3. ASSUME NEW v \in Variants
      PROVE  Cardinality(RunsOf(v)) <= Keep + Cardinality(Waiting(v)) + died
  <2> DEFINE Generation(g) == [variant |-> v, at |-> g * NVariants + v]
             All == {Generation(g) : g \in 0 .. Keep - 1}
             h == [g \in 0 .. Keep - 1 |-> Generation(g)]
  <2>1. RunsOf(v) \subseteq All
    <3> DEFINE At0(g, u) == g * NVariants + u
    <3>1. store \subseteq {[variant |-> u, at |-> At0(g, u)] : u \in Variants, g \in 0 .. Keep - 1}
      BY <1>1 DEF Earlier
    <3>2. \A g : Generation(g) = [variant |-> v, at |-> At0(g, v)]
      OBVIOUS
    <3> HIDE DEF At0, Generation
    <3> QED
      BY <3>1, <3>2 DEF RunsOf
  <2>2. h \in Surjection(0 .. Keep - 1, All)
    <3> HIDE DEF Generation
    <3> QED
      BY DEF Surjection
  <2>3. IsFiniteSet(0 .. Keep - 1) /\ Cardinality(0 .. Keep - 1) = Keep
    <3>1. 0 \in Int /\ Keep - 1 \in Int /\ ~(0 > Keep - 1) /\ Keep - 1 - 0 + 1 = Keep
      BY <1>1
    <3> QED
      BY <3>1, FS_Interval
  <2> HIDE DEF h, All
  <2>4. IsFiniteSet(All) /\ Cardinality(All) <= Keep /\ Cardinality(All) \in Nat
    BY <2>2, <2>3, FS_Surjection, FS_CardinalityType
  <2>5. Cardinality(RunsOf(v)) <= Cardinality(All)
    BY <2>1, <2>4, FS_Subset
  <2> QED
    BY <1>1, <1>2, <2>4, <2>5, Finite
<1> QED
  BY <1>1, <1>3, NoFlowIsRecord DEF BoundInv, StoreIsBounded, Waiting

\* A variant has Keep runs, and one more for every flow that has yet to prune or died first.
THEOREM StoreStaysBounded == FilesSpec => []StoreIsBounded
<1>1. FilesInv /\ FilesInv' /\ BoundInv /\ [FilesNext]_fileVars => BoundInv'
  <2> SUFFICES ASSUME FilesInv, FilesInv', BoundInv, [FilesNext]_fileVars PROVE BoundInv'
    OBVIOUS
  <2>1. ASSUME NEW f \in Flows, Work(f) PROVE BoundInv'
    BY <2>1, QuietKeepsBound, CommitKeepsBound, PruneKeepsBound DEF Work
  <2>2. ASSUME NEW f \in Flows, PruneStale(f) \/ WriteIndex(f) \/ Die(f) PROVE BoundInv'
    BY <2>2, QuietKeepsBound, CrashKeepsBound DEF PruneStale, WriteIndex, Die
  <2>3. CASE UNCHANGED vars
    <3>1. UNCHANGED <<store, flow, died>>
      BY <2>3 DEF vars
    <3> QED
      BY <3>1 DEF BoundInv, StoreIsBounded, RunsOf, Unpruned
  <2> QED
    BY <2>1, <2>2, <2>3 DEF FilesNext, WriteFile, fileVars
<1>2. BoundInv => StoreIsBounded
  BY DEF BoundInv
<1> QED
  BY <1>1, <1>2, InitBound, StoreInvariance, PTL DEF FilesSpec

-----------------------------------------------------------------------------
(* The curves an export looks up *)

Newer(r) == {q \in RunsOf(r.variant) : q.at > r.at}

\* What an export has read is still stored, or Keep newer runs are.
KeptOrReplaced ==
  \A f \in Flows : \A r \in flow[f].latest : r \in store \/ Cardinality(Newer(r)) >= Keep

LEMMA NewerTypes ==
  ASSUME FilesInv, NEW r \in Runs
  PROVE  /\ IsFiniteSet(Newer(r)) /\ Cardinality(Newer(r)) \in Nat
         /\ Keep \in Nat /\ r.at \in Nat /\ r.variant \in Variants
<1>1. r.variant \in Variants /\ r.at \in Nat
  BY DEF Runs
<1>2. IsFiniteSet(RunsOf(r.variant))
  BY <1>1, Finite
<1>3. IsFiniteSet(Newer(r))
  BY <1>2, FS_Subset DEF Newer
<1> QED
  BY <1>1, <1>3, FS_CardinalityType, BacktestStoreAssumption

\* A superseded run has Keep newer ones.
LEMMA SupersededByKeep ==
  ASSUME FilesInv, NEW r \in Superseded
  PROVE  Cardinality(Newer(r)) >= Keep
<1> DEFINE NotOlder == {q \in RunsOf(r.variant) : q.at >= r.at}
<1>1. /\ r \in store /\ r \in Runs /\ Cardinality(NotOlder) > Keep
      /\ \A q \in store : q.at \in Nat
      /\ \A q, x \in store : q.at = x.at => q = x
  BY FlowTypes DEF Superseded, Recency, FilesInv, FilesTypeOK, TypeOK, Stamped
<1>2. IsFiniteSet(NotOlder) /\ Cardinality(NotOlder) \in Nat
  <2>1. IsFiniteSet(RunsOf(r.variant))
    BY <1>1, NewerTypes, Finite
  <2> QED
    BY <2>1, FS_Subset, FS_CardinalityType
<1>3. Newer(r) = NotOlder \ {r} /\ r \in NotOlder
  BY <1>1 DEF Newer, RunsOf
<1>4. Cardinality(Newer(r)) = Cardinality(NotOlder) - 1
  BY <1>2, <1>3, FS_RemoveElement
<1>5. Keep \in Nat
  BY <1>1, NewerTypes
<1> HIDE DEF NotOlder
<1> QED
  BY <1>1, <1>2, <1>4, <1>5

\* Where there are Keep newer runs, pruning leaves Keep of them: of those it takes, the
\* latest has Keep newer ones itself, and none of these is taken.
LEMMA PruneLeavesNewer ==
  ASSUME FilesInv, FilesInv', NEW f \in Flows, Prune(f), NEW r \in Runs,
         Cardinality(Newer(r)) >= Keep
  PROVE  Cardinality(Newer(r)') >= Keep
<1> DEFINE Taken == Newer(r) \cap Superseded
<1>1. store' = store \ Superseded /\ \A q \in store : q.at \in Nat /\ q \in Runs
  BY FlowTypes DEF Prune, FilesInv, FilesTypeOK, TypeOK
<1>2. CASE Taken = {}
  <2>1. Newer(r)' = Newer(r)
    BY <1>1, <1>2 DEF Newer, RunsOf
  <2> QED
    BY <2>1
<1>3. CASE Taken # {}
  <2>1. PICK x \in Taken : \A y \in Taken : y.at <= x.at
    BY <1>3, LatestExists DEF Newer, RunsOf
  <2>2. x \in Superseded /\ x \in Runs /\ x.variant = r.variant /\ x.at > r.at /\ x.at \in Nat
    BY <1>1 DEF Newer, RunsOf
  <2>3. ASSUME NEW q \in Newer(x) PROVE q \in Newer(r)'
    <3>1. q \in store /\ q.variant = r.variant /\ q.at > x.at
      BY <2>2 DEF Newer, RunsOf
    <3>2. q.at > r.at
      BY <1>1, <2>2, <3>1, NewerTypes
    <3>3. q \notin Superseded
      BY <1>1, <2>1, <2>2, <3>1, <3>2 DEF Newer, RunsOf
    <3> QED
      BY <1>1, <3>1, <3>2, <3>3 DEF Newer, RunsOf
  <2>4. IsFiniteSet(Newer(r)') /\ Cardinality(Newer(r)') \in Nat
    <3>1. Newer(r)' \subseteq Newer(r)
      BY <1>1 DEF Newer, RunsOf
    <3> QED
      BY <3>1, NewerTypes, FS_Subset, FS_CardinalityType
  <2>5. Cardinality(Newer(x)) <= Cardinality(Newer(r)')
    BY <2>3, <2>4, FS_Subset
  <2> QED
    BY <2>2, <2>4, <2>5, SupersededByKeep, NewerTypes
<1> QED
  BY <1>2, <1>3

\* Unless it prunes, a step takes no run away.
LEMMA StoreGrows ==
  ASSUME FilesInv, FilesInv', store \subseteq store', NEW r \in Runs,
         r \in store \/ Cardinality(Newer(r)) >= Keep
  PROVE  r \in store' \/ Cardinality(Newer(r)') >= Keep
<1>1. CASE r \in store
  BY <1>1
<1>2. CASE Cardinality(Newer(r)) >= Keep
  <2>1. Newer(r) \subseteq Newer(r)'
    BY DEF Newer, RunsOf
  <2>2. IsFiniteSet(store')
    BY DEF FilesInv, Stamped
  <2>3. IsFiniteSet(Newer(r)')
    <3>1. Newer(r)' \subseteq store'
      BY DEF Newer, RunsOf
    <3> QED
      BY <2>2, <3>1, FS_Subset
  <2>4. Cardinality(Newer(r)) <= Cardinality(Newer(r)') /\ Cardinality(Newer(r)') \in Nat
    BY <2>1, <2>3, FS_Subset, FS_CardinalityType
  <2> QED
    BY <1>2, <2>4, NewerTypes
<1> QED
  BY <1>1, <1>2

\* What a step shows is what it showed, what is newest, or nothing.
LEMMA LatestStays ==
  ASSUME FilesInv, FilesNext, NEW g \in Flows, NEW r \in flow'[g].latest
  PROVE  r \in flow[g].latest \/ (r \in store /\ store' = store)
<1> USE DEF FlowRecords
<1>1. /\ flow \in [Flows -> FlowRecords] /\ \A f \in Flows : flow[f] \in FlowRecords
      /\ NoFlow \in FlowRecords /\ NoFlow.latest = {}
  BY FlowIsRecord, NoFlowIsRecord DEF FilesInv, NoFlow
<1>2. PICK f \in Flows :
        \/ Work(f) \/ \E s \in Symbols : WriteFile(f, s)
        \/ PruneStale(f) \/ WriteIndex(f) \/ Die(f)
  BY DEF FilesNext
<1>3. CASE g # f
  <2>1. flow' = flow \/ \E x : flow' = [flow EXCEPT ![f] = x]
    BY <1>2 DEF Work, WriteFile, PruneStale, WriteIndex, Die, vars, StartJob, BeginWrite,
                BacktestsDone, CommitWrite, Written, CommitUnacknowledged, BacktestFails, Prune,
                ReadRuns, ReadCurves, Filed, Exported, Crash
  <2> QED
    BY <1>1, <1>3, <2>1
<1>4. CASE g = f
  <2>1. CASE StartJob(f)
    BY <1>1, <1>4, <2>1 DEF StartJob, NoFlow
  <2>2. CASE BeginWrite(f) \/ BacktestsDone(f) \/ ReadCurves(f)
    BY <1>1, <1>4, <2>2 DEF BeginWrite, BacktestsDone, ReadCurves
  <2>3. CASE Prune(f)
    BY <1>1, <1>4, <2>3 DEF Prune
  <2>4. CASE \E v \in Variants : CommitWrite(f, v) \/ CommitUnacknowledged(f, v) \/ BacktestFails(f, v)
    BY <1>1, <1>4, <2>4 DEF CommitWrite, Written, CommitUnacknowledged, BacktestFails
  <2>5. CASE ReadRuns(f)
    BY <1>1, <1>4, <2>5 DEF ReadRuns, LatestOf, LatestRuns
  <2>6. CASE \E s \in Symbols : WriteFile(f, s)
    BY <1>4, <2>6 DEF WriteFile, vars
  <2>7. CASE PruneStale(f)
    BY <1>1, <1>4, <2>7 DEF PruneStale, Filed
  <2>8. CASE WriteIndex(f) \/ Die(f)
    BY <1>1, <1>4, <2>8 DEF WriteIndex, Exported, Die, Crash
  <2> QED
    BY <1>2, <2>1, <2>2, <2>3, <2>4, <2>5, <2>6, <2>7, <2>8 DEF Work
<1> QED
  BY <1>3, <1>4

LEMMA StoreShrinksByPruning ==
  ASSUME FilesNext
  PROVE  store \subseteq store' \/ \E f \in Flows : Prune(f)
BY DEF FilesNext, Work, WriteFile, PruneStale, WriteIndex, Die, vars, StartJob, BeginWrite,
       BacktestsDone, CommitWrite, CommitUnacknowledged, Committed, BacktestFails, ReadRuns,
       ReadCurves, Filed, Exported, Crash

\* An export finds the curve of every run it has read unless Keep newer ones are stored.
THEOREM CurvesAreFound == FilesSpec => []ExportKeepsCurves
<1>1. FilesInit => KeptOrReplaced
  BY DEF FilesInit, Init, KeptOrReplaced, NoFlow
<1>2. FilesInv /\ FilesInv' /\ KeptOrReplaced /\ [FilesNext]_fileVars => KeptOrReplaced'
  <2> SUFFICES ASSUME FilesInv, FilesInv', KeptOrReplaced, [FilesNext]_fileVars,
                      NEW g \in Flows, NEW r \in flow'[g].latest
               PROVE  r \in store' \/ Cardinality(Newer(r)') >= Keep
    BY DEF KeptOrReplaced
  <2>1. CASE UNCHANGED fileVars
    BY <2>1 DEF KeptOrReplaced, fileVars, vars, Newer, RunsOf
  <2>2. CASE FilesNext
    <3>1. CASE r \in store /\ store' = store
      BY <3>1
    <3>2. CASE r \in flow[g].latest
      <4>1. r \in Runs /\ (r \in store \/ Cardinality(Newer(r)) >= Keep)
        BY <3>2, FlowTypes DEF FilesInv, KeptOrReplaced
      <4>2. CASE store \subseteq store'
        BY <4>1, <4>2, StoreGrows
      <4>3. ASSUME NEW f \in Flows, Prune(f)
            PROVE  r \in store' \/ Cardinality(Newer(r)') >= Keep
        <5>1. r \in store' \/ r \in Superseded \/ Cardinality(Newer(r)) >= Keep
          BY <4>1, <4>3 DEF Prune
        <5> QED
          BY <4>1, <4>3, <5>1, SupersededByKeep, PruneLeavesNewer
      <4> QED
        BY <2>2, <4>2, <4>3, StoreShrinksByPruning
    <3> QED
      BY <2>2, <3>1, <3>2, LatestStays
  <2> QED
    BY <2>1, <2>2
<1>3. FilesInv /\ KeptOrReplaced => ExportKeepsCurves
  <2> SUFFICES ASSUME FilesInv, KeptOrReplaced, NEW f \in Flows, NEW r \in flow[f].latest,
                      r.variant \in Singles, r.at \notin curves
               PROVE  Cardinality({q \in RunsOf(r.variant) : q.at > r.at}) >= Keep
    BY DEF ExportKeepsCurves
  <2>1. r \notin store
    BY DEF FilesInv, CurvesMatchRuns
  <2> QED
    BY <2>1 DEF KeptOrReplaced, Newer
<1> QED
  BY <1>1, <1>2, <1>3, StoreInvariance, PTL DEF FilesSpec

-----------------------------------------------------------------------------
(* Flows end *)

FlowStep(f) ==
  \/ Work(f) /\ UNCHANGED dir
  \/ \E s \in Symbols : WriteFile(f, s)
  \/ PruneStale(f) \/ WriteIndex(f) \/ Die(f)

LEMMA FinitelyMany ==
  /\ \A T \in SUBSET Variants : IsFiniteSet(T) /\ Cardinality(T) \in 0 .. NVariants
  /\ \A T \in SUBSET Symbols : IsFiniteSet(T) /\ Cardinality(T) \in 0 .. Cardinality(Symbols)
  /\ Cardinality(Symbols) \in Nat
<1>1. IsFiniteSet(Variants) /\ Cardinality(Variants) = NVariants /\ NVariants \in Nat
  <2>1. IsFiniteSet(1 .. NVariants) /\ Cardinality(1 .. NVariants) = NVariants
    BY FS_Interval, BacktestStoreAssumption
  <2> QED
    BY <2>1, BacktestStoreAssumption DEF Variants
<1>2. IsFiniteSet(Symbols)
  <2> DEFINE of == [v \in Variants |-> SymbolOf[v]]
  <2>1. of \in Surjection(Variants, Symbols)
    BY DEF Symbols, Surjection
  <2> HIDE DEF of
  <2> QED
    BY <1>1, <2>1, FS_Surjection
<1>3. ASSUME NEW S, NEW T, T \subseteq S, IsFiniteSet(S)
      PROVE  IsFiniteSet(T) /\ Cardinality(T) \in 0 .. Cardinality(S)
  <2>1. IsFiniteSet(T) /\ Cardinality(T) <= Cardinality(S)
    BY <1>3, FS_Subset
  <2>2. Cardinality(T) \in Nat /\ Cardinality(S) \in Nat
    BY <1>3, <2>1, FS_CardinalityType
  <2> QED
    BY <2>1, <2>2
<1> QED
  BY <1>1, <1>2, <1>3, FS_CardinalityType

LEMMA LoopsTyped ==
  ASSUME NEW f \in Flows
  PROVE  /\ FilesTypeOK => flow[f].todo \subseteq Variants /\ Unfiled(f) \subseteq Symbols
         /\ FilesTypeOK' => flow'[f].todo \subseteq Variants /\ Unfiled(f)' \subseteq Symbols
<1>1. \A R : R \subseteq Runs => {SymbolOf[r.variant] : r \in R} \subseteq Symbols
  BY DEF Runs, Symbols
<1>2. FilesTypeOK => flow[f].todo \subseteq Variants /\ flow[f].latest \subseteq Runs
  BY DEF FilesTypeOK, TypeOK
<1>3. FilesTypeOK' => flow'[f].todo \subseteq Variants /\ flow'[f].latest \subseteq Runs
  BY DEF FilesTypeOK, TypeOK
<1>4. FilesTypeOK => Unfiled(f) \subseteq Symbols
  BY <1>1, <1>2 DEF Unfiled, Shown
<1>5. FilesTypeOK' => Unfiled(f)' \subseteq Symbols
  BY <1>1, <1>3 DEF Unfiled, Shown
<1> QED
  BY <1>2, <1>3, <1>4, <1>5

LEMMA StepsTyped ==
  ASSUME FilesTypeOK, NEW f \in Flows
  PROVE  StepsOf(f) \in 0 .. 6 + Cardinality(Symbols) + 2 * NVariants
<1>1. flow[f].pc \in Phases /\ NVariants \in Nat
  BY FlowTypes, BacktestStoreAssumption
<1> QED
  BY <1>1, LoopsTyped, FinitelyMany DEF StepsOf, At, Phases

\* A set without some of its members is smaller.
LEMMA FewerLeft ==
  ASSUME NEW S, IsFiniteSet(S), NEW T, T \subseteq S, T # S
  PROVE  Cardinality(T) < Cardinality(S)
<1>1. IsFiniteSet(T) /\ Cardinality(T) <= Cardinality(S)
  BY FS_Subset
<1>2. Cardinality(T) # Cardinality(S)
  BY FS_Subset
<1>3. Cardinality(T) \in Nat /\ Cardinality(S) \in Nat
  BY <1>1, FS_CardinalityType
<1> QED
  BY <1>1, <1>2, <1>3

\* Where f's step takes it, and what it leaves of the loops.
LEMMA MovesOn ==
  ASSUME FilesTypeOK, NEW f \in Flows, ~At(f, "off"), FlowStep(f)
  PROVE  \/ At(f, "backtest") /\ At(f, "write")' /\ flow'[f].todo = flow[f].todo
         \/ /\ flow[f].pc \in {"backtest", "write"} /\ At(f, "backtest")'
            /\ flow'[f].todo \subseteq flow[f].todo /\ flow'[f].todo # flow[f].todo
         \/ At(f, "backtest") /\ At(f, "prune")'
         \/ At(f, "prune") /\ At(f, "export")'
         \/ At(f, "export") /\ At(f, "curves")'
         \/ At(f, "curves") /\ At(f, "files")'
         \/ At(f, "files") /\ At(f, "files")' /\ \E s \in Symbols : WriteFile(f, s)
         \/ At(f, "files") /\ At(f, "index")'
         \/ At(f, "off")'
<1> USE FlowIsRecord DEF FlowRecords, At
<1>1. CASE BeginWrite(f)
  BY <1>1 DEF BeginWrite
<1>2. CASE \E v \in Variants : CommitWrite(f, v)
  BY <1>2 DEF CommitWrite, Written, Turn
<1>3. CASE \E v \in Variants : CommitUnacknowledged(f, v) \/ BacktestFails(f, v)
  <2>1. PICK v \in Variants : CommitUnacknowledged(f, v) \/ BacktestFails(f, v)
    BY <1>3
  <2>2. v \in flow[f].todo /\ v \in VariantsOf(SymbolOf[v]) /\ flow[f].pc \in {"backtest", "write"}
    BY <2>1 DEF CommitUnacknowledged, BacktestFails, Turn, VariantsOf
  <2>3. /\ flow'[f].pc = "backtest"
        /\ flow'[f].todo = flow[f].todo \ VariantsOf(SymbolOf[v])
    <3>1. CASE CommitUnacknowledged(f, v)
      BY <3>1 DEF CommitUnacknowledged
    <3>2. CASE BacktestFails(f, v)
      BY <3>2 DEF BacktestFails
    <3> QED
      BY <2>1, <3>1, <3>2
  <2> QED
    BY <2>2, <2>3
<1>4. CASE BacktestsDone(f)
  BY <1>4 DEF BacktestsDone
<1>5. CASE Prune(f)
  BY <1>5 DEF Prune
<1>6. CASE ReadRuns(f)
  BY <1>6 DEF ReadRuns
<1>7. CASE ReadCurves(f)
  BY <1>7 DEF ReadCurves
<1>8. CASE \E s \in Symbols : WriteFile(f, s)
  BY <1>8 DEF WriteFile, vars
<1>9. CASE PruneStale(f)
  BY <1>9 DEF PruneStale, Filed
<1>10. CASE WriteIndex(f) \/ Die(f)
  BY <1>10 DEF WriteIndex, Exported, Die, Crash, NoFlow
<1>11. ~StartJob(f)
  BY DEF StartJob
<1> QED
  BY <1>1, <1>2, <1>3, <1>4, <1>5, <1>6, <1>7, <1>8, <1>9, <1>10, <1>11 DEF FlowStep, Work

\* The file that was written is no longer missing, and no other one is.
LEMMA FileByFile ==
  ASSUME FilesTypeOK, NEW f \in Flows, NEW s \in Symbols, WriteFile(f, s)
  PROVE  Unfiled(f)' \subseteq Unfiled(f) /\ Unfiled(f)' # Unfiled(f)
<1>1. flow' = flow /\ s \in Unfiled(f) /\ dir'[f].files = [dir[f].files EXCEPT ![s] = flow[f].at]
  BY DEF WriteFile, vars, FilesTypeOK, Directory
<1>2. dir[f].files \in [Symbols -> Stamp]
  BY DEF FilesTypeOK, Directory
<1>3. /\ flow'[f] = flow[f] /\ dir'[f].files[s] = flow[f].at
      /\ \A u \in Symbols \ {s} : dir'[f].files[u] = dir[f].files[u]
  BY <1>1, <1>2
<1>4. Shown(f)' = Shown(f) /\ \A u \in Shown(f) : u \in Symbols
  <2>1. flow[f].latest \subseteq Runs
    BY FlowTypes
  <2> QED
    BY <1>3, <2>1 DEF Shown, Symbols, Runs
<1>5. s \notin Unfiled(f)'
  BY <1>3 DEF Unfiled
<1> QED
  BY <1>1, <1>3, <1>4, <1>5 DEF Unfiled

LEMMA FewerSteps ==
  ASSUME FilesTypeOK, FilesTypeOK', NEW f \in Flows, ~At(f, "off"), FlowStep(f)
  PROVE  StepsOf(f)' < StepsOf(f)
<1>1. /\ Cardinality(flow[f].todo) \in Nat /\ Cardinality(Unfiled(f)) \in Nat
      /\ Cardinality(flow'[f].todo) \in Nat /\ Cardinality(Unfiled(f)') \in 0 .. Cardinality(Symbols)
      /\ Cardinality(Symbols) \in Nat /\ flow[f].pc \in Phases
  BY LoopsTyped, FinitelyMany, FlowTypes, BacktestStoreAssumption
<1>2. CASE At(f, "backtest") /\ At(f, "write")' /\ flow'[f].todo = flow[f].todo
  BY <1>1, <1>2 DEF StepsOf, At
<1>3. CASE /\ flow[f].pc \in {"backtest", "write"} /\ At(f, "backtest")'
           /\ flow'[f].todo \subseteq flow[f].todo /\ flow'[f].todo # flow[f].todo
  <2>1. Cardinality(flow'[f].todo) < Cardinality(flow[f].todo)
    BY <1>3, LoopsTyped, FinitelyMany, FewerLeft
  <2> QED
    BY <1>1, <1>3, <2>1 DEF StepsOf, At
<1>4. CASE At(f, "files") /\ At(f, "files")' /\ \E s \in Symbols : WriteFile(f, s)
  <2>1. Cardinality(Unfiled(f)') < Cardinality(Unfiled(f))
    BY <1>4, LoopsTyped, FinitelyMany, FileByFile, FewerLeft
  <2> QED
    BY <1>1, <1>4, <2>1 DEF StepsOf, At
<1>5. CASE \/ At(f, "backtest") /\ At(f, "prune")'
           \/ At(f, "prune") /\ At(f, "export")'
           \/ At(f, "export") /\ At(f, "curves")'
           \/ At(f, "curves") /\ At(f, "files")'
           \/ At(f, "files") /\ At(f, "index")'
  BY <1>1, <1>5 DEF StepsOf, At
<1>6. CASE At(f, "off")'
  BY <1>1, <1>6 DEF StepsOf, At, Phases
<1> QED
  BY <1>2, <1>3, <1>4, <1>5, <1>6, MovesOn

\* Whatever f does, g's locals and directory stay.
LEMMA OthersRest ==
  ASSUME FilesTypeOK, NEW f \in Flows, NEW g \in Flows, f # g, FlowStep(f)
  PROVE  flow'[g] = flow[g] /\ dir'[g] = dir[g]
<1> USE DEF FilesTypeOK, TypeOK
<1>1. CASE Work(f) /\ UNCHANGED dir
  BY <1>1 DEF Work, StartJob, BeginWrite, BacktestsDone, CommitWrite, Written,
              CommitUnacknowledged, BacktestFails, Prune, ReadRuns, ReadCurves
<1>2. CASE (\E s \in Symbols : WriteFile(f, s)) \/ PruneStale(f)
  BY <1>2 DEF WriteFile, vars, PruneStale, Filed
<1>3. CASE WriteIndex(f) \/ Die(f)
  BY <1>3 DEF WriteIndex, Exported, Die, Crash
<1> QED
  BY <1>1, <1>2, <1>3 DEF FlowStep

\* A flow takes at most two steps for each variant, one for each file and a few more, and
\* then its job is over, whatever fails in it and whatever other flows do meanwhile.
THEOREM FlowsTakeBoundedlyMany ==
  FilesSpec => /\ [](\A f \in Flows : StepsOf(f) \in 0 .. 6 + Cardinality(Symbols) + 2 * NVariants)
               /\ FlowsRunOut
<1>1. FilesInv => \A f \in Flows : StepsOf(f) \in 0 .. 6 + Cardinality(Symbols) + 2 * NVariants
  BY StepsTyped DEF FilesInv
<1>2. FilesInv /\ FilesInv' /\ [FilesNext]_fileVars =>
        [\A f \in Flows :
           ~At(f, "off") => StepsOf(f)' < StepsOf(f) \/ (flow'[f] = flow[f] /\ dir'[f] = dir[f])]_fileVars
  <2> SUFFICES ASSUME FilesTypeOK, FilesTypeOK', FilesNext, NEW g \in Flows, ~At(g, "off")
               PROVE  StepsOf(g)' < StepsOf(g) \/ (flow'[g] = flow[g] /\ dir'[g] = dir[g])
    BY DEF FilesInv
  <2>1. PICK f \in Flows : FlowStep(f)
    BY DEF FilesNext, FlowStep
  <2> QED
    BY <2>1, FewerSteps, OthersRest
<1> QED
  BY <1>1, <1>2, StoreInvariance, PTL DEF FilesSpec, FlowsRunOut
=============================================================================
