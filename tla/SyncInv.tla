------------------------------- MODULE SyncInv -------------------------------
(***************************************************************************)
(* Why a copy leaves both warehouses sound.  A warehouse keeps what it     *)
(* ingested, so a row that is copied back finds itself there; and it       *)
(* numbers its runs, so whoever has one of them has those before it, the   *)
(* ones that explain what is missing below the bars it brought.            *)
(***************************************************************************)
EXTENDS SyncBronze

\* An audit row is named once, and the next run has a name no row has.
Numbered(d) ==
  /\ IsFiniteSet(Own(d))
  /\ \A r \in Own(d) : r.id.n < Cardinality(Own(d))
  /\ \A r, q \in runs[d] : r.id = q.id => r = q

\* Whatever came from a warehouse is still there.
Originals(d) ==
  /\ \A r \in runs[d] : r \in runs[r.id.by]
  /\ \A c \in rows[d] : c \in rows[c.run.by]

\* R has, of each warehouse, the runs up to some number.
Consecutive(R) ==
  \A r \in R : \A q \in runs[r.id.by] : q.id.by = r.id.by /\ q.id.n <= r.id.n => q \in R

\* What d knew when it committed bar c: its own runs up to c's, and every copied one.
KnownTo(d, c) == {r \in runs[d] : r.id.by = d => r.id.n <= c.run.n}

\* Those explain, with the bars of S, each day below the bars of S that d ingested.
Explained(S, d) ==
  \A c \in S : c.run.by = d => Local!NoGap(S, KnownTo(d, c), c.pair, c.day)

\* The window being fetched is contiguous with what is stored, and closed.
WindowSound(d) ==
  window[d] # NoWindow =>
    /\ window[d].we < today
    /\ Local!NoGap(rows[d], runs[d], window[d].pair, window[d].ws - 1)

WarehouseInv(d) ==
  /\ Numbered(d) /\ Originals(d) /\ Consecutive(runs[d]) /\ Explained(rows[d], d)
  /\ WindowSound(d)

\* What a sync has staged, and what it has delivered.
CopyInv(x) == LET s == sync[x] IN
  /\ s.begun.ingest_runs \subseteq runs[s.from] /\ s.begun.raw_candles \subseteq rows[s.from]
  /\ s.pc = "insert" /\ s.table = 1 =>
       /\ s.begun.ingest_runs \subseteq s.staged /\ s.staged \subseteq runs[s.from]
       /\ Consecutive(s.staged)
  /\ s.pc = "insert" /\ s.table = 2 =>
       /\ s.begun.raw_candles \subseteq s.staged /\ s.staged \subseteq rows[s.from]
       /\ Explained(s.staged, s.from)
  /\ s.table = 2 => s.begun.ingest_runs \subseteq runs[s.to]

\* The inductive invariant of SyncProofs.
SyncInvariant ==
  /\ TypeOK
  /\ \A d \in Warehouses : WarehouseInv(d)
  /\ \A x \in Syncers : CopyInv(x)
  /\ CopiesAreSound /\ WatermarkHidesNothing /\ SyncDelivers /\ OnlyRacesFail
=============================================================================
