-------------------------- MODULE BronzeLayerProofs --------------------------
(***************************************************************************)
(* What follows from the bronze layer's promise alone, for every number of *)
(* runs, pairs and days: whatever implements BronzeLayer has it too.       *)
(***************************************************************************)
EXTENDS BronzeLayer, TLAPS

LayerInv ==
  today \in Nat /\ UniqueKey /\ Provenance /\ InsertedIsCounted /\ ClosedBarsOnly /\ NoUnexplainedGap

\* A later day, more rows and more runs explain what fewer explained.
LEMMA NoGapMonotone ==
  ASSUME NEW S, NEW T, S \subseteq T, NEW R, NEW Q, R \subseteq Q,
         NEW p, NEW last, NoGap(S, R, p, last)
  PROVE  NoGap(T, Q, p, last)
BY DEF NoGap, Stored, Omitted

LEMMA AppendPreserves == LayerInv /\ Append => LayerInv'
<1> SUFFICES ASSUME LayerInv, Append PROVE LayerInv'
  OBVIOUS
<1> DEFINE newRows == rows' \ rows
           newRuns == runs' \ runs
<1> USE DEF LayerInv
<1>1. /\ today' = today /\ rows \subseteq rows' /\ runs \subseteq runs'
      /\ \A r \in newRuns, q \in runs : q.id # r.id
  BY DEF Append
<1>2. today' \in Nat
  BY <1>1
<1>3. UniqueKey'
  <2> SUFFICES ASSUME NEW c \in rows', NEW e \in rows', c.pair = e.pair, c.day = e.day
               PROVE  c = e
    BY DEF UniqueKey
  <2>1. CASE c \in rows /\ e \in rows
    BY <2>1 DEF UniqueKey
  <2>2. CASE c \in newRows /\ e \in newRows
    BY <2>2 DEF Append
  <2>3. CASE c \in newRows /\ e \in rows
    BY <2>3 DEF Append, Stored
  <2>4. CASE c \in rows /\ e \in newRows
    BY <2>4 DEF Append, Stored
  <2> QED
    BY <2>1, <2>2, <2>3, <2>4
<1>4. Provenance'
  <2> SUFFICES ASSUME NEW c \in rows'
               PROVE  \E r \in runs' : /\ r.id = c.run /\ r.pair = c.pair
                                       /\ r.status = "success" /\ c.day \in r.fetched
    BY DEF Provenance
  <2>1. CASE c \in rows
    BY <2>1, <1>1 DEF Provenance
  <2>2. CASE c \in newRows
    BY <2>2, <1>1 DEF Append
  <2> QED
    BY <2>1, <2>2
\* A run is counted in the step that commits it: its rows come with it, and a later
\* step's rows belong to that step's runs.
<1>5. InsertedIsCounted'
  <2> SUFFICES ASSUME NEW r \in runs'
               PROVE  r.inserted = Cardinality({c \in rows' : c.run = r.id})
    BY DEF InsertedIsCounted
  <2>1. CASE r \in runs
    <3>1. \A c \in newRows : c.run # r.id
      BY <2>1, <1>1 DEF Append
    <3>2. {c \in rows' : c.run = r.id} = {c \in rows : c.run = r.id}
      BY <3>1, <1>1
    <3> QED
      BY <2>1, <3>2 DEF InsertedIsCounted
  <2>2. CASE r \in newRuns
    <3>1. \A c \in rows : c.run # r.id
      BY <2>2, <1>1 DEF Provenance
    <3>2. {c \in rows' : c.run = r.id} = {c \in newRows : c.run = r.id}
      BY <3>1
    <3>3. r.inserted = Cardinality({c \in newRows : c.run = r.id})
      BY <2>2 DEF Append
    <3> QED
      BY <3>2, <3>3
  <2> QED
    BY <2>1, <2>2
<1>6. ClosedBarsOnly'
  BY <1>1 DEF ClosedBarsOnly, Append
<1>7. NoUnexplainedGap'
  <2> SUFFICES ASSUME NEW r \in runs', r.status = "success"
               PROVE  NoGap(rows', runs', r.pair, r.we)
    BY DEF NoUnexplainedGap, NoGap, Stored, Omitted
  <2>1. CASE r \in runs
    BY <2>1, <1>1, NoGapMonotone DEF NoUnexplainedGap
  <2>2. CASE r \in newRuns
    BY <2>2 DEF Append
  <2> QED
    BY <2>1, <2>2
<1> QED
  BY <1>2, <1>3, <1>4, <1>5, <1>6, <1>7

\* The natural key, the provenance and the count of every row, closed bars only and no
\* hole below a watermark: all consequences of appending whole runs, so of Spec.
THEOREM LayerIsSound == Spec => []LayerInv
<1>1. Init => LayerInv
  BY DEF Init, LayerInv, UniqueKey, Provenance, InsertedIsCounted, ClosedBarsOnly,
         NoUnexplainedGap
<1>2. LayerInv /\ [Next]_vars => LayerInv'
  <2> SUFFICES ASSUME LayerInv, [Next]_vars PROVE LayerInv'
    OBVIOUS
  <2>1. CASE NewDay
    BY <2>1 DEF NewDay, LayerInv, UniqueKey, Provenance, InsertedIsCounted, ClosedBarsOnly,
                NoUnexplainedGap, NoGap, Stored, Omitted
  <2>2. CASE Append
    BY <2>2, AppendPreserves
  <2>3. CASE UNCHANGED vars
    BY <2>3 DEF vars, LayerInv, UniqueKey, Provenance, InsertedIsCounted, ClosedBarsOnly,
                NoUnexplainedGap, NoGap, Stored, Omitted
  <2> QED
    BY <2>1, <2>2, <2>3 DEF Next
<1> QED
  BY <1>1, <1>2, PTL DEF Spec
=============================================================================
