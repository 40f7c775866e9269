------------------------------ MODULE StoreInv ------------------------------
(***************************************************************************)
(* Why the store keeps what it promises to a flow, and a finished export   *)
(* leaves a whole directory: no two runs share an executed_at, so neither  *)
(* a late commit nor another flow's pruning ever takes a variant's newest  *)
(* run away without putting a newer one in its place, and the files on     *)
(* their way are those of the runs that were read.                         *)
(***************************************************************************)
EXTENDS ExportFiles

\* What LatestRuns finds if no two runs share an executed_at.
Newest == {r \in store : \A q \in store : q.variant = r.variant => q.at <= r.at}

\* No two runs share an executed_at, and none is later than the clock.
Stamped ==
  /\ IsFiniteSet(store)
  /\ \A r \in store : 1 <= r.at /\ r.at <= clock
  /\ \A r, q \in store : r.at = q.at => r = q

\* The run a flow is about to commit has one of its own too.
Apart ==
  /\ \A f \in Flows : At(f, "write") =>
       1 <= flow[f].at /\ flow[f].since < flow[f].at /\ \A r \in store : r.at # flow[f].at
  /\ \A f, g \in Flows : At(f, "write") /\ At(g, "write") /\ f # g => flow[f].at # flow[g].at

\* A flow backtests and shows only what its configuration lists.
Configured ==
  \A f \in Flows :
    /\ \A v \in flow[f].todo \cup flow[f].wrote : SymbolOf[v] \in flow[f].cfg
    /\ \A r \in flow[f].before \cup flow[f].latest : SymbolOf[r.variant] \in flow[f].cfg

\* The newest runs stand up to what any flow has written or has seen when it began.
Represented == \A f \in Flows : UpToDate(f, Newest)

Reading == {"curves", "files", "index"}

\* How far f's export has come with its directory.
Placed ==
  \A f \in Flows : LET d == dir[f] IN
    /\ flow[f].since <= clock /\ flow[f].at <= clock
    /\ d.index <= clock /\ \A s \in Symbols : d.files[s] <= clock
    /\ flow[f].pc \in {"export", "curves"} =>
         d.index < flow[f].at /\ \A s \in Symbols : d.files[s] < flow[f].at
    /\ At(f, "files") => d.index < flow[f].at /\ \A s \in Symbols : d.files[s] <= flow[f].at
    /\ At(f, "index") =>
         /\ d.index < flow[f].at /\ d.dirty
         /\ \A s \in Symbols : d.files[s] = IF s \in Shown(f) THEN flow[f].at ELSE Absent

FilesInv ==
  /\ FilesTypeOK
  /\ Stamped /\ Apart /\ Configured /\ Represented /\ Placed
  /\ CurvesMatchRuns /\ ExportIsThisRuns /\ DirectoryIsWhole

\* A job backtests a variant once, and what has not been pruned is accounted for.
BoundInv ==
  /\ \A f \in Flows : flow[f].wrote \cap flow[f].todo = {}
  /\ StoreIsBounded
-----------------------------------------------------------------------------
(* Why a flow ends *)

\* Steps from where f is to the end of its job: variants and files are taken one by one.
StepsOf(f) ==
  LET files == Cardinality(Symbols)
  IN CASE At(f, "off")      -> 0
       [] At(f, "index")    -> 1
       [] At(f, "files")    -> 2 + Cardinality(Unfiled(f))
       [] At(f, "curves")   -> 3 + files
       [] At(f, "export")   -> 4 + files
       [] At(f, "prune")    -> 5 + files
       [] At(f, "write")    -> 5 + files + 2 * Cardinality(flow[f].todo)
       [] At(f, "backtest") -> 6 + files + 2 * Cardinality(flow[f].todo)

\* Each step of a job is one of those, a failing symbol too, and no other flow's step, its
\* pruning included, gives a job more to do.
FlowsRunOut ==
  [][\A f \in Flows :
       ~At(f, "off") => StepsOf(f)' < StepsOf(f) \/ (flow'[f] = flow[f] /\ dir'[f] = dir[f])]_fileVars
=============================================================================
