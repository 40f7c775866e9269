----------------------------- MODULE ExportFiles -----------------------------
(***************************************************************************)
(* The files export_json leaves behind: one per backtested symbol, then    *)
(* the stale ones away, then index.json, each written in place.  The       *)
(* workflow throws an unfinished directory away with its checkout; a run   *)
(* by hand leaves it in the working copy for the next one to find.         *)
(*                                                                         *)
(* A file is abstracted to the generated_at it carries, and the index also *)
(* to the assets it has numbers for: an asset of config.yaml without a run *)
(* is listed as pending, with nulls and no file of its own.                *)
(***************************************************************************)
EXTENDS BacktestStore

VARIABLE
  dir           \* dir[f]: exports/ in f's working copy

fileVars == <<vars, dir>>

Absent == 0
Torn == -1      \* a file whose writing was cut off

Stamp == Nat \cup {Torn}
Directory == [files: [Symbols -> Stamp], index: Stamp, shown: SUBSET Symbols, dirty: BOOLEAN]

FilesTypeOK == TypeOK /\ dir \in [Flows -> Directory]

Stocked == {SymbolOf[r.variant] : r \in store}

\* What earlier exports left: nothing, or a whole directory; Die leaves the others.
Empty == [files |-> [s \in Symbols |-> Absent], index |-> Absent, shown |-> {}, dirty |-> FALSE]
Whole(t) ==
  [Empty EXCEPT !.files = [s \in Symbols |-> IF s \in Stocked THEN t ELSE Absent],
                !.index = t, !.shown = Stocked]

FilesInit ==
  /\ Init
  /\ \E d \in {Empty} \cup {Whole(clock) : s \in Stocked} : dir = [f \in Flows |-> d]

\* Symbols with a run to show, and those among them whose file is still to be written.
Shown(f) == {SymbolOf[r.variant] : r \in flow[f].latest}
Unfiled(f) == {s \in Shown(f) : dir[f].files[s] # flow[f].at}

WriteFile(f, s) ==
  /\ At(f, "files") /\ s \in Unfiled(f) /\ \A u \in Unfiled(f) : s <= u
  /\ dir' = [dir EXCEPT ![f].files[s] = flow[f].at, ![f].dirty = TRUE]
  /\ UNCHANGED vars

\* Mutant: what is stale stays.
PruneStale_Never(f) ==
  /\ Unfiled(f) = {} /\ Filed(f)
  /\ dir' = [dir EXCEPT ![f].dirty = TRUE]

\* _prune_stale: files of symbols this export did not write.
PruneStale(f) ==
  /\ Unfiled(f) = {} /\ Filed(f)
  /\ dir' = [dir EXCEPT ![f].dirty = TRUE,
       ![f].files = [s \in Symbols |-> IF s \in Shown(f) THEN dir[f].files[s] ELSE Absent]]

WriteIndex(f) ==
  /\ Exported(f)
  /\ dir' = [dir EXCEPT ![f].index = flow[f].at, ![f].shown = Shown(f), ![f].dirty = FALSE]

\* The process dies between two files or while it writes one of them.
Die(f) ==
  /\ Crash(f)
  /\ \/ UNCHANGED dir
     \/ /\ At(f, "files")
        /\ \E s \in Unfiled(f) :
             /\ \A u \in Unfiled(f) : s <= u
             /\ dir' = [dir EXCEPT ![f].files[s] = Torn, ![f].dirty = TRUE]
     \/ At(f, "index") /\ dir' = [dir EXCEPT ![f].index = Torn]

FilesNext ==
  \E f \in Flows :
    \/ Work(f) /\ UNCHANGED dir
    \/ \E s \in Symbols : WriteFile(f, s)
    \/ PruneStale(f) \/ WriteIndex(f) \/ Die(f)

FilesSpec == FilesInit /\ [][FilesNext]_fileVars

-----------------------------------------------------------------------------

\* An export that finished leaves a file of the index's moment for every asset the index has
\* numbers for and no other file, whatever an earlier one that died had left and whichever
\* assets were dropped, came back or are still pending; one that died leaves no file older
\* than the index beside it.
DirectoryIsWhole ==
  \A f \in Flows : LET d == dir[f] IN
    /\ ~d.dirty => \A s \in Symbols : d.files[s] = IF s \in d.shown THEN d.index ELSE Absent
    /\ \A s \in Symbols : d.files[s] \in {Absent, Torn} \/ d.files[s] >= d.index
=============================================================================
