---------------------------- MODULE MCWorkspace ----------------------------
(***************************************************************************)
(* One project renamed twice and run twice, in two languages or twice in   *)
(* one. A run finds the first line of the film or both. The new titles are *)
(* shorter and longer than the first, so one write of the record may leave *)
(* a tail of another.                                                      *)
(***************************************************************************)
EXTENDS Workspace, TLC

CONSTANTS p1, short, long, r1, r2
MCTitleSize == p1 :> 2 @@ short :> 1 @@ long :> 3
MCSegmentations == {{1}, {1, 2}}
RunsAlike == Permutations(Runs)

\* Bounds: beside a run, a fault meets one rename at most; the second run comes
\* where nothing fails, nobody renames, and one take at most does not fit.
Bounded ==
  LET started == {r \in Runs : run[r] # "idle"}
      renamed == {r \in Renames : step[r] # "idle"}
      misfits == {i \in RowsIn(Len(journal), "take") : ~ journal[i].fits}
  IN  \/ started = {}
      \/ started # Runs /\ (faults = 0 \/ renamed # Renames)
      \/ started = Runs /\ faults = 0 /\ renamed = {} /\ Cardinality(misfits) < 2
=============================================================================
