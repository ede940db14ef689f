-------------------------- MODULE MCCommitHistory --------------------------
(***************************************************************************)
(* Three callers who append a root, its child, the child of that, a rival  *)
(* root under the identity of the child, or a row that is refused, and     *)
(* snapshots at two commits whose versions tie. The callers are alike, and *)
(* no property is about liveness, so they may be permuted.                 *)
(***************************************************************************)
EXTENDS CommitHistory, TLC

MCAppends == {[id |-> 1, parent |-> Root, version |-> 1],
              [id |-> 2, parent |-> 1, version |-> 2],
              [id |-> 2, parent |-> Root, version |-> 1],
              [id |-> 3, parent |-> 2, version |-> 3],
              [id |-> 2, parent |-> Root, version |-> 2]}
MCSnapshots == {[id |-> 1, version |-> 2], [id |-> 2, version |-> 2]}
Alike == Permutations(Callers)
=============================================================================
