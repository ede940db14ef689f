---------------------------- MODULE MCTakeFiles ----------------------------
(***************************************************************************)
(* Small instances of TakeFiles for TLC.                                   *)
(***************************************************************************)
EXTENDS TakeFiles, TLC

SlotSymmetry == Permutations(Slots)
=============================================================================
