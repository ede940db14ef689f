-------------------------- MODULE MCCommitWriters --------------------------
(***************************************************************************)
(* Small instances of CommitWriters for TLC.                               *)
(***************************************************************************)
EXTENDS CommitWriters, TLC
=============================================================================
