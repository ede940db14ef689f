---------------------------- MODULE MCRunEvents ----------------------------
(***************************************************************************)
(* Small instances of RunEvents for TLC.                                   *)
(***************************************************************************)
EXTENDS RunEvents, TLC
=============================================================================
