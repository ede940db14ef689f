--------------------------- MODULE MCLedgerQueue ---------------------------
(***************************************************************************)
(* Small instances of LedgerQueue for TLC.                                 *)
(***************************************************************************)
EXTENDS LedgerQueue, TLC
=============================================================================
