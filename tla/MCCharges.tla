----------------------------- MODULE MCCharges -----------------------------
(***************************************************************************)
(* Small instances of Charges for TLC.                                     *)
(***************************************************************************)
EXTENDS Charges, TLC
=============================================================================
