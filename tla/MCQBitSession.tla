---------------------------- MODULE MCQBitSession ----------------------------
(***************************************************************************)
(* Instance of QBitSession for TLC. Liveness is checked: no symmetry.      *)
(***************************************************************************)
EXTENDS QBitSession, TLC
=============================================================================
