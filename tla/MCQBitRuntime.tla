---------------------------- MODULE MCQBitRuntime ----------------------------
(***************************************************************************)
(* Instances of QBitRuntime for TLC.                                        *)
(***************************************************************************)
EXTENDS QBitRuntime, TLC
=============================================================================
