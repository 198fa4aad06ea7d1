--------------------------- MODULE MCQBitSnapshot ---------------------------
(***************************************************************************)
(* Instance of QBitSnapshot for TLC. Torrents are interchangeable.         *)
(***************************************************************************)
EXTENDS QBitSnapshot, TLC

Symmetry == Permutations(Hash) \cup Permutations(Value)
=============================================================================
