---------------------------- MODULE MCQBitSubmission ----------------------------
(***************************************************************************)
(* Instance of QBitSubmission for TLC: two adds to one category, one to    *)
(* another, and a table of a single lock. The two that share a category    *)
(* can be exchanged.                                                       *)
(***************************************************************************)
EXTENDS QBitSubmission, TLC

CONSTANTS a1, a2, a3, c1, c2

Categories == [a \in Adder |-> IF a = a3 THEN c2 ELSE c1]
Symmetry == Permutations({a1, a2})
=============================================================================
