------------------------------ MODULE MCPageFetch ------------------------------
(* Two fetches of a site that takes one at a time, and one of another. *)
EXTENDS PageFetch, TLC

CONSTANTS f1, f2, f3, s1, s2

MCHostOf == (f1 :> s1) @@ (f2 :> s1) @@ (f3 :> s2)
=============================================================================
