------------------------------ MODULE MCJobCrawl ------------------------------
(* A list of two pages, of which the one without a magnet leads to a third and to one more than may
   be taken on. *)
EXTENDS JobCrawl, TLC

CONSTANTS r, d1, d2, d3, d4, h1, h2, n

MCLinks == (r :> <<d1, d2>>) @@ (d1 :> <<d3, d4>>) @@ (d2 :> <<r, d3>>)
           @@ (d3 :> <<>>) @@ (d4 :> <<>>)
MCMagnets == (r :> {}) @@ (d1 :> {}) @@ (d2 :> {h1, h2}) @@ (d3 :> {h2}) @@ (d4 :> {})
MCNameOf == [h \in {h1, h2} |-> n]
=============================================================================
