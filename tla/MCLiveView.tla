----------------------------- MODULE MCLiveView -----------------------------
(***************************************************************************)
(* The instance of LiveView for TLC.                                        *)
(***************************************************************************)
EXTENDS LiveView

\* The second and the third time stamp, the fourth and the fifth lie in one millisecond.
TwoPerMs == [v \in 0 .. 5 |-> (v + 2) \div 2]

\* States after which nothing is left to check are not followed: the connection is
\* gone for good, or a race has happened and no snapshot can be read any more.
Followed ==
    \/ link.state = "reading" \/ events < MaxEvents
    \/ link.state \in {"draining", "open"} /\ holes = {}
=============================================================================
