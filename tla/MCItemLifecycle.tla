--------------------------- MODULE MCItemLifecycle ---------------------------
(***************************************************************************)
(* Instances of ItemLifecycle for TLC. Batches and flows are each          *)
(* interchangeable; symmetry is used only where no liveness is checked.    *)
(***************************************************************************)
EXTENDS ItemLifecycle, TLC

Symmetry == Permutations(Batch) \cup Permutations(Flow)
=============================================================================
