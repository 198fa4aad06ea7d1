--------------------------- MODULE MCEventDelivery ---------------------------
(***************************************************************************)
(* Instance of EventDelivery for TLC.  Liveness is checked: no symmetry.    *)
(***************************************************************************)
EXTENDS EventDelivery, TLC
=============================================================================
