------------------------- MODULE MCSessionCoordinator -------------------------
(* Instances of SessionCoordinator for TLC. *)
EXTENDS SessionCoordinator
=============================================================================
