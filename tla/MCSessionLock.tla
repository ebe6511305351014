---------------------------- MODULE MCSessionLock ----------------------------
(* Instances of SessionLock for TLC: a few calls, one of them legacy or none. *)
EXTENDS SessionLock, TLC

ModernSymmetry == Permutations(Calls \ LegacyCalls)
=============================================================================
