------------------------------- MODULE MCSweep -------------------------------
(* An instance of Sweep for TLC. *)
EXTENDS Sweep

\* A page with two fallback pages, then one without.
MCWalk == <<2, 0>>
=============================================================================
