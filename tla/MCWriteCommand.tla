---------------------------- MODULE MCWriteCommand ----------------------------
(* The real number of verification reads. *)
EXTENDS WriteCommand
=============================================================================
