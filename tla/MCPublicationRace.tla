-------------------------- MODULE MCPublicationRace --------------------------
(* Instances of DirectoryPublication alone. *)
EXTENDS DirectoryPublication
=============================================================================
