---------------------------- MODULE MCAutorestore ----------------------------
(* Instances of Autorestore for TLC. *)
EXTENDS AutorestoreInvariant, TLC

\* One entry that votes, and the LAN form, whose write moves the gateway.
LanOrder == <<"reservation", "lan">>
=============================================================================
