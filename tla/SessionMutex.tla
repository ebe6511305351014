---------------------------- MODULE SessionMutex ----------------------------
(***************************************************************************)
(* What the router-session lock promises its callers, with no word about   *)
(* files: a command asks for the session of a gateway, at most one holds   *)
(* it, and each stops asking or holding in its own time (it is served, it  *)
(* is refused, or its process dies).  SessionLock implements this.         *)
(***************************************************************************)
CONSTANT Calls          \* one element per call of with_router_session

VARIABLE status         \* what each call knows about its own ownership

Statuses == {"idle", "waiting", "holding", "ended"}

Init == status = [c \in Calls |-> "idle"]

Request(c) ==
  /\ status[c] = "idle"
  /\ status' = [status EXCEPT ![c] = "waiting"]

\* Granting is the only step with a condition on the other calls.
Grant(c) ==
  /\ status[c] = "waiting"
  /\ \A d \in Calls : status[d] # "holding"
  /\ status' = [status EXCEPT ![c] = "holding"]

End(c) ==
  /\ status[c] \in {"waiting", "holding"}
  /\ status' = [status EXCEPT ![c] = "ended"]

Next == \E c \in Calls : Request(c) \/ Grant(c) \/ End(c)

Spec == Init /\ [][Next]_status
=============================================================================
