------------------------------ MODULE StepOutcome ------------------------------
(***************************************************************************)
(* What a restore step reports (RestoreStepResult), and what the code makes *)
(* of a report: is its write unanswered, and how does it stop a pass of     *)
(* autorestore.  StepExecution produces these reports, Autorestore takes    *)
(* them as given.                                                           *)
(***************************************************************************)

\* The kinds of exception a step can end with, "none" among them: no answer, a
\* failing HTTP status, a lost session, a full session pool, a 401 or 403 of
\* one page, a refused nonce page, and a page that cannot be read.
Faults == {"none", "connection", "http", "session", "pool", "page", "nonce",
           "unread"}

StepStatuses == {"applied", "unchanged", "skipped", "blocked", "failed",
             "not-run", "reconnect-required"}

\* attempted: write_attempted; answered: write_response_received; performed:
\* write_performed; acked: acknowledgement_observed; refusal: the error starts
\* with WRITE_REJECTED_PREFIX; moved: lan_address_changed.
Report == [status : StepStatuses, attempted : BOOLEAN, answered : BOOLEAN,
           performed : {"yes", "no", "unknown"}, acked : BOOLEAN,
           refusal : BOOLEAN, moved : BOOLEAN, fault : Faults]

Stopping(r) == r.status \in {"failed", "reconnect-required"}

\* unanswered_write
UnansweredWrite(r) ==
  /\ \/ r.status = "reconnect-required" /\ ~r.answered
     \/ r.status = "failed"
  /\ r.attempted
  /\ r.performed # "no" /\ ~r.acked
  /\ ~r.refusal

-----------------------------------------------------------------------------
(* How a step, or the allocation Clear, stops a pass of autorestore        *)

Unsent == {"transport", "lost", "refused", "page", "explicit"}
Unanswered == {"silent", "silentLost", "movedSilent"}
Stops == {"none", "rejected", "ackUnread", "moved", "unresolved"}
           \cup Unsent \cup Unanswered

BeforePost(fault) ==
  CASE fault \in {"connection", "http"} -> "transport"
    [] fault \in {"session", "pool"}    -> "lost"
    [] fault = "nonce"                  -> "refused"
    [] fault \in {"page", "unread"}     -> "page"
    [] fault = "none"                   -> "explicit"

AfterPost(r) ==
  CASE r.acked /\ r.fault # "none" -> "ackUnread"
    [] UnansweredWrite(r) -> IF r.fault \in {"session", "pool"}
                             THEN "silentLost" ELSE "silent"
    [] OTHER -> "rejected"

StopKind(r) ==
  CASE r.status = "reconnect-required" \/ r.moved ->
         IF r.answered \/ r.acked THEN "moved" ELSE "movedSilent"
    [] r.status = "failed" /\ ~r.moved ->
         IF r.attempted THEN AfterPost(r) ELSE BeforePost(r.fault)
    [] OTHER -> "none"
=============================================================================
