----------------------------- MODULE StepExecution -----------------------------
(***************************************************************************)
(* execute_restore: the steps of a plan, one after another, each with its   *)
(* POSTs and the wait that follows.  A step is known by its place in the    *)
(* plan.  Its form decides which requests it makes:                         *)
(*   "save"      one form, or one entry of a table                          *)
(*   "wifi"      a Save that may ask for Continue on a warning page         *)
(*   "reserve"   Allocate opens an editor, whose Save is the write          *)
(*   "deferred"  a forward resolved on a fresh page when its turn comes     *)
(*   "mask"      a LAN save that may interrupt the connection               *)
(*   "move"      a LAN save that moves the gateway's address                *)
(*   "skip", "blocked"                                                      *)
(*                                                                         *)
(* A request is one action; how the client ends it (RouterClient) is chosen *)
(* there.  The gateway works on an accepted save in its own time: it may    *)
(* perform it, refuse it, call it no change or forget it.                   *)
(***************************************************************************)
EXTENDS Naturals, Sequences, StepOutcome

CONSTANT Length    \* of the plan

ASSUME LengthAssumption == Length \in Nat \ {0}

Steps == 1..Length
NoStep == 0

VARIABLES
  plan,      \* the form of each step
  at, pc,    \* the step whose turn it is, and its next request
  obs,       \* what its wait has observed (_SaveEvidence)
  late,      \* the wait's deadline has passed
  reports,   \* the results so far
  has,       \* gateway: the steps whose content it has
  job,       \* gateway: the save it is working on
  notice,    \* gateway: what it says of the last save
  history    \* saves received and performed, for the properties only

vars == <<plan, at, pc, obs, late, reports, has, job, notice, history>>
gateway == <<has, job, notice, history>>

Lan == {"mask", "move"}
Immediate == {"save", "wifi"} \cup Lan
Forms == Immediate \cup {"reserve", "deferred", "skip", "blocked"}

\* build_restore_plan puts the LAN form last.
Plans == {p \in [Steps -> Forms] :
            \A i \in Steps : p[i] \in Lan => i = Length}

NothingSeen == [saved |-> FALSE, noChange |-> FALSE, state |-> "unknown",
                unreadable |-> FALSE, fault |-> "none"]

Init ==
  /\ plan \in Plans
  /\ at = 1 /\ pc = "ready"
  /\ obs = NothingSeen /\ late = FALSE
  /\ reports = <<>>
  /\ has \in SUBSET Steps
  /\ job = NoStep /\ notice = "none"
  /\ history = [received |-> {}, performed |-> {}]

Form == plan[at]
Stopped == \E k \in DOMAIN reports : Stopping(reports[k])
Turn == pc = "ready" /\ at \in Steps
Due == Turn /\ ~Stopped

-----------------------------------------------------------------------------
(* Reports                                                                 *)

Plain(st) == [status |-> st, attempted |-> FALSE, answered |-> FALSE,
              performed |-> "unknown", acked |-> FALSE, refusal |-> FALSE,
              moved |-> FALSE, fault |-> "none"]

Unsaved(fault) == [Plain("failed") EXCEPT !.fault = fault]

\* The nonce page of the step's first POST is refused: nothing was performed.
NotPosted(fault) ==
  [Unsaved(fault) EXCEPT !.performed = IF fault = "nonce" THEN "no" ELSE @]

\* Mutant of SentThen: the transport's evidence is not kept.
SentThenForgotten(answered, fault) == Unsaved(fault)

SentThen(answered, fault) ==
  [Unsaved(fault) EXCEPT
     !.status = IF Form \in Lan /\ fault = "connection"
                THEN "reconnect-required" ELSE @,
     !.attempted = TRUE, !.answered = answered]

\* Mutant of Tell: what one wait has observed is left to the next.
TellKeepingEvidence(r) ==
  /\ reports' = Append(reports, r)
  /\ at' = at + 1 /\ pc' = "ready"
  /\ late' = FALSE
  /\ UNCHANGED <<plan, obs>>

Tell(r) ==
  /\ reports' = Append(reports, r)
  /\ at' = at + 1 /\ pc' = "ready"
  /\ obs' = NothingSeen /\ late' = FALSE
  /\ UNCHANGED plan

-----------------------------------------------------------------------------
(* The gateway's side of a save                                            *)

Untouched == UNCHANGED gateway

Receive ==
  /\ job' = at /\ notice' = "none"
  /\ history' = [history EXCEPT !.received = @ \cup {at}]
  /\ UNCHANGED has

\* A save that waits for Continue is received, and nothing is done about it.
Hold ==
  /\ history' = [history EXCEPT !.received = @ \cup {at}]
  /\ UNCHANGED <<has, job, notice>>

\* A save whose answer does not come back, or is an error.
PerhapsReceive ==
  \/ Untouched
  \/ Receive
  \/ Form = "wifi" /\ pc # "continue" /\ Hold

\* What the gateway saves may differ from what it was asked to save.
GatewayPerforms ==
  /\ job # NoStep
  /\ has' \in {has, has \cup {job}}
  /\ history' = [history EXCEPT !.performed = @ \cup {job}]
  /\ notice' \in {"saved", "none"}
  /\ job' = NoStep

GatewayDeclines ==
  /\ job # NoStep
  /\ notice' \in {"refused", "no change", "none"}
  /\ job' = NoStep
  /\ UNCHANGED <<has, history>>

GatewayWorks ==
  /\ GatewayPerforms \/ GatewayDeclines
  /\ UNCHANGED <<plan, at, pc, obs, late, reports>>

-----------------------------------------------------------------------------
(* Before the write                                                        *)

ReadFaults == {"connection", "http", "session", "pool", "page"}
PostFaults == ReadFaults \cup {"nonce"}

GoOn(point) ==
  /\ pc' = point
  /\ Untouched
  /\ UNCHANGED <<plan, at, obs, late, reports>>

Skip ==
  /\ Due
  /\ \/ Form = "skip" /\ Tell(Plain("skipped"))
     \/ Form = "blocked" /\ Tell(Plain("blocked"))
  /\ Untouched

NotRun ==
  /\ Turn /\ Stopped
  /\ Tell(Plain("not-run"))
  /\ Untouched

\* Allocate only opens an editor; fault "none" is an unexpected status.
Allocate ==
  /\ Due /\ Form = "reserve"
  /\ \/ GoOn("editor")
     \/ \E fault \in PostFaults \cup {"none"} : Tell(NotPosted(fault)) /\ Untouched

\* _run_follow_up before its Save: the editor may not open, or not offer the
\* address.
ReadEditor ==
  /\ pc = "editor"
  /\ \/ GoOn("write")
     \/ Tell(Plain("blocked")) /\ Untouched
     \/ \E fault \in ReadFaults \cup {"none"} : Tell(Unsaved(fault)) /\ Untouched

\* _run_deferred_forward before its write: the fresh page may be no form, or not
\* offer the service.
ResolveForward ==
  /\ Due /\ Form = "deferred"
  /\ \/ GoOn("write")
     \/ Tell(Plain("blocked")) /\ Untouched
     \/ \E fault \in ReadFaults \cup {"none", "unread"} :
          Tell(Unsaved(fault)) /\ Untouched

\* _confirm_warning_page up to its Continue: the Save was sent and answered.
ReadWarning ==
  /\ pc = "warning"
  /\ \/ GoOn("continue")
     \/ \E fault \in ReadFaults \cup {"none"} :
          Tell(SentThen(TRUE, fault)) /\ Untouched

-----------------------------------------------------------------------------
(* The write                                                               *)

Writes == \/ Due /\ Form \in Immediate
          \/ pc \in {"write", "continue"}

WriteUnsent ==
  /\ Writes
  /\ \E fault \in PostFaults :
       Tell(IF pc = "continue" THEN SentThen(TRUE, fault) ELSE NotPosted(fault))
  /\ Untouched

WriteUnanswered ==
  /\ Writes
  /\ Tell(SentThen(FALSE, "connection"))
  /\ PerhapsReceive

\* The Login page, a 401 or 403, a full pool; after the Login page also what
\* the login and the second attempt meet.
WriteTurnedAway ==
  /\ Writes
  /\ \E fault \in PostFaults : Tell(SentThen(TRUE, fault))
  /\ Untouched

\* A failing status, raised by the client ("http") or seen here ("none").
WriteErrored ==
  /\ Writes
  /\ \E fault \in {"http", "none"} : Tell(SentThen(TRUE, fault))
  /\ PerhapsReceive

WriteAccepted ==
  /\ Writes
  /\ pc' = "answered"
  /\ Receive
  /\ UNCHANGED <<plan, at, obs, late, reports>>

WriteWarned ==
  /\ Writes /\ Form = "wifi" /\ pc = "ready"
  /\ pc' = "warning"
  /\ Hold
  /\ UNCHANGED <<plan, at, obs, late, reports>>

-----------------------------------------------------------------------------
(* The wait (_wait_for_save)                                               *)

\* Mutant of SaveOutcome: "No changes detected" is taken for the state.
SaveOutcomeByNotice(o) ==
  [Plain(IF o.saved \/ o.noChange THEN "unchanged" ELSE "failed")
     EXCEPT !.attempted = TRUE, !.answered = TRUE,
            !.acked = o.saved, !.fault = o.fault]

\* What is told of a save that was answered, before it is judged.
Told(o) == [Plain("failed") EXCEPT
              !.attempted = TRUE, !.answered = TRUE,
              !.performed = IF o.saved THEN "yes"
                            ELSE IF o.noChange THEN "no" ELSE "unknown",
              !.acked = o.saved]

Refused(o) == [Told(o) EXCEPT !.refusal = TRUE]

\* _save_outcome, but for a refusal.
SaveOutcome(o) ==
  LET applied == o.saved /\ o.state = "yes"
      declined == o.noChange /\ ~o.saved
      gone == \/ Form = "move"
              \/ Form = "mask" /\ o.fault = "connection"
  IN CASE applied -> [Told(o) EXCEPT !.status = "applied",
                                     !.moved = (Form = "move")]
       [] declined -> [Told(o) EXCEPT !.status = IF o.state = "yes"
                                                 THEN "unchanged" ELSE "failed"]
       [] ~applied /\ ~declined /\ gone ->
            [Told(o) EXCEPT !.status = "reconnect-required", !.fault = o.fault]
       [] OTHER ->
            [Told(o) EXCEPT
               !.fault = IF o.fault = "none" /\ o.saved /\ o.unreadable
                         THEN "unread" ELSE o.fault]

Settled(o) == \/ o.saved /\ o.state = "yes"
              \/ o.noChange /\ ~o.saved

\* Only a readable page says whether the gateway has what was asked.
StateRead(readable) == IF ~readable THEN "unknown"
                       ELSE IF at \in has THEN "yes" ELSE "no"

\* What is known after one look at a page.
Seen(readable, seen) ==
  [saved |-> obs.saved \/ seen = "saved",
   noChange |-> obs.noChange \/ seen = "no change",
   state |-> StateRead(readable), unreadable |-> ~readable, fault |-> "none"]

\* The page may be cut, or not be the form, and it may not yet show the notice.
Look ==
  /\ \E readable \in BOOLEAN, seen \in {"none", notice} :
       LET o == Seen(readable, seen)
       IN \/ seen = "refused" /\ Tell(Refused(obs))
          \/ seen # "refused" /\ Settled(o) /\ Tell(SaveOutcome(o))
          \/ /\ seen # "refused" /\ ~Settled(o)
             /\ obs' = o /\ pc' = "waiting"
             /\ UNCHANGED <<plan, at, late, reports>>
  /\ Untouched

LookAtAnswer ==
  /\ pc = "answered"
  /\ Look \/ GoOn("waiting")

\* After a move nothing is read at the old address.
Polling == pc = "waiting" /\ Form # "move" /\ ~late

\* Mutant of PollReads: a gateway that answers is given more time.
PollReadsOn == pc = "waiting" /\ Form # "move" /\ Look

PollReads == Polling /\ Look

\* Mutant of PollFails: a failing status is met by saving again.
PollFailsReposting ==
  /\ Polling
  /\ pc' = "write"
  /\ Untouched /\ UNCHANGED <<plan, at, obs, late, reports>>

\* A transient status is polled again, and so is a lost connection unless the
\* save may have cut it.
EndsWait(fault) == fault = "connection" => Form \in Lan
Passing(fault) == \/ fault = "http"
                  \/ fault = "connection" /\ Form \notin Lan

PollFails ==
  /\ Polling
  /\ \E fault \in ReadFaults :
       LET o == [obs EXCEPT !.fault = fault]
       IN \/ EndsWait(fault) /\ Tell(SaveOutcome(o))
          \/ /\ Passing(fault)
             /\ obs' = o
             /\ UNCHANGED <<plan, at, pc, late, reports>>
  /\ Untouched

WaitOver ==
  /\ pc = "waiting" /\ (late \/ Form = "move")
  /\ Tell(SaveOutcome(obs))
  /\ Untouched

TimePasses ==
  /\ pc \in {"answered", "waiting"} /\ ~late
  /\ late' = TRUE
  /\ Untouched /\ UNCHANGED <<plan, at, pc, obs, reports>>

-----------------------------------------------------------------------------

\* The caller's time is up between two steps (record_step).
CutShort ==
  /\ Turn /\ at > 1
  /\ GoOn("over")

Client ==
  \/ Skip \/ NotRun \/ Allocate \/ ReadEditor
  \/ ResolveForward \/ ReadWarning
  \/ WriteUnsent \/ WriteUnanswered \/ WriteTurnedAway \/ WriteErrored
  \/ WriteAccepted \/ WriteWarned
  \/ LookAtAnswer \/ PollReads \/ PollFails \/ WaitOver

Next == Client \/ TimePasses \/ CutShort \/ GatewayWorks

Spec == Init /\ [][Next]_vars
FairSpec == Spec /\ WF_vars(Client) /\ WF_vars(TimePasses)

Over == pc = "over" \/ at > Length

-----------------------------------------------------------------------------
(* Properties                                                              *)

\* write_attempted False is what permits a retry: no save of such a step ever
\* reached the gateway, and no save that reached it goes unreported
\* (_post_with_write_evidence, _confirm_warning_page).
UnsentIsUntouched ==
  /\ \A i \in DOMAIN reports :
       ~reports[i].attempted => i \notin history.received
  /\ Over => history.received \subseteq DOMAIN reports

\* What a report claims of the gateway is so: what is said not to have been sent
\* was not, "applied" and "unchanged" steps are there, write_performed True was
\* performed, and what was refused or not performed was not (_save_outcome,
\* _execution_error).
ReportsAreTrue ==
  /\ UnsentIsUntouched
  /\ \A i \in DOMAIN reports :
       LET r == reports[i] IN
       /\ r.status \in {"applied", "unchanged"} => i \in has
       /\ r.status = "applied" \/ r.performed = "yes" => i \in history.performed
       /\ r.performed = "no" \/ r.refusal => i \notin history.performed

\* The gateway is given a save only when it is through with the one before, and
\* never one that it has performed: neither the wait nor the next step re-posts.
OneSaveAtATime ==
  [][job' \notin {job, NoStep} => /\ job = NoStep
                                  /\ job' \notin history.performed]_vars

\* What Autorestore takes for granted about the ways a step can stop its pass
\* (StepApplied, StepUnsent, StepRejected, StepMoved and so on).
AsAutorestoreAssumes ==
  \A i \in DOMAIN reports :
    LET kind == StopKind(reports[i]) IN
    /\ kind \in Stops \ {"unresolved"}
    /\ kind \in Unsent => i \notin history.received
    /\ kind \in {"moved", "movedSilent"} => plan[i] \in Lan
    /\ kind \in {"none", "rejected", "ackUnread"} => job # i
    /\ kind = "ackUnread" => i \in history.performed
    /\ kind # "none" =>
         \A k \in DOMAIN reports : k > i => reports[k].status = "not-run"

\* The inductive invariant behind these, in four parts.  The types, with one
\* report for each step passed.
Evidence == [saved : BOOLEAN, noChange : BOOLEAN, fault : Faults,
             state : {"yes", "no", "unknown"}, unreadable : BOOLEAN]

ExecutionTypeOK ==
  /\ plan \in Plans /\ at \in 1..(Length + 1)
  /\ pc \in {"ready", "editor", "warning", "continue", "write", "answered",
             "waiting", "over"}
  /\ reports \in Seq(Report) /\ Len(reports) = at - 1
  /\ late \in BOOLEAN /\ obs \in Evidence
  /\ has \subseteq Steps /\ job \in Steps \cup {NoStep}
  /\ notice \in {"none", "saved", "refused", "no change"}
  /\ history \in [received : SUBSET Steps, performed : SUBSET Steps]

\* The step whose turn it is: no save of it has left before its write, and one
\* has been received while it waits.  What was observed belongs to it.
TurnKnown ==
  /\ pc # "ready" => at \in Steps
  /\ pc \notin {"ready", "over"} => ~Stopped
  /\ pc \in {"ready", "editor", "write", "over"} => at \notin history.received
  /\ pc \in {"warning", "continue", "answered", "waiting"}
       => at \in history.received
  /\ pc \in {"warning", "continue"} => at \notin history.performed
  /\ late => pc \in {"answered", "waiting"}
  /\ obs # NothingSeen => pc = "waiting"
  /\ obs.saved => at \in history.performed
  /\ obs.noChange => at \notin history.performed /\ job # at
  /\ obs.state = "yes" => at \in has

\* The gateway works on a save that was received and not yet performed, either
\* for the step that waits or for one that has stopped the plan; so what it says
\* to a step that waits is about the save of that step.
GatewayKnown ==
  /\ history.performed \subseteq history.received
  /\ history.received \subseteq 1..at
  /\ job # NoStep => /\ job \in history.received \ history.performed
                     /\ notice = "none"
                     /\ job = at => pc \in {"answered", "waiting"}
  /\ pc \in {"answered", "waiting"} =>
       /\ notice = "saved" => at \in history.performed
       /\ notice \in {"refused", "no change"} => at \notin history.performed

\* What the report r of step i says, against what the gateway has done.
Truthful(i, r) ==
  /\ ~r.attempted => i \notin history.received
  /\ r.status \in {"applied", "unchanged"} => i \in has
  /\ r.status = "applied" \/ r.performed = "yes" \/ r.acked
       => i \in history.performed
  /\ r.performed = "no" \/ r.refusal => i \notin history.performed /\ job # i
  /\ r.status = "reconnect-required" \/ r.moved => plan[i] \in Lan
  /\ job = i => Stopping(r)

ReportsKnown ==
  \A i \in DOMAIN reports :
    /\ Truthful(i, reports[i])
    /\ Stopping(reports[i]) =>
         \A k \in DOMAIN reports : k > i => reports[k].status = "not-run"

ExecutionInv ==
  /\ ExecutionTypeOK
  /\ TurnKnown
  /\ GatewayKnown
  /\ ReportsKnown

\* An execution ends, whatever the gateway answers: every wait has a deadline.
ExecutionEnds == <>Over
=============================================================================
