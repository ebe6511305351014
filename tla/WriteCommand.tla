----------------------------- MODULE WriteCommand -----------------------------
(***************************************************************************)
(* One committed write from the command line: set, submit, action and       *)
(* diagnostics.  The command reads the form, sends the write, learns from   *)
(* the gateway's answer what became of it, reads the page again where that  *)
(* decides, and reports an outcome and an exit code (save_result).          *)
(*                                                                         *)
(* A command's route is the protocol its page answers with:                 *)
(*   "saved"  a Save, awaited until the page says "Changes saved"           *)
(*   "wifi"   the same, where the gateway may first ask for Continue        *)
(*   "mask"   a LAN save that may interrupt the connection                  *)
(*   "move"   a LAN save that moves the gateway's address                   *)
(*   "plain"  no Save: the answer to the POST is all there is               *)
(***************************************************************************)
EXTENDS Naturals, Sequences, StepOutcome

CONSTANT Reads    \* attempts of the verification read (VERIFY_RETRY_DELAYS)

ASSUME ReadsAssumption == Reads \in Nat \ {0}

VARIABLES
  cmd,       \* what the operator asked for
  pc,
  sent,      \* what the transport saw of the write (PostWriteEvidence)
  answer,    \* how the write was answered
  obs,       \* what the answer and the wait have shown (_SaveEvidence)
  late,      \* the wait's deadline has passed
  saved,     \* the step the answer amounts to, if any (RestoreStepResult)
  check,     \* the verification read (_Verification)
  result,    \* what the command reports
  live,      \* gateway: what the form holds, against what was asked
  job,       \* gateway: it is working on the save
  notice,    \* gateway: what it says of the save
  history    \* for the properties only

own == <<cmd, pc, sent, answer, obs, late, saved, check, result>>
gateway == <<live, job, notice>>
vars == <<cmd, pc, sent, answer, obs, late, saved, check, result, live, job,
          notice, history>>

Lan == {"mask", "move"}
Routes == {"saved", "wifi", "plain"} \cup Lan

\* asks: values were assigned; known: the wait can tell whether the state was
\* reached (a reservation's row, the LAN form); opener: the button opens an
\* editor; drops: the action takes the web server down.
Commands ==
  {c \in [op : {"set", "submit", "action", "diagnostic"}, route : Routes,
          asks : BOOLEAN, known : BOOLEAN, opener : BOOLEAN, drops : BOOLEAN,
          leave : {"dry run", "unconfirmed", "granted"}] :
     /\ c.op = "set" => c.asks /\ ~c.opener
     /\ c.op \in {"action", "diagnostic"} => c.route = "plain" /\ ~c.asks
     /\ c.op = "diagnostic" => ~c.opener
     /\ c.drops => c.op = "action" /\ ~c.opener
     /\ c.opener => c.route = "plain" /\ ~c.asks
     /\ c.route \in Lan => c.asks /\ c.known
     /\ c.known => c.route \in Lan \cup {"saved"} /\ c.asks}

Stages == {"start", "post", "warning", "continue", "answered", "look", "wait",
           "judge", "read", "decide", "done"}
Sendings == [attempted : BOOLEAN, answered : BOOLEAN]
Evidence == [saved : BOOLEAN, noChange : BOOLEAN, refused : BOOLEAN,
             state : {"yes", "no", "unknown"}, unreadable : BOOLEAN,
             fault : Faults]
Checks == [verified : {"yes", "no", "none"}, failed : BOOLEAN,
           reads : 0..Reads, relogin : BOOLEAN]
Histories == [received : BOOLEAN, performed : BOOLEAN, refusals : 0..1]

NothingSent == [attempted |-> FALSE, answered |-> FALSE]
Answered == [attempted |-> TRUE, answered |-> TRUE]
NothingSeen == [saved |-> FALSE, noChange |-> FALSE, refused |-> FALSE,
                state |-> "unknown", unreadable |-> FALSE, fault |-> "none"]
NoCheck == [verified |-> "none", failed |-> FALSE, reads |-> 0,
            relogin |-> FALSE]
NoResult == [kind |-> "none", exit |-> 0, outcome |-> "none",
             committed |-> FALSE, attempted |-> FALSE, answered |-> FALSE]

Init ==
  /\ cmd \in Commands
  /\ pc = "start"
  /\ sent = NothingSent /\ answer = "none"
  /\ obs = NothingSeen /\ late = FALSE
  /\ saved = <<>> /\ check = NoCheck /\ result = NoResult
  /\ live \in {"old", "asked"}
  /\ job = FALSE /\ notice = "none"
  /\ history = [received |-> FALSE, performed |-> FALSE, refusals |-> 0]

Untouched == UNCHANGED <<gateway, history>>

-----------------------------------------------------------------------------
(* What the command reports                                                *)

Finish(r) ==
  /\ result' = r /\ pc' = "done"

\* A usage error, a dry run, a form that could not be read.
Short(kind, code) == [NoResult EXCEPT !.kind = kind, !.exit = code]

\* An error raised once the write may have been sent keeps its evidence
\* (_raise_if_coordination_failure, _post_observed, _report_save).
Raised(ev, committed) ==
  [kind |-> "raised", exit |-> 2, outcome |-> "none", committed |-> committed,
   attempted |-> ev.attempted, answered |-> ev.answered]

RaisedLater == Raised(sent, obs.saved /\ saved # <<>>)

\* observed_no_change
ObservedNoChange(r) ==
  r.performed = "no" /\ ~(r.status = "failed" /\ ~r.attempted)

Verdict(code, outcome, committed) ==
  [exit |-> code, outcome |-> outcome, committed |-> committed]

\* decide_save_result
Decide(r, verified, unread, asks) ==
  CASE r.refusal -> Verdict(1, "failed", FALSE)
    [] ~r.refusal /\ r.status = "applied" ->
         Verdict(IF verified = "no" THEN 1 ELSE IF unread THEN 2 ELSE 0,
                 "applied", TRUE)
    [] ~r.refusal /\ r.status # "applied" /\ ObservedNoChange(r) ->
         (CASE verified = "yes" -> Verdict(0, "unchanged", FALSE)
            [] verified = "no" -> Verdict(1, "failed", FALSE)
            [] verified = "none" ->
                 IF asks THEN Verdict(2, "failed", FALSE)
                         ELSE Verdict(0, "unchanged", FALSE))
    [] OTHER -> Verdict(2, r.status, FALSE)

Reported(v, ev) ==
  [kind |-> "reported", exit |-> v.exit, outcome |-> v.outcome,
   committed |-> v.committed, attempted |-> ev.attempted,
   answered |-> ev.answered]

-----------------------------------------------------------------------------
(* The step an answer amounts to                                           *)

StepOf(ev, status) ==
  [status |-> status, attempted |-> ev.attempted, answered |-> ev.answered,
   performed |-> "unknown", acked |-> FALSE,
   refusal |-> FALSE, moved |-> FALSE, fault |-> "none"]

FailedStep(ev, fault) ==
  LET status == IF cmd.route \in Lan /\ fault = "connection" /\ ev.attempted
                THEN "reconnect-required" ELSE "failed"
  IN [StepOf(ev, status) EXCEPT
        !.fault = fault, !.performed = IF ev.attempted THEN "unknown" ELSE "no"]

\* A failure of the write itself: a lost session and a full pool are raised,
\* every other fault makes a failed step (_write_failure_step,
\* _execution_error, _presend_failure_step).
Fails(fault) ==
  IF fault \in {"session", "pool"}
  THEN /\ Finish(Raised(sent', FALSE))
       /\ UNCHANGED saved
  ELSE /\ saved' = <<FailedStep(sent', fault)>>
       /\ pc' = "judge"
       /\ UNCHANGED result

-----------------------------------------------------------------------------
(* The gateway's side of a save                                            *)

Receive ==
  /\ job' = TRUE /\ notice' = "none"
  /\ history' = [history EXCEPT !.received = TRUE]
  /\ UNCHANGED live

Hold ==
  /\ history' = [history EXCEPT !.received = TRUE]
  /\ UNCHANGED gateway

PerhapsReceive ==
  \/ Untouched
  \/ Receive
  \/ cmd.route = "wifi" /\ pc = "post" /\ Hold

\* What it saves may be what it was asked for, that value made regular, or
\* nothing at all.
GatewayPerforms ==
  /\ job
  /\ live' \in {live, "asked", "other"}
  /\ history' = [history EXCEPT !.performed = TRUE]
  /\ notice' \in {"saved", "none"}
  /\ job' = FALSE

GatewayDeclines ==
  /\ job
  /\ notice' \in {"refused", "no change", "none"}
  /\ job' = FALSE
  /\ UNCHANGED <<live, history>>

GatewayWorks ==
  /\ pc \notin {"decide", "done"}
  /\ GatewayPerforms \/ GatewayDeclines
  /\ UNCHANGED own

-----------------------------------------------------------------------------
(* Before the write                                                        *)

ReadFaults == {"connection", "http", "session", "pool", "page"}
PostFaults == ReadFaults \cup {"nonce"}
Coordination == {"session", "pool"}

Refuse ==
  /\ pc = "start" /\ cmd.leave = "unconfirmed"
  /\ Finish(Short("usage", 1))
  /\ Untouched
  /\ UNCHANGED <<cmd, sent, answer, obs, late, saved, check>>

\* A dry run of an action shows its payload without reading anything.
DryRunAction ==
  /\ pc = "start" /\ cmd.leave = "dry run" /\ cmd.op = "action"
  /\ Finish(Short("dry run", 0))
  /\ Untouched
  /\ UNCHANGED <<cmd, sent, answer, obs, late, saved, check>>

\* The form is read; it may be unreadable, or have no such control or button.
ReadForm ==
  /\ pc = "start" /\ cmd.leave # "unconfirmed"
  /\ cmd.leave = "dry run" => cmd.op # "action"
  /\ \/ \E fault \in ReadFaults \cup {"unread"} :
          Finish(IF fault \in Coordination THEN Raised(NothingSent, FALSE)
                 ELSE Short("failed read", 2))
     \/ Finish(Short("usage", 1))
     \/ cmd.leave = "dry run" /\ Finish(Short("dry run", 0))
     \/ cmd.leave = "granted" /\ pc' = "post" /\ UNCHANGED result
  /\ Untouched
  /\ UNCHANGED <<cmd, sent, answer, obs, late, saved, check>>

-----------------------------------------------------------------------------
(* The write                                                               *)

Writing == pc \in {"post", "continue"}

\* Once a Save has been answered with the Wi-Fi Warning the write stays sent
\* and answered, whatever happens before Continue leaves.
WriteUnsent ==
  /\ Writing
  /\ UNCHANGED sent
  /\ \E fault \in PostFaults : Fails(fault)
  /\ Untouched
  /\ UNCHANGED <<cmd, answer, obs, late, check>>

WriteUnanswered ==
  /\ Writing
  /\ sent' = [Answered EXCEPT !.answered = FALSE]
  /\ Fails("connection")
  /\ PerhapsReceive
  /\ UNCHANGED <<cmd, answer, obs, late, check>>

\* The Login page, a 401 or 403, a full pool: nothing was performed.
WriteTurnedAway ==
  /\ Writing
  /\ sent' = Answered
  /\ \E fault \in PostFaults : Fails(fault)
  /\ Untouched
  /\ UNCHANGED <<cmd, answer, obs, late, check>>

WriteErrored ==
  /\ Writing
  /\ sent' = Answered
  /\ Fails("http")
  /\ PerhapsReceive
  /\ UNCHANGED <<cmd, answer, obs, late, check>>

WriteAccepted ==
  /\ Writing
  /\ sent' = Answered
  /\ answer' \in {"inline", "redirect"}
  /\ pc' = IF cmd.route = "plain" /\ pc = "post" THEN "answered" ELSE "look"
  /\ Receive
  /\ UNCHANGED <<cmd, obs, late, saved, check, result>>

\* The Wi-Fi Warning; a form button on a Wi-Fi page can meet it too.
WriteWarned ==
  /\ pc = "post"
  /\ \/ cmd.route = "wifi"
     \/ cmd.route = "plain" /\ cmd.op \in {"submit", "action"}
  /\ sent' = Answered
  /\ pc' = "warning"
  /\ Hold
  /\ UNCHANGED <<cmd, answer, obs, late, saved, check, result>>

\* fault "none": no Continue button, or one whose form is not known.
ReadWarning ==
  /\ pc = "warning"
  /\ UNCHANGED sent
  /\ \/ pc' = "continue" /\ UNCHANGED <<saved, result>>
     \/ \E fault \in ReadFaults \cup {"none"} : Fails(fault)
  /\ Untouched
  /\ UNCHANGED <<cmd, sent, answer, obs, late, check>>

-----------------------------------------------------------------------------
(* A page without a Save answers the write itself (_answer_step)           *)

Judge(step) ==
  /\ saved' = step /\ pc' = "judge"
  /\ UNCHANGED result

Declined == [StepOf(sent, "unchanged") EXCEPT !.performed = "no"]
RefusedStep == [StepOf(sent, "failed") EXCEPT !.refusal = TRUE]
Acknowledged == [StepOf(sent, "applied") EXCEPT !.performed = "yes",
                                                !.acked = TRUE]

\* A diagnostic is refused, too, by "No changes" on the redirect's target.
Refusal(seen) ==
  \/ seen = "refused"
  \/ seen = "no change" /\ cmd.op = "diagnostic" /\ answer = "redirect"

ReadAnswer ==
  /\ pc = "answered"
  /\ answer = "redirect" => ~cmd.drops
  /\ UNCHANGED sent
  /\ \E seen \in {"none", notice} :
       /\ obs' = [obs EXCEPT !.refused = Refusal(seen),
                             !.noChange = (seen = "no change") /\ ~Refusal(seen),
                             !.saved = (seen = "saved") /\ answer = "inline"]
       /\ CASE Refusal(seen) -> Judge(<<RefusedStep>>)
            [] ~Refusal(seen) /\ seen = "no change" /\ cmd.op # "diagnostic" ->
                 Judge(<<Declined>>)
            [] ~Refusal(seen) /\ seen = "saved" /\ answer = "inline"
                 /\ cmd.op # "diagnostic" ->
                 Judge(<<Acknowledged>>)
            [] OTHER -> Judge(<<>>)
  /\ Untouched
  /\ UNCHANGED <<cmd, answer, late, check>>

\* The action took the web server down: its redirect is not followed.
SkipAnswer ==
  /\ pc = "answered" /\ answer = "redirect" /\ cmd.drops
  /\ Judge(<<>>)
  /\ Untouched
  /\ UNCHANGED <<cmd, sent, answer, obs, late, check>>

AnswerUnread ==
  /\ pc = "answered" /\ answer = "redirect" /\ ~cmd.drops
  /\ UNCHANGED sent
  /\ \E fault \in ReadFaults : Fails(fault)
  /\ Untouched
  /\ UNCHANGED <<cmd, answer, obs, late, check>>

-----------------------------------------------------------------------------
(* The wait for "Changes saved" (_wait_for_save)                           *)

Told(o) ==
  [StepOf(sent, "failed") EXCEPT
     !.performed = IF o.saved THEN "yes"
                   ELSE IF o.noChange THEN "no" ELSE "unknown",
     !.acked = o.saved]

Waited(o) ==
  LET matched == ~cmd.known \/ o.state = "yes"
      told == Told(o)
      gone == \/ cmd.route = "move"
              \/ cmd.route = "mask" /\ o.fault = "connection"
  IN CASE o.refused -> [told EXCEPT !.refusal = TRUE]
       [] ~o.refused /\ o.saved /\ matched ->
            [told EXCEPT !.status = "applied", !.moved = (cmd.route = "move")]
       [] ~o.refused /\ o.noChange /\ ~o.saved ->
            [told EXCEPT !.status = IF matched THEN "unchanged" ELSE "failed"]
       [] ~o.refused /\ ~(o.saved /\ matched) /\ ~(o.noChange /\ ~o.saved) ->
            [told EXCEPT
               !.status = IF gone THEN "reconnect-required" ELSE "failed",
               !.fault = IF o.fault = "none" /\ o.saved /\ o.unreadable /\ ~gone
                         THEN "unread" ELSE o.fault]

\* The wait's step; what coordination failed is raised with its evidence.
WaitEnds(o) ==
  /\ obs' = o
  /\ IF o.fault \in Coordination
     THEN /\ Finish(Raised(sent, o.saved))
          /\ UNCHANGED saved
     ELSE Judge(<<Waited(o)>>)

Settled(o) == \/ o.refused
              \/ o.saved /\ (~cmd.known \/ o.state = "yes")
              \/ o.noChange /\ ~o.saved

Polling == pc \in {"look", "wait"}

Seen(readable, seen) ==
  [saved |-> obs.saved \/ seen = "saved",
   noChange |-> obs.noChange \/ seen = "no change",
   refused |-> seen = "refused",
   state |-> IF seen = "refused" THEN obs.state
             ELSE IF ~cmd.known \/ ~readable THEN "unknown"
             ELSE IF live = "asked" THEN "yes" ELSE "no",
   unreadable |-> cmd.known /\ ~readable,
   fault |-> "none"]

\* One look at a page, the answer's own body first.
Look ==
  /\ Polling /\ (pc = "wait" => cmd.route # "move" /\ ~late)
  /\ UNCHANGED sent
  /\ \E readable \in BOOLEAN, seen \in {"none", notice} :
       LET o == Seen(readable, seen)
       IN IF Settled(o) THEN WaitEnds(o)
          ELSE obs' = o /\ pc' = "wait" /\ UNCHANGED <<saved, result>>
  /\ Untouched
  /\ UNCHANGED <<cmd, answer, late, check>>

\* A transient status is polled again; so is a lost connection, unless the
\* save may have cut it.
PollFails ==
  /\ Polling /\ cmd.route # "move" /\ ~late
  /\ UNCHANGED sent
  /\ \E fault \in ReadFaults :
       LET o == [obs EXCEPT !.fault = fault]
       IN \/ /\ fault = "connection" => cmd.route \in Lan
             /\ WaitEnds(o)
          \/ /\ (fault = "http") \/ (fault = "connection" /\ cmd.route \notin Lan)
             /\ obs' = o /\ pc' = "wait"
             /\ UNCHANGED <<saved, result>>
  /\ Untouched
  /\ UNCHANGED <<cmd, answer, late, check>>

WaitOver ==
  /\ pc = "wait" /\ (late \/ cmd.route = "move")
  /\ UNCHANGED sent
  /\ WaitEnds(obs)
  /\ Untouched
  /\ UNCHANGED <<cmd, answer, late, check>>

TimePasses ==
  /\ Polling /\ ~late
  /\ late' = TRUE
  /\ Untouched
  /\ UNCHANGED <<cmd, pc, sent, answer, obs, saved, check, result>>

-----------------------------------------------------------------------------
(* What is made of the step (_report_save, _run_action, _run_diagnostic)   *)

\* _acknowledged_write_as_applied, which the Wi-Fi path has no need of.
Taken(r) ==
  IF /\ cmd.route # "wifi"
     /\ r.status = "failed" /\ r.acked /\ r.performed = "yes"
     /\ ~r.moved /\ ~r.refusal
  THEN [r EXCEPT !.status = "applied"] ELSE r

Reread(r) == r.status = "failed" /\ Taken(r).status = "applied"

\* A POST that was answered without a step is an applied write.
Plainly == [StepOf(sent, "applied") EXCEPT !.performed = "unknown"]
TheStep == IF saved = <<>> THEN Plainly ELSE Taken(saved[1])

\* Mutant of NeedsRead: what the gateway acknowledged is not read again.
NeedsReadUnlessSaved ==
  /\ cmd.op \in {"set", "submit"}
  /\ \/ saved = <<>> /\ cmd.op = "set"
     \/ (saved # <<>> /\ ObservedNoChange(TheStep) /\ cmd.asks)

\* _save_verification
NeedsRead ==
  /\ cmd.op \in {"set", "submit"}
  /\ \/ /\ TheStep.status = "applied" /\ ~TheStep.moved
        /\ (cmd.op = "set") \/ (saved # <<>> /\ Reread(saved[1]))
     \/ /\ saved # <<>> /\ ObservedNoChange(TheStep)
        /\ cmd.asks

\* The reservations the wait saw in the table need no reading.
SeenInTable == cmd.route = "saved" /\ cmd.known /\ obs.state = "yes"

Opened == cmd.opener /\ saved = <<>>

StartRead ==
  /\ pc = "judge" /\ NeedsRead /\ ~Opened
  /\ UNCHANGED sent
  /\ \/ pc' = "read" /\ UNCHANGED check
     \/ /\ SeenInTable
        /\ check' = [check EXCEPT !.verified = "yes"] /\ pc' = "decide"
  /\ Untouched
  /\ UNCHANGED <<cmd, answer, obs, late, saved, result>>

NoRead ==
  /\ pc = "judge" /\ cmd.op # "diagnostic" /\ (~NeedsRead \/ Opened)
  /\ pc' = "decide"
  /\ Untouched
  /\ UNCHANGED <<cmd, sent, answer, obs, late, saved, check, result>>

\* An action asks for nothing, and what did not apply failed.
Verdicts ==
  LET v == Decide(TheStep, check.verified, check.failed, cmd.asks) IN
  CASE Opened -> Verdict(0, "opened", FALSE)
    [] ~Opened /\ cmd.op = "action" /\ v.exit # 0 ->
         Verdict(IF TheStep.refusal THEN 1 ELSE 2, "failed", FALSE)
    [] OTHER -> v

Conclude ==
  /\ pc = "decide"
  /\ UNCHANGED sent
  /\ Finish(Reported(Verdicts, sent))
  /\ Untouched
  /\ UNCHANGED <<cmd, answer, obs, late, saved, check>>

-----------------------------------------------------------------------------
(* A diagnostic's result is polled until its window holds still            *)

DiagnosticFailed ==
  /\ pc = "judge" /\ cmd.op = "diagnostic" /\ saved # <<>>
  /\ Finish(Reported(Verdict(IF saved[1].refusal THEN 1 ELSE 2, "failed", FALSE),
                     sent))
  /\ Untouched
  /\ UNCHANGED <<cmd, sent, answer, obs, late, saved, check>>

\* The run was started: a result that does not appear in time is no failure, one
\* that cannot be read is no answer.
DiagnosticRan ==
  /\ pc = "judge" /\ cmd.op = "diagnostic" /\ saved = <<>>
  /\ \/ Finish(Reported(Verdict(0, "applied", TRUE), sent))
     \/ \E fault \in ReadFaults :
          Finish(IF fault \in Coordination THEN Raised(sent, FALSE)
                 ELSE Reported(Verdict(2, "applied", TRUE), sent))
  /\ Untouched
  /\ UNCHANGED <<cmd, sent, answer, obs, late, saved, check>>

-----------------------------------------------------------------------------
(* The verification read (_verification_read)                              *)

Attempt == check.reads + 1
Reading == pc = "read" /\ check.reads < Reads

\* Mutant of NotYet: a page that is no form costs no attempt.
NotYetFree(relogin) ==
  /\ check' = [check EXCEPT !.relogin = relogin] /\ pc' = "read"

\* The attempt taught nothing; it is made again, if one is left.
NotYet(relogin) ==
  /\ check' = [check EXCEPT !.reads = Attempt, !.relogin = relogin,
                            !.failed = (Attempt = Reads)]
  /\ pc' = IF Attempt = Reads THEN "decide" ELSE "read"

ReadIsFinal ==
  /\ check' = [check EXCEPT !.reads = Attempt, !.failed = TRUE]
  /\ pc' = "decide"

\* Mutant of LoginRefused: a refused login is tried again.
LoginRefusedRetried == NotYet(TRUE)

LoginRefused == ReadIsFinal

ReadRest == UNCHANGED <<cmd, sent, answer, obs, late, saved>>

\* The read, after a forced login when the session was found lost.
ReadAgain ==
  /\ Reading
  /\ check' = [check EXCEPT !.reads = Attempt, !.relogin = FALSE,
               !.verified = IF live = "asked" THEN "yes" ELSE "no"]
  /\ pc' = "decide"
  /\ Untouched /\ ReadRest /\ UNCHANGED result

\* No form, a transient status, a lost connection, on the read or on its login.
ReadTransient ==
  /\ Reading
  /\ NotYet(FALSE)
  /\ Untouched /\ ReadRest /\ UNCHANGED result

ReadFinal ==
  /\ Reading
  /\ ReadIsFinal
  /\ Untouched /\ ReadRest /\ UNCHANGED result

\* The session was lost and the client did not log in itself.
ReadLost ==
  /\ Reading
  /\ NotYet(TRUE)
  /\ Untouched /\ ReadRest /\ UNCHANGED result

\* The forced login is refused, or the client's own login during the read.
ReadRefused ==
  /\ Reading
  /\ LoginRefused
  /\ history' = [history EXCEPT !.refusals = @ + 1]
  /\ ReadRest /\ UNCHANGED <<gateway, result>>

ReadPoolFull ==
  /\ Reading
  /\ Finish(RaisedLater)
  /\ Untouched /\ ReadRest /\ UNCHANGED check

-----------------------------------------------------------------------------

Client ==
  \/ Refuse \/ DryRunAction \/ ReadForm
  \/ WriteUnsent \/ WriteUnanswered \/ WriteTurnedAway \/ WriteErrored
  \/ WriteAccepted \/ WriteWarned \/ ReadWarning
  \/ ReadAnswer \/ SkipAnswer \/ AnswerUnread
  \/ Look \/ PollFails \/ WaitOver
  \/ StartRead \/ NoRead \/ Conclude \/ DiagnosticFailed \/ DiagnosticRan
  \/ ReadAgain \/ ReadTransient \/ ReadFinal \/ ReadLost \/ ReadRefused
  \/ ReadPoolFull

Next == Client \/ TimePasses \/ GatewayWorks

Spec == Init /\ [][Next]_vars
FairSpec == Spec /\ WF_vars(Client) /\ WF_vars(TimePasses)

-----------------------------------------------------------------------------
(* Properties                                                              *)

\* The one contract of every save path (the table of save_result): the exit code
\* and the outcome are a function of what was observed, whatever the route.
Contract ==
  LET waits == saved # <<>> /\ saved[1].status = "reconnect-required"
      accepted == (saved = <<>> \/ obs.saved) /\ ~waits
  IN CASE obs.refused -> <<1, "failed">>
       [] ~obs.refused /\ accepted ->
            (CASE check.verified = "yes" -> <<0, "applied">>
               [] check.verified = "no"  -> <<1, "applied">>
               [] check.failed           -> <<2, "applied">>
               [] OTHER                  -> <<0, "applied">>)
       [] ~obs.refused /\ ~accepted /\ obs.noChange /\ ~waits ->
            (CASE check.verified = "yes" -> <<0, "unchanged">>
               [] check.verified = "no"  -> <<1, "failed">>
               [] OTHER -> IF cmd.asks THEN <<2, "failed">> ELSE <<0, "unchanged">>)
       [] OTHER -> <<2, IF waits THEN "reconnect-required" ELSE "failed">>

KeepsContract ==
  result.kind = "reported" /\ cmd.op \in {"set", "submit"} /\ ~Opened
    => <<result.exit, result.outcome>> = Contract

\* What is reported is so, and by the one contract.  A set that ends with 0 has left the form as asked
\* (a LAN move apart, which cannot be read back); an unchanged one and a
\* definite failure have saved nothing; what was acknowledged was saved; and
\* what is said not to have been sent never reached the gateway, raised errors
\* included (_step_write_evidence, presend_write_evidence).
ExitIsHonest ==
  pc = "done" =>
    /\ KeepsContract
    /\ result.kind = "reported" /\ result.exit = 0 /\ cmd.op = "set"
         /\ ~TheStep.moved => live = "asked"
    /\ result.outcome = "unchanged" => ~history.performed
    /\ result.exit = 1 /\ result.outcome # "applied" => ~history.performed
    /\ result.committed => history.received /\ (obs.saved => history.performed)
    /\ ~result.attempted => ~history.received
    /\ result.exit = 1 /\ result.outcome = "applied" => live # "asked"

\* The inductive invariant behind these, in six parts.  The types, with one login
\* at most that is refused.
WriteTypeOK ==
  /\ cmd \in Commands
  /\ pc \in Stages
  /\ sent \in Sendings
  /\ answer \in {"none", "inline", "redirect"}
  /\ obs \in Evidence /\ late \in BOOLEAN
  /\ saved \in Seq(Report) /\ Len(saved) <= 1
  /\ check \in Checks
  /\ live \in {"old", "asked", "other"} /\ job \in BOOLEAN
  /\ notice \in {"none", "saved", "refused", "no change"}
  /\ history \in Histories

\* A write is answered only if it was sent, received only if it was sent, performed
\* only if it was received, and never sent without --commit and its token.
SentKnown ==
  /\ sent.answered => sent.attempted
  /\ sent.attempted => cmd.leave = "granted"
  /\ history.performed \/ job \/ notice # "none" => history.received
  /\ history.received => sent.attempted
  /\ pc = "start" => sent = NothingSent
  /\ pc = "post" => sent = NothingSent
  /\ pc \in {"warning", "continue", "answered", "look", "wait"}
       => sent = Answered /\ history.received
  /\ pc \notin {"start", "done"} => cmd.leave = "granted"

\* The gateway is given the write once: while it works nothing was performed, and
\* what it says afterwards is the last word on it.
GatewayKnown ==
  /\ job => notice = "none" /\ ~history.performed
  /\ pc \in {"start", "post", "warning", "continue"}
       => ~job /\ notice = "none" /\ ~history.performed
  /\ notice = "saved" => history.performed
  /\ notice \in {"refused", "no change"} => ~history.performed

\* What was observed is what the gateway says.
ObservedKnown ==
  /\ obs.saved => notice = "saved"
  /\ obs.noChange => notice = "no change"
  /\ obs.refused => notice \in {"refused", "no change"}
  /\ obs.state = "yes" /\ (obs.saved \/ obs.noChange) => live = "asked"
  /\ pc \in {"start", "post", "warning", "continue", "answered", "look"}
       => obs = NothingSeen

\* What the step r claims is what was observed.
StepKnown(r) ==
  /\ r.refusal <=> obs.refused
  /\ r.attempted <=> sent.attempted
  /\ r.acked <=> obs.saved
  /\ r.performed = "yes" <=> obs.saved
  /\ r.performed = "no" <=> ~obs.saved /\ (obs.noChange \/ ~sent.attempted)
  /\ r.status \in {"applied", "unchanged", "failed", "reconnect-required"}
  /\ r.status = "applied" => obs.saved
  /\ r.status = "unchanged" => obs.noChange /\ ~obs.saved
  /\ r.status = "reconnect-required" => r.performed # "no"
  /\ r.refusal \/ ~sent.attempted => r.status = "failed"
  /\ r.moved => r.status = "applied"
  /\ obs.saved /\ r.status = "failed" /\ ~r.refusal => cmd.route # "wifi"

\* A write without a step is one that was accepted, of a page without a Save.
SavedKnown ==
  /\ pc \notin {"judge", "read", "decide", "done"} => saved = <<>>
  /\ pc = "answered" => cmd.route = "plain"
  /\ saved # <<>> => StepKnown(saved[1])
  /\ pc \in {"judge", "read", "decide"} /\ saved = <<>>
       => cmd.route = "plain" /\ history.received /\ ~obs.refused

\* The verification read has the last word on what the form holds, a login that was
\* refused is the command's last, and the result is for the end.
CheckKnown ==
  /\ check.failed => check.verified = "none"
  /\ pc \notin {"read", "decide", "done"} => check = NoCheck
  /\ check.verified # "none" \/ history.refusals = 1 => pc \in {"decide", "done"}
  /\ check.verified = "yes" => live = "asked"
  /\ check.verified = "no" => live # "asked"
  /\ pc = "read" => check.reads < Reads /\ ~check.failed /\ NeedsRead /\ ~Opened
  /\ pc = "decide" => /\ cmd.op # "diagnostic"
                      /\ check.verified = "none" /\ ~check.failed => ~NeedsRead \/ Opened
  /\ pc # "done" => result = NoResult

WriteInv ==
  /\ WriteTypeOK
  /\ SentKnown /\ GatewayKnown /\ ObservedKnown /\ SavedKnown /\ CheckKnown

\* Every command ends, whatever the gateway answers and whatever the reads meet.
WriteEnds == <>(pc = "done")
=============================================================================
