-------------------------- MODULE WriteCommandProofs --------------------------
(***************************************************************************)
(* What holds of WriteCommand for every command and any number of           *)
(* verification reads: WriteInv ties the step a command judges to what the  *)
(* gateway said, and what it said to what it did, so that the report, one  *)
(* function of that step (TheStepFields, DecideFields), says what happened. *)
(* ExitIsHonest is proved beside it, one lemma per way to go on or to end.  *)
(***************************************************************************)
EXTENDS WriteCommand, TLAPS

\* The step of an answer, before anything is made of it.
LEMMA StepOfFields ==
  ASSUME NEW ev \in Sendings, NEW status \in StepStatuses
  PROVE  LET r == StepOf(ev, status) IN
         /\ r \in Report /\ r.status = status
         /\ r.attempted = ev.attempted /\ r.performed = "unknown"
         /\ ~r.acked /\ ~r.refusal /\ ~r.moved
BY DEF StepOf, Sendings, Report, Faults

\* A failed write claims "not performed" only when it was not sent.
LEMMA FailedStepFields ==
  ASSUME NEW ev \in Sendings, NEW fault \in Faults
  PROVE  LET r == FailedStep(ev, fault) IN
         /\ r \in Report /\ r.status \in {"failed", "reconnect-required"}
         /\ r.status = "reconnect-required" => ev.attempted
         /\ r.attempted = ev.attempted
         /\ r.performed = IF ev.attempted THEN "unknown" ELSE "no"
         /\ ~r.acked /\ ~r.refusal /\ ~r.moved
<1> DEFINE status == IF /\ cmd.route \in Lan /\ fault = "connection"
                        /\ ev.attempted
                     THEN "reconnect-required" ELSE "failed"
           performed == IF ev.attempted THEN "unknown" ELSE "no"
           failed(st, p) == [StepOf(ev, st) EXCEPT !.fault = fault,
                                                   !.performed = p]
<1>1. FailedStep(ev, fault) = failed(status, performed)
  BY DEF FailedStep
<1>2. /\ status \in {"failed", "reconnect-required"}
      /\ status = "reconnect-required" => ev.attempted
      /\ performed \in {"unknown", "no"}
  OBVIOUS
<1>3. ASSUME NEW st \in {"failed", "reconnect-required"},
             NEW p \in {"unknown", "no"}
      PROVE  LET r == failed(st, p) IN
             /\ r \in Report /\ r.status = st /\ r.performed = p
             /\ r.attempted = ev.attempted
             /\ ~r.acked /\ ~r.refusal /\ ~r.moved
  <2>1. st \in StepStatuses
    BY DEF StepStatuses
  <2>2. LET r == StepOf(ev, st) IN
        /\ r \in Report /\ r.status = st /\ r.attempted = ev.attempted
        /\ ~r.acked /\ ~r.refusal /\ ~r.moved
    BY <2>1, StepOfFields
  <2>q. QED
    BY <2>2 DEF Report
<1> HIDE DEF status, performed, failed
<1>4. LET r == failed(status, performed) IN
      /\ r \in Report /\ r.status = status /\ r.performed = performed
      /\ r.attempted = ev.attempted
      /\ ~r.acked /\ ~r.refusal /\ ~r.moved
  BY <1>2, <1>3
<1>q. QED
  BY <1>1, <1>2, <1>4 DEF performed

\* What the wait says of the save itself, before its status is chosen.
LEMMA ToldFields ==
  ASSUME sent \in Sendings, NEW o \in Evidence
  PROVE  LET r == Told(o) IN
         /\ r \in Report /\ r.status = "failed"
         /\ r.attempted = sent.attempted
         /\ r.performed = "yes" <=> o.saved
         /\ r.performed = "no" <=> o.noChange /\ ~o.saved
         /\ r.acked = o.saved
         /\ ~r.refusal /\ ~r.moved
<1> DEFINE told(p, a) == [StepOf(sent, "failed") EXCEPT !.performed = p,
                                                        !.acked = a]
           performed == IF o.saved THEN "yes"
                        ELSE IF o.noChange THEN "no" ELSE "unknown"
<1>1. o.saved \in BOOLEAN /\ performed \in {"yes", "no", "unknown"}
  BY DEF Evidence
<1>2. /\ performed = "yes" <=> o.saved
      /\ performed = "no" <=> o.noChange /\ ~o.saved
  OBVIOUS
<1>3. Told(o) = told(performed, o.saved)
  BY DEF Told
<1>4. ASSUME NEW p \in {"yes", "no", "unknown"}, NEW a \in BOOLEAN
      PROVE  LET r == told(p, a) IN
             /\ r \in Report /\ r.status = "failed" /\ r.performed = p
             /\ r.attempted = sent.attempted /\ r.acked = a
             /\ ~r.refusal /\ ~r.moved
  <2>1. "failed" \in StepStatuses
    BY DEF StepStatuses
  <2>2. LET r == StepOf(sent, "failed") IN
        /\ r \in Report /\ r.status = "failed"
        /\ r.attempted = sent.attempted
        /\ ~r.acked /\ ~r.refusal /\ ~r.moved
    BY <2>1, StepOfFields
  <2>q. QED
    BY <2>2 DEF Report
<1> HIDE DEF told, performed
<1>5. LET r == told(performed, o.saved) IN
      /\ r \in Report /\ r.status = "failed" /\ r.performed = performed
      /\ r.attempted = sent.attempted /\ r.acked = o.saved
      /\ ~r.refusal /\ ~r.moved
  BY <1>1, <1>4
<1>q. QED
  BY <1>2, <1>3, <1>5

\* The step a wait ends with claims what was observed and no more
\* (_save_outcome).
LEMMA WaitedFields ==
  ASSUME cmd \in Commands, sent \in Sendings, NEW o \in Evidence
  PROVE  LET r == Waited(o) IN
         /\ r \in Report
         /\ r.refusal <=> o.refused
         /\ r.attempted = sent.attempted
         /\ r.acked = o.saved
         /\ r.performed = "yes" <=> o.saved
         /\ r.performed = "no" <=> o.noChange /\ ~o.saved
         /\ r.status \in {"applied", "unchanged", "failed",
                          "reconnect-required"}
         /\ r.status = "applied" => o.saved
         /\ r.status = "unchanged" => o.noChange /\ ~o.saved
         /\ r.status = "reconnect-required" => r.performed # "no"
         /\ r.refusal => r.status = "failed"
         /\ r.moved => r.status = "applied"
         /\ o.saved /\ r.status = "failed" /\ ~r.refusal
              => cmd.route # "wifi"
<1> DEFINE t == Told(o)
           matched == ~cmd.known \/ o.state = "yes"
           declined == o.noChange /\ ~o.saved
           gone == \/ cmd.route = "move"
                   \/ cmd.route = "mask" /\ o.fault = "connection"
<1>1. /\ t \in Report /\ t.status = "failed"
      /\ t.attempted = sent.attempted
      /\ t.performed = "yes" <=> o.saved
      /\ t.performed = "no" <=> declined
      /\ t.acked = o.saved
      /\ ~t.refusal /\ ~t.moved
  BY ToldFields
<1>2. /\ o.fault \in Faults /\ o.refused \in BOOLEAN /\ o.saved \in BOOLEAN
      /\ o.noChange \in BOOLEAN
  BY DEF Evidence
<1>3. cmd.route = "wifi" => matched
  BY DEF Commands, Lan
<1>4. CASE o.refused
  <2>1. Waited(o) = [t EXCEPT !.refusal = TRUE]
    BY <1>4 DEF Waited
  <2> HIDE DEF t, gone, matched
  <2>q. QED
    BY <1>1, <1>4, <2>1 DEF Report
<1>5. CASE ~o.refused /\ o.saved /\ matched
  <2>1. Waited(o) = [t EXCEPT !.status = "applied",
                              !.moved = (cmd.route = "move")]
    BY <1>5 DEF Waited
  <2> HIDE DEF t, gone, matched
  <2>q. QED
    BY <1>1, <1>5, <2>1 DEF Report, StepStatuses
<1>6. CASE ~o.refused /\ declined
  <2> DEFINE st == IF matched THEN "unchanged" ELSE "failed"
  <2>1. Waited(o) = [t EXCEPT !.status = st]
    BY <1>6 DEF Waited
  <2>2. st \in {"unchanged", "failed"}
    OBVIOUS
  <2> HIDE DEF t, gone, matched, st
  <2>q. QED
    BY <1>1, <1>6, <2>1, <2>2 DEF Report, StepStatuses
<1>7. CASE ~o.refused /\ ~(o.saved /\ matched) /\ ~declined
  <2> DEFINE st == IF gone THEN "reconnect-required" ELSE "failed"
             fault == IF o.fault = "none" /\ o.saved /\ o.unreadable /\ ~gone
                      THEN "unread" ELSE o.fault
             r(s, f) == [t EXCEPT !.status = s, !.fault = f]
  <2>1. Waited(o) = r(st, fault)
    BY <1>7 DEF Waited
  <2>2. st \in {"reconnect-required", "failed"} /\ fault \in Faults
    BY <1>2 DEF Faults
  <2>3. ASSUME NEW s \in {"reconnect-required", "failed"}, NEW f \in Faults
        PROVE  /\ r(s, f) \in Report /\ r(s, f).status = s
               /\ r(s, f).attempted = t.attempted
               /\ r(s, f).performed = t.performed
               /\ r(s, f).acked = t.acked
               /\ ~r(s, f).refusal /\ ~r(s, f).moved
    <3> HIDE DEF t
    <3>q. QED
      BY <1>1 DEF Report, StepStatuses
  <2> HIDE DEF r, st, fault
  <2>4. LET w == r(st, fault) IN
        /\ w \in Report /\ w.status = st /\ w.attempted = t.attempted
        /\ w.performed = t.performed /\ w.acked = t.acked
        /\ ~w.refusal /\ ~w.moved
    BY <2>2, <2>3
  <2> HIDE DEF t, gone, matched
  <2>q. QED
    BY <1>1, <1>3, <1>7, <2>1, <2>2, <2>4
<1>q. QED
  BY <1>4, <1>5, <1>6, <1>7

\* The types of what the transport and the gateway know.
GatewayTypes ==
  /\ sent \in Sendings
  /\ live \in {"old", "asked", "other"} /\ job \in BOOLEAN
  /\ notice \in {"none", "saved", "refused", "no change"}
  /\ history \in Histories

\* The two ways a write reaches the gateway: it works on it, or it asks for
\* Continue.
LEMMA ReceiveFields ==
  ASSUME WriteInv, pc \in {"post", "continue"}, Receive \/ Hold
  PROVE  /\ live' = live /\ notice' = "none"
         /\ history' \in Histories
         /\ history'.received /\ ~history'.performed
         /\ history'.refusals = history.refusals
         /\ Receive => job' = TRUE
         /\ Hold => job' = FALSE
BY DEF WriteInv, WriteTypeOK, GatewayKnown, Receive, Hold, gateway, Histories

\* A result that is not a report claims the transport's evidence and no more.
LEMMA UnreportedIsHonest ==
  ASSUME WriteInv', result'.kind # "reported", result'.outcome = "none",
         result'.exit = 1 => ~history'.performed,
         result'.committed => history'.received,
         ~result'.attempted => ~history'.received
  PROVE  ExitIsHonest'
BY DEF ExitIsHonest, KeepsContract, WriteInv, ObservedKnown, GatewayKnown

\* A write fails, and its failure is made a step or raised with its evidence
\* (_write_failure_step, _raise_if_coordination_failure).
LEMMA FailsStep ==
  ASSUME WriteInv, pc \in {"post", "warning", "continue", "answered"},
         NEW fault \in Faults, Fails(fault),
         UNCHANGED <<cmd, answer, obs, late, check>>,
         GatewayTypes', SentKnown', GatewayKnown',
         history'.refusals = history.refusals
  PROVE  WriteInv' /\ ExitIsHonest'
<1>1. /\ saved = <<>> /\ obs = NothingSeen /\ check = NoCheck
      /\ history.refusals # 1 /\ result = NoResult
  BY DEF WriteInv, SavedKnown, ObservedKnown, CheckKnown
<1>2. /\ cmd' \in Commands /\ answer' \in {"none", "inline", "redirect"}
      /\ obs' \in Evidence /\ late' \in BOOLEAN
      /\ check' \in Checks
  BY DEF WriteInv, WriteTypeOK
<1>3. ObservedKnown'
  BY <1>1 DEF ObservedKnown, NothingSeen
<1>4. CASE fault \in {"session", "pool"}
  <2>1. /\ result' = Raised(sent', FALSE) /\ pc' = "done" /\ saved' = <<>>
    BY <1>1, <1>4 DEF Fails, Finish
  <2>2. WriteTypeOK'
    <3>1. saved' \in Seq(Report) /\ Len(saved') <= 1
      BY <2>1
    <3>2. pc' \in {"judge", "done"}
      BY <2>1
    <3>q. QED
      BY <1>2, <3>1, <3>2 DEF WriteTypeOK, GatewayTypes, Stages
  <2>3. SavedKnown' /\ CheckKnown'
    BY <1>1, <2>1 DEF SavedKnown, CheckKnown, NoCheck
  <2>4. WriteInv'
    BY <1>3, <2>2, <2>3 DEF WriteInv
  <2>q. QED
    BY <2>1, <2>4, UnreportedIsHonest DEF Raised, SentKnown
<1>5. CASE fault \notin {"session", "pool"}
  <2> DEFINE r == FailedStep(sent', fault)
  <2>1. saved' = <<r>> /\ pc' = "judge" /\ result' = NoResult
    BY <1>1, <1>5 DEF Fails
  <2>2. /\ r \in Report /\ r.status \in {"failed", "reconnect-required"}
        /\ r.status = "reconnect-required" => sent'.attempted
        /\ r.attempted = sent'.attempted
        /\ r.performed = IF sent'.attempted THEN "unknown" ELSE "no"
        /\ ~r.acked /\ ~r.refusal /\ ~r.moved
    <3>1. sent' \in Sendings
      BY DEF GatewayTypes
    <3>q. QED
      BY <3>1, FailedStepFields
  <2> HIDE DEF r
  <2>3. saved' \in Seq(Report) /\ Len(saved') = 1 /\ saved'[1] = r
    BY <2>1, <2>2
  <2>4. WriteTypeOK'
    <3>1. saved' \in Seq(Report) /\ Len(saved') <= 1
      BY <2>3
    <3>2. pc' \in {"judge", "done"}
      BY <2>1
    <3>q. QED
      BY <1>2, <3>1, <3>2 DEF WriteTypeOK, GatewayTypes, Stages
  <2>5. StepKnown(saved[1])'
    BY <1>1, <2>2, <2>3 DEF StepKnown, NothingSeen
  <2>6. SavedKnown' /\ CheckKnown'
    BY <1>1, <2>1, <2>3, <2>5 DEF SavedKnown, CheckKnown, NoCheck
  <2>7. WriteInv'
    BY <1>3, <2>4, <2>6 DEF WriteInv
  <2>q. QED
    BY <2>1, <2>7 DEF ExitIsHonest
<1>q. QED
  BY <1>4, <1>5

\* What a failing write may have done to the gateway by then.
LEMMA SendingStep ==
  ASSUME WriteInv, pc \in {"post", "warning", "continue"},
         pc' \in {"judge", "done"}, cmd' = cmd,
         \/ Untouched /\ sent' \in {sent, Answered}
         \/ /\ pc # "warning" /\ (Receive \/ Hold)
            /\ sent' \in {Answered, [Answered EXCEPT !.answered = FALSE]}
         \/ /\ pc # "warning" /\ Untouched
            /\ sent' = [Answered EXCEPT !.answered = FALSE]
  PROVE  /\ GatewayTypes' /\ SentKnown' /\ GatewayKnown'
         /\ history'.refusals = history.refusals
<1>1. cmd.leave = "granted"
  BY DEF WriteInv, SentKnown
<1> DEFINE Cut == [Answered EXCEPT !.answered = FALSE]
<1>0. /\ Answered \in Sendings /\ Answered.attempted
      /\ Cut \in Sendings /\ Cut.attempted /\ ~Cut.answered
      /\ NothingSent \in Sendings /\ ~NothingSent.answered
  BY DEF Answered, NothingSent, Sendings
<1>2. /\ sent \in {NothingSent, Answered}
      /\ history.received => sent.attempted
      /\ ~job /\ notice = "none" /\ ~history.performed
      /\ live \in {"old", "asked", "other"} /\ job \in BOOLEAN
      /\ history \in Histories
  BY DEF WriteInv, WriteTypeOK, SentKnown, GatewayKnown
<1>3. \/ Untouched /\ sent' \in {sent, Answered, Cut}
      \/ /\ pc # "warning" /\ (Receive \/ Hold)
         /\ sent' \in {Answered, Cut}
  OBVIOUS
<1> HIDE DEF Cut
<1>4. CASE Untouched /\ sent' \in {sent, Answered, Cut}
  <2>1. /\ sent' \in Sendings
        /\ sent'.answered => sent'.attempted
        /\ history.received => sent'.attempted
    BY <1>0, <1>2, <1>4
  <2>2. UNCHANGED <<live, job, notice, history>>
    BY <1>4 DEF Untouched, gateway
  <2>3. GatewayTypes'
    BY <1>2, <2>1, <2>2 DEF GatewayTypes
  <2>4. SentKnown'
    BY <1>1, <1>2, <2>1, <2>2 DEF SentKnown
  <2>5. GatewayKnown'
    BY <1>2, <2>2 DEF GatewayKnown
  <2>q. QED
    BY <2>2, <2>3, <2>4, <2>5
<1>5. CASE /\ pc # "warning" /\ (Receive \/ Hold)
           /\ sent' \in {Answered, Cut}
  <2>1. /\ live' = live /\ notice' = "none" /\ job' \in BOOLEAN
        /\ history' \in Histories
        /\ history'.received /\ ~history'.performed
        /\ history'.refusals = history.refusals
    BY <1>5, ReceiveFields
  <2>2. sent' \in Sendings /\ sent'.attempted
    BY <1>0, <1>5
  <2>q. QED
    BY <1>1, <1>2, <2>1, <2>2 DEF GatewayTypes, SentKnown, GatewayKnown
<1>q. QED
  BY <1>3, <1>4, <1>5

\* The failures of a write, of the reading of its warning or of its redirect.
LEMMA WriteFails ==
  ASSUME WriteInv,
         \/ WriteUnsent \/ WriteUnanswered \/ WriteTurnedAway
         \/ WriteErrored \/ AnswerUnread
         \/ pc' # "continue" /\ ReadWarning
  PROVE  WriteInv' /\ ExitIsHonest'
<1> DEFINE Cut == [Answered EXCEPT !.answered = FALSE]
<1>1. PICK fault \in Faults : Fails(fault)
  BY DEF WriteUnsent, WriteUnanswered, WriteTurnedAway, WriteErrored,
         AnswerUnread, ReadWarning, PostFaults, ReadFaults, Faults
<1>2. UNCHANGED <<cmd, answer, obs, late, check>>
  BY DEF WriteUnsent, WriteUnanswered, WriteTurnedAway, WriteErrored,
         AnswerUnread, ReadWarning
<1>3. pc' \in {"judge", "done"}
  BY <1>1 DEF Fails, Finish
<1>4. CASE AnswerUnread
  <2>1. /\ pc = "answered" /\ sent' = sent
        /\ UNCHANGED <<live, job, notice, history>>
    BY <1>4 DEF AnswerUnread, Untouched, gateway
  <2>2. GatewayTypes' /\ SentKnown' /\ GatewayKnown'
    BY <1>2, <1>3, <2>1
       DEF WriteInv, WriteTypeOK, Sendings, GatewayTypes, SentKnown,
           GatewayKnown
  <2>q. QED
    BY <1>1, <1>2, <2>1, <2>2, FailsStep
<1>5. CASE ~AnswerUnread
  <2>1. pc \in {"post", "warning", "continue"}
    BY <1>5
       DEF WriteUnsent, WriteUnanswered, WriteTurnedAway, WriteErrored,
           ReadWarning, Writing
  <2>2. \/ Untouched /\ sent' \in {sent, Answered}
        \/ /\ pc # "warning" /\ (Receive \/ Hold)
           /\ sent' \in {Answered, Cut}
        \/ pc # "warning" /\ Untouched /\ sent' = Cut
    BY <1>5
       DEF WriteUnsent, WriteUnanswered, WriteTurnedAway, WriteErrored,
           ReadWarning, Writing, PerhapsReceive
  <2>3. /\ GatewayTypes' /\ SentKnown' /\ GatewayKnown'
        /\ history'.refusals = history.refusals
    BY <1>2, <1>3, <2>1, <2>2, SendingStep
  <2>q. QED
    BY <1>1, <1>2, <2>1, <2>3, FailsStep
<1>q. QED
  BY <1>4, <1>5

\* The command goes on to its next stage, and nothing else has changed.
LEMMA GoesOn ==
  ASSUME WriteInv, Untouched, pc' \in {"post", "continue"},
         \/ pc = "start" /\ pc' = "post" /\ cmd.leave = "granted"
         \/ pc = "warning" /\ pc' = "continue",
         UNCHANGED <<cmd, sent, answer, obs, late, saved, check, result>>
  PROVE  WriteInv'
<1>1. UNCHANGED <<live, job, notice, history>>
  BY DEF Untouched, gateway
<1>2. WriteTypeOK'
  BY <1>1 DEF WriteInv, WriteTypeOK, Stages
<1>3. SentKnown' /\ GatewayKnown' /\ ObservedKnown'
  BY <1>1 DEF WriteInv, SentKnown, GatewayKnown, ObservedKnown
<1>4. SavedKnown' /\ CheckKnown'
  BY <1>1 DEF WriteInv, SavedKnown, CheckKnown
<1>q. QED
  BY <1>2, <1>3, <1>4 DEF WriteInv

\* A command that ends before it has sent anything.
LEMMA EndsUnsent ==
  ASSUME WriteInv, pc = "start", Untouched,
         UNCHANGED <<cmd, sent, answer, obs, late, saved, check>>,
         NEW r, Finish(r),
         r.kind # "reported", r.outcome = "none", ~r.committed
  PROVE  WriteInv' /\ ExitIsHonest'
<1>1. UNCHANGED <<live, job, notice, history>>
  BY DEF Untouched, gateway
<1>2. pc' = "done" /\ result' = r
  BY DEF Finish
<1>3. WriteTypeOK'
  BY <1>1, <1>2 DEF WriteInv, WriteTypeOK, Stages
<1>4. SentKnown' /\ GatewayKnown' /\ ObservedKnown'
  BY <1>1, <1>2 DEF WriteInv, SentKnown, GatewayKnown, ObservedKnown
<1>5. SavedKnown' /\ CheckKnown'
  BY <1>1, <1>2 DEF WriteInv, SavedKnown, CheckKnown
<1>6. WriteInv'
  BY <1>3, <1>4, <1>5 DEF WriteInv
<1>7. ~history'.received /\ ~history'.performed
  BY <1>1 DEF WriteInv, SentKnown, GatewayKnown, NothingSent
<1>q. QED
  BY <1>2, <1>6, <1>7, UnreportedIsHonest

\* What comes before the write.
LEMMA BeforeWrite ==
  ASSUME WriteInv, Refuse \/ DryRunAction \/ ReadForm
  PROVE  WriteInv' /\ ExitIsHonest'
<1> DEFINE Early == {Short("usage", 1), Short("dry run", 0),
                     Short("failed read", 2), Raised(NothingSent, FALSE)}
<1>1. /\ pc = "start" /\ Untouched
      /\ UNCHANGED <<cmd, sent, answer, obs, late, saved, check>>
  BY DEF Refuse, DryRunAction, ReadForm
<1>2. \/ \E r \in Early : Finish(r)
      \/ cmd.leave = "granted" /\ pc' = "post" /\ UNCHANGED result
  <2>1. CASE Refuse \/ DryRunAction
    BY <2>1 DEF Refuse, DryRunAction
  <2>2. CASE ReadForm
    <3>1. \/ \E fault \in ReadFaults \cup {"unread"} :
               Finish(IF fault \in Coordination THEN Raised(NothingSent, FALSE)
                      ELSE Short("failed read", 2))
          \/ Finish(Short("usage", 1))
          \/ Finish(Short("dry run", 0))
          \/ cmd.leave = "granted" /\ pc' = "post" /\ UNCHANGED result
      BY <2>2 DEF ReadForm
    <3>2. \A fault : (IF fault \in Coordination THEN Raised(NothingSent, FALSE)
                      ELSE Short("failed read", 2)) \in Early
      OBVIOUS
    <3> HIDE DEF Early
    <3>3. Short("usage", 1) \in Early /\ Short("dry run", 0) \in Early
      BY DEF Early
    <3>q. QED
      BY <3>1, <3>2, <3>3
  <2>q. QED
    BY <2>1, <2>2
<1>3. ASSUME NEW r \in Early
      PROVE  r.kind # "reported" /\ r.outcome = "none" /\ ~r.committed
  <2>1. ASSUME NEW kind, NEW code
        PROVE  LET x == Short(kind, code) IN
               x.kind = kind /\ x.outcome = "none" /\ ~x.committed
    BY DEF Short, NoResult
  <2>2. LET x == Raised(NothingSent, FALSE) IN
        x.kind = "raised" /\ x.outcome = "none" /\ ~x.committed
    BY DEF Raised
  <2>3. CASE r = Raised(NothingSent, FALSE)
    BY <2>2, <2>3
  <2>4. CASE r = Short("usage", 1)
    BY <2>1, <2>4
  <2>5. CASE r = Short("dry run", 0)
    BY <2>1, <2>5
  <2>6. CASE r = Short("failed read", 2)
    BY <2>1, <2>6
  <2>q. QED
    BY <2>3, <2>4, <2>5, <2>6
<1> HIDE DEF Early
<1>4. CASE cmd.leave = "granted" /\ pc' = "post" /\ UNCHANGED result
  <2>1. WriteInv'
    BY <1>1, <1>4, GoesOn
  <2>q. QED
    BY <1>4, <2>1 DEF ExitIsHonest
<1>5. CASE \E r \in Early : Finish(r)
  BY <1>1, <1>3, <1>5, EndsUnsent
<1>q. QED
  BY <1>2, <1>4, <1>5

\* The gateway takes the write.
LEMMA WriteTaken ==
  ASSUME WriteInv, WriteAccepted \/ WriteWarned
  PROVE  WriteInv' /\ ExitIsHonest'
<1>1. /\ pc \in {"post", "continue"} /\ sent' = Answered
      /\ pc' \in {"answered", "look", "warning"}
      /\ answer' \in {"none", "inline", "redirect"}
      /\ Receive \/ Hold
      /\ UNCHANGED <<cmd, obs, late, saved, check, result>>
  BY DEF WriteAccepted, WriteWarned, WriteInv, WriteTypeOK, Writing
<1>2. /\ live' = live /\ notice' = "none" /\ job' \in BOOLEAN
      /\ history' \in Histories
      /\ history'.received /\ ~history'.performed
      /\ history'.refusals = history.refusals
      /\ pc' = "warning" => ~job'
  BY <1>1, ReceiveFields DEF WriteAccepted, WriteWarned
<1>3. WriteTypeOK'
  <2>1. Answered \in Sendings
    BY DEF Answered, Sendings
  <2>q. QED
    BY <1>1, <1>2, <2>1 DEF WriteInv, WriteTypeOK, Stages
<1>4. SentKnown'
  <2>1. cmd.leave = "granted" /\ Answered.attempted
    BY <1>1 DEF WriteInv, SentKnown, Answered
  <2>q. QED
    BY <1>1, <1>2, <2>1 DEF SentKnown
<1>5. GatewayKnown' /\ ObservedKnown'
  BY <1>1, <1>2 DEF WriteInv, GatewayKnown, ObservedKnown, NothingSeen
<1>6. SavedKnown' /\ CheckKnown'
  BY <1>1, <1>2
     DEF WriteInv, SavedKnown, CheckKnown, NoCheck, WriteAccepted, WriteWarned
<1>q. QED
  BY <1>1, <1>3, <1>4, <1>5, <1>6 DEF WriteInv, ExitIsHonest

\* What the answer and the wait leave as they are when a step is judged or the
\* wait goes on.
Kept == UNCHANGED <<cmd, sent, answer, late, check, live, job, notice, history>>

\* The wait, or the answer of a page without a Save, makes its step.
LEMMA JudgeStep ==
  ASSUME WriteInv, pc \in {"answered", "look", "wait"}, Kept,
         obs' \in Evidence, ObservedKnown',
         NEW step, Judge(step),
         \/ step = <<>> /\ cmd.route = "plain" /\ ~obs'.refused
         \/ \E r \in Report : step = <<r>> /\ StepKnown(r)'
  PROVE  WriteInv' /\ ExitIsHonest'
<1>1. /\ saved' = step /\ pc' = "judge" /\ result' = result
      /\ UNCHANGED <<cmd, sent, answer, late, check, live, job, notice,
                     history>>
  BY DEF Judge, Kept
<1>2. WriteTypeOK'
  <2>1. saved' \in Seq(Report) /\ Len(saved') <= 1
    <3>1. CASE step = <<>>
      BY <1>1, <3>1
    <3>2. CASE \E r \in Report : step = <<r>>
      BY <1>1, <3>2
    <3>q. QED
      BY <3>1, <3>2
  <2>q. QED
    BY <1>1, <2>1 DEF WriteInv, WriteTypeOK, Stages
<1>3. SentKnown' /\ GatewayKnown'
  BY <1>1 DEF WriteInv, SentKnown, GatewayKnown
<1>4. SavedKnown'
  <2>1. history.received
    BY DEF WriteInv, SentKnown
  <2>2. CASE step = <<>> /\ cmd.route = "plain" /\ ~obs'.refused
    BY <1>1, <2>1, <2>2 DEF SavedKnown
  <2>3. CASE \E r \in Report : step = <<r>> /\ StepKnown(r)'
    <3>1. PICK r \in Report : step = <<r>> /\ StepKnown(r)'
      BY <2>3
    <3>2. saved' # <<>> /\ saved'[1] = r
      BY <1>1, <3>1
    <3>3. StepKnown(saved[1])'
      BY <3>1, <3>2 DEF StepKnown
    <3>q. QED
      BY <1>1, <3>2, <3>3 DEF SavedKnown
  <2>q. QED
    BY <2>2, <2>3
<1>5. CheckKnown'
  BY <1>1 DEF WriteInv, CheckKnown, NoCheck
<1>q. QED
  BY <1>1, <1>2, <1>3, <1>4, <1>5 DEF WriteInv, ExitIsHonest

\* The steps a page without a Save can make (_answer_step).
LEMMA AnswerStepFields ==
  ASSUME sent = Answered
  PROVE  /\ LET r == RefusedStep IN
            /\ r \in Report /\ r.status = "failed" /\ r.refusal
            /\ r.attempted /\ r.performed = "unknown" /\ ~r.acked /\ ~r.moved
         /\ LET r == Declined IN
            /\ r \in Report /\ r.status = "unchanged" /\ ~r.refusal
            /\ r.attempted /\ r.performed = "no" /\ ~r.acked /\ ~r.moved
         /\ LET r == Acknowledged IN
            /\ r \in Report /\ r.status = "applied" /\ ~r.refusal
            /\ r.attempted /\ r.performed = "yes" /\ r.acked /\ ~r.moved
<1>1. ASSUME NEW status \in {"failed", "unchanged", "applied"}
      PROVE  LET r == StepOf(sent, status) IN
             /\ r \in Report /\ r.status = status /\ r.attempted
             /\ r.performed = "unknown"
             /\ ~r.acked /\ ~r.refusal /\ ~r.moved
  <2>1. sent \in Sendings /\ sent.attempted
    BY DEF Answered, Sendings
  <2>2. status \in StepStatuses
    BY DEF StepStatuses
  <2>q. QED
    BY <2>1, <2>2, StepOfFields
<1>2. LET r == RefusedStep IN
      /\ r \in Report /\ r.status = "failed" /\ r.refusal
      /\ r.attempted /\ r.performed = "unknown" /\ ~r.acked /\ ~r.moved
  BY <1>1 DEF RefusedStep, Report
<1>3. LET r == Declined IN
      /\ r \in Report /\ r.status = "unchanged" /\ ~r.refusal
      /\ r.attempted /\ r.performed = "no" /\ ~r.acked /\ ~r.moved
  BY <1>1 DEF Declined, Report
<1>4. LET r == Acknowledged IN
      /\ r \in Report /\ r.status = "applied" /\ ~r.refusal
      /\ r.attempted /\ r.performed = "yes" /\ r.acked /\ ~r.moved
  BY <1>1 DEF Acknowledged, Report
<1>q. QED
  BY <1>2, <1>3, <1>4

\* A page without a Save answers the write itself.
LEMMA AnswerStep ==
  ASSUME WriteInv, ReadAnswer \/ SkipAnswer
  PROVE  WriteInv' /\ ExitIsHonest'
<1>1. /\ pc = "answered" /\ sent = Answered /\ obs = NothingSeen /\ Kept
      /\ cmd.route = "plain" /\ sent'.attempted
  BY DEF ReadAnswer, SkipAnswer, Untouched, gateway, Kept, WriteInv,
         SentKnown, ObservedKnown, SavedKnown, Answered
<1>2. CASE SkipAnswer
  <2>1. obs' = obs /\ Judge(<<>>)
    BY <1>2 DEF SkipAnswer
  <2>2. obs' \in Evidence /\ ~obs'.refused /\ ObservedKnown'
    BY <1>1, <2>1 DEF NothingSeen, Evidence, Faults, ObservedKnown
  <2>q. QED
    BY <1>1, <2>1, <2>2, JudgeStep
<1>3. CASE ReadAnswer
  <2>1. PICK seen \in {"none", notice} :
          /\ obs' = [obs EXCEPT
                       !.refused = Refusal(seen),
                       !.noChange = (seen = "no change") /\ ~Refusal(seen),
                       !.saved = (seen = "saved") /\ answer = "inline"]
          /\ CASE Refusal(seen) -> Judge(<<RefusedStep>>)
               [] ~Refusal(seen) /\ seen = "no change"
                  /\ cmd.op # "diagnostic" -> Judge(<<Declined>>)
               [] ~Refusal(seen) /\ seen = "saved" /\ answer = "inline"
                  /\ cmd.op # "diagnostic" -> Judge(<<Acknowledged>>)
               [] OTHER -> Judge(<<>>)
    BY <1>3 DEF ReadAnswer
  <2> DEFINE saying(a, b, c) == [obs EXCEPT !.refused = a, !.noChange = b,
                                            !.saved = c]
             a == Refusal(seen)
             b == (seen = "no change") /\ ~Refusal(seen)
             c == (seen = "saved") /\ answer = "inline"
  <2>2. a \in BOOLEAN /\ b \in BOOLEAN /\ c \in BOOLEAN
    BY DEF Refusal
  <2>3. ASSUME NEW x \in BOOLEAN, NEW y \in BOOLEAN, NEW z \in BOOLEAN
        PROVE  LET o == saying(x, y, z) IN
               /\ o \in Evidence /\ o.refused = x /\ o.noChange = y
               /\ o.saved = z /\ o.state = "unknown"
    BY <1>1 DEF NothingSeen, Evidence, Faults
  <2>4. obs' = saying(a, b, c)
    BY <2>1
  <2>5. /\ a => seen \in {"refused", "no change"}
        /\ b <=> seen = "no change" /\ ~a
        /\ c <=> seen = "saved" /\ answer = "inline"
    BY DEF Refusal
  <2>6. \/ a /\ Judge(<<RefusedStep>>)
        \/ b /\ Judge(<<Declined>>)
        \/ c /\ ~a /\ Judge(<<Acknowledged>>)
        \/ ~a /\ Judge(<<>>)
    BY <2>1
  <2> HIDE DEF saying, a, b, c
  <2>7. /\ obs' \in Evidence /\ obs'.refused = a /\ obs'.noChange = b
        /\ obs'.saved = c /\ obs'.state = "unknown"
    BY <2>2, <2>3, <2>4
  <2>8. ObservedKnown'
    BY <1>1, <2>5, <2>6, <2>7 DEF ObservedKnown, Judge, Kept
  <2>9. ASSUME NEW r, r \in Report, Judge(<<r>>), StepKnown(r)'
        PROVE  WriteInv' /\ ExitIsHonest'
    BY <1>1, <2>7, <2>8, <2>9, JudgeStep
  <2>10. /\ a => ~b /\ ~c
         /\ b => ~a /\ ~c
         /\ c => ~b
    BY <2>5
  <2>11. CASE a /\ Judge(<<RefusedStep>>)
    <3>1. ASSUME NEW r, r = RefusedStep
          PROVE  r \in Report /\ StepKnown(r)'
      <4>1. /\ r \in Report /\ r.status = "failed" /\ r.refusal
            /\ r.attempted /\ r.performed = "unknown" /\ ~r.acked /\ ~r.moved
        BY <1>1, <3>1, AnswerStepFields
      <4>q. QED
        BY <1>1, <2>7, <2>10, <2>11, <4>1 DEF StepKnown
    <3>q. QED
      BY <2>9, <2>11, <3>1
  <2>12. CASE b /\ Judge(<<Declined>>)
    <3>1. ASSUME NEW r, r = Declined
          PROVE  r \in Report /\ StepKnown(r)'
      <4>1. /\ r \in Report /\ r.status = "unchanged" /\ ~r.refusal
            /\ r.attempted /\ r.performed = "no" /\ ~r.acked /\ ~r.moved
        BY <1>1, <3>1, AnswerStepFields
      <4>q. QED
        BY <1>1, <2>7, <2>10, <2>12, <4>1 DEF StepKnown
    <3>q. QED
      BY <2>9, <2>12, <3>1
  <2>13. CASE c /\ ~a /\ Judge(<<Acknowledged>>)
    <3>1. ASSUME NEW r, r = Acknowledged
          PROVE  r \in Report /\ StepKnown(r)'
      <4>1. /\ r \in Report /\ r.status = "applied" /\ ~r.refusal
            /\ r.attempted /\ r.performed = "yes" /\ r.acked /\ ~r.moved
        BY <1>1, <3>1, AnswerStepFields
      <4>q. QED
        BY <1>1, <2>7, <2>10, <2>13, <4>1 DEF StepKnown
    <3>q. QED
      BY <2>9, <2>13, <3>1
  <2>14. CASE ~a /\ Judge(<<>>)
    BY <1>1, <2>7, <2>8, <2>14, JudgeStep
  <2>q. QED
    BY <2>6, <2>11, <2>12, <2>13, <2>14
<1>q. QED
  BY <1>2, <1>3

\* The wait ends, with a step or with an error that keeps its evidence.
LEMMA WaitEndsStep ==
  ASSUME WriteInv, pc \in {"look", "wait"}, Kept,
         NEW o \in Evidence, WaitEnds(o), ObservedKnown'
  PROVE  WriteInv' /\ ExitIsHonest'
<1>1. /\ sent = Answered /\ history.received /\ saved = <<>>
      /\ sent'.attempted /\ check = NoCheck /\ history.refusals # 1
      /\ cmd \in Commands /\ sent \in Sendings
  BY DEF WriteInv, WriteTypeOK, SentKnown, SavedKnown, CheckKnown, Kept,
         Answered
<1>2. obs' = o
  BY DEF WaitEnds
<1>3. CASE o.fault \in Coordination
  <2>1. result' = Raised(sent, o.saved) /\ pc' = "done" /\ saved' = saved
    BY <1>3 DEF WaitEnds, Finish
  <2>2. WriteTypeOK'
    BY <1>2, <2>1 DEF Kept, WriteInv, WriteTypeOK, Stages
  <2>3. SentKnown' /\ GatewayKnown'
    BY <2>1 DEF Kept, WriteInv, SentKnown, GatewayKnown
  <2>4. SavedKnown' /\ CheckKnown'
    BY <1>1, <2>1 DEF Kept, SavedKnown, CheckKnown, NoCheck
  <2>5. WriteInv'
    BY <2>2, <2>3, <2>4 DEF WriteInv
  <2>6. /\ history'.received /\ sent.attempted
        /\ result'.kind # "reported" /\ result'.outcome = "none"
        /\ result'.exit = 2 /\ result'.attempted
    BY <1>1, <2>1 DEF Kept, Raised
  <2>q. QED
    BY <2>5, <2>6, UnreportedIsHonest
<1>4. CASE o.fault \notin Coordination
  <2>1. Judge(<<Waited(o)>>)
    BY <1>4 DEF WaitEnds
  <2>2. ASSUME NEW r, r = Waited(o)
        PROVE  r \in Report /\ StepKnown(r)'
    <3>1. /\ r \in Report
          /\ r.refusal <=> o.refused
          /\ r.attempted = sent.attempted
          /\ r.acked = o.saved
          /\ r.performed = "yes" <=> o.saved
          /\ r.performed = "no" <=> o.noChange /\ ~o.saved
          /\ r.status \in {"applied", "unchanged", "failed",
                           "reconnect-required"}
          /\ r.status = "applied" => o.saved
          /\ r.status = "unchanged" => o.noChange /\ ~o.saved
          /\ r.status = "reconnect-required" => r.performed # "no"
          /\ r.refusal => r.status = "failed"
          /\ r.moved => r.status = "applied"
          /\ o.saved /\ r.status = "failed" /\ ~r.refusal
               => cmd.route # "wifi"
      BY <1>1, <2>2, WaitedFields
    <3>q. QED
      BY <1>1, <1>2, <3>1 DEF StepKnown, Kept
  <2>q. QED
    BY <1>2, <2>1, <2>2, JudgeStep
<1>q. QED
  BY <1>3, <1>4

\* A look or a poll is noted and the wait goes on.
LEMMA WaitGoesOn ==
  ASSUME WriteInv, pc \in {"look", "wait"}, Kept,
         NEW o \in Evidence, obs' = o, pc' = "wait",
         UNCHANGED <<saved, result>>, ObservedKnown'
  PROVE  WriteInv' /\ ExitIsHonest'
<1>1. WriteTypeOK'
  BY DEF Kept, WriteInv, WriteTypeOK, Stages
<1>2. SentKnown' /\ GatewayKnown'
  BY DEF Kept, WriteInv, SentKnown, GatewayKnown
<1>3. SavedKnown' /\ CheckKnown'
  BY DEF Kept, WriteInv, SavedKnown, CheckKnown
<1>q. QED
  BY <1>1, <1>2, <1>3 DEF WriteInv, ExitIsHonest

\* A look adds only what the page says.
LEMMA SeenFields ==
  ASSUME obs \in Evidence, NEW readable \in BOOLEAN, NEW seen
  PROVE  LET o == Seen(readable, seen) IN
         /\ o \in Evidence
         /\ o.saved => obs.saved \/ seen = "saved"
         /\ o.noChange => obs.noChange \/ seen = "no change"
         /\ o.refused => seen = "refused"
         /\ o.state = "yes" => seen = "refused" \/ live = "asked"
<1>1. obs.state \in {"yes", "no", "unknown"}
  BY DEF Evidence
<1>q. QED
  BY <1>1 DEF Seen, Evidence, Faults

\* The wait for the page to say what became of the save (_wait_for_save).
LEMMA WaitStep ==
  ASSUME WriteInv, Look \/ PollFails \/ WaitOver
  PROVE  WriteInv' /\ ExitIsHonest'
<1>1. pc \in {"look", "wait"} /\ Kept /\ obs \in Evidence
  BY DEF Look, PollFails, WaitOver, Polling, Untouched, gateway, Kept,
         WriteInv, WriteTypeOK
<1>2. CASE Look
  <2>1. PICK readable \in BOOLEAN, seen \in {"none", notice} :
          \/ WaitEnds(Seen(readable, seen))
          \/ /\ obs' = Seen(readable, seen) /\ pc' = "wait"
             /\ UNCHANGED <<saved, result>>
    BY <1>2 DEF Look
  <2>2. ASSUME NEW o, o = Seen(readable, seen)
        PROVE  /\ o \in Evidence
               /\ o.saved => obs.saved \/ seen = "saved"
               /\ o.noChange => obs.noChange \/ seen = "no change"
               /\ o.refused => seen = "refused"
               /\ o.state = "yes" => seen = "refused" \/ live = "asked"
    BY <1>1, <2>2, SeenFields
  <2>3. ASSUME NEW o, o = Seen(readable, seen),
               obs' = o, pc' \in {"judge", "done", "wait"}
        PROVE  ObservedKnown'
    BY <1>1, <2>2, <2>3 DEF ObservedKnown, WriteInv, Kept
  <2>4. CASE WaitEnds(Seen(readable, seen))
    <3>1. ASSUME NEW o, o = Seen(readable, seen)
          PROVE  WriteInv' /\ ExitIsHonest'
      <4>1. obs' = o /\ pc' \in {"judge", "done"} /\ WaitEnds(o)
        BY <2>4, <3>1 DEF WaitEnds, Finish, Judge
      <4>q. QED
        BY <1>1, <2>2, <2>3, <3>1, <4>1, WaitEndsStep
    <3>q. QED
      BY <3>1
  <2>5. CASE /\ obs' = Seen(readable, seen) /\ pc' = "wait"
             /\ UNCHANGED <<saved, result>>
    BY <1>1, <2>2, <2>3, <2>5, WaitGoesOn
  <2>q. QED
    BY <2>1, <2>4, <2>5
<1>3. CASE PollFails
  <2>1. PICK fault \in ReadFaults :
          LET o == [obs EXCEPT !.fault = fault]
          IN \/ /\ fault = "connection" => cmd.route \in Lan
                /\ WaitEnds(o)
             \/ /\ \/ fault = "http"
                   \/ fault = "connection" /\ cmd.route \notin Lan
                /\ obs' = o /\ pc' = "wait"
                /\ UNCHANGED <<saved, result>>
    BY <1>3 DEF PollFails
  <2>2. fault \in Faults
    BY DEF ReadFaults, Faults
  <2>3. ASSUME NEW o, o = [obs EXCEPT !.fault = fault]
        PROVE  WriteInv' /\ ExitIsHonest'
    <3>1. /\ o \in Evidence /\ o.saved = obs.saved /\ o.refused = obs.refused
          /\ o.noChange = obs.noChange /\ o.state = obs.state
      BY <1>1, <2>2, <2>3 DEF Evidence
    <3>2. \/ WaitEnds(o)
          \/ obs' = o /\ pc' = "wait" /\ UNCHANGED <<saved, result>>
      BY <2>1, <2>3
    <3>3. obs' = o /\ pc' \in {"judge", "done", "wait"}
      BY <3>2 DEF WaitEnds, Finish, Judge
    <3>4. ObservedKnown'
      BY <1>1, <3>1, <3>3 DEF ObservedKnown, WriteInv, Kept
    <3>q. QED
      BY <1>1, <3>1, <3>2, <3>4, WaitEndsStep, WaitGoesOn
  <2>q. QED
    BY <2>3
<1>4. CASE WaitOver
  <2>1. WaitEnds(obs) /\ pc = "wait"
    BY <1>4 DEF WaitOver
  <2>2. obs' = obs /\ pc' \in {"judge", "done"}
    BY <2>1 DEF WaitEnds, Finish, Judge
  <2>3. ObservedKnown'
    BY <1>1, <2>2 DEF ObservedKnown, WriteInv, Kept
  <2>q. QED
    BY <1>1, <2>1, <2>3, WaitEndsStep
<1>q. QED
  BY <1>2, <1>3, <1>4

\* Time passes.
LEMMA TimeStep ==
  ASSUME WriteInv, TimePasses
  PROVE  WriteInv' /\ ExitIsHonest'
<1>1. /\ UNCHANGED <<cmd, pc, sent, answer, obs, saved, check, result>>
      /\ UNCHANGED <<live, job, notice, history>>
      /\ late' = TRUE /\ pc \in {"look", "wait"}
  BY DEF TimePasses, Untouched, gateway, Polling
<1>2. WriteTypeOK'
  BY <1>1 DEF WriteInv, WriteTypeOK
<1>3. SentKnown' /\ GatewayKnown' /\ ObservedKnown'
  BY <1>1 DEF WriteInv, SentKnown, GatewayKnown, ObservedKnown
<1>4. SavedKnown' /\ CheckKnown'
  <2>1. saved = <<>> /\ check = NoCheck
    BY <1>1 DEF WriteInv, SavedKnown, CheckKnown
  <2>q. QED
    BY <1>1, <2>1 DEF WriteInv, SavedKnown, CheckKnown
<1>q. QED
  BY <1>1, <1>2, <1>3, <1>4 DEF WriteInv, ExitIsHonest

\* The gateway ends its work: what it then says has not been said before, and
\* what was observed so far, or made a step, claims nothing of it.
LEMMA GatewayStep ==
  ASSUME WriteInv, GatewayWorks
  PROVE  WriteInv' /\ ExitIsHonest'
<1>1. /\ UNCHANGED <<cmd, pc, sent, answer, obs, late, saved, check, result>>
      /\ pc \notin {"decide", "done"} /\ job /\ job' = FALSE
      /\ live' \in {live, "asked", "other"}
      /\ notice' \in {"none", "saved", "refused", "no change"}
  BY DEF GatewayWorks, GatewayPerforms, GatewayDeclines, own
<1>2. /\ history' \in Histories /\ history'.received = history.received
      /\ history'.refusals = history.refusals
      /\ notice' = "saved" => history'.performed
      /\ notice' \in {"refused", "no change"} => ~history'.performed
  BY DEF GatewayWorks, GatewayPerforms, GatewayDeclines, Histories, WriteInv,
         WriteTypeOK, GatewayKnown
<1>3. /\ history.received /\ notice = "none"
      /\ ~obs.saved /\ ~obs.noChange /\ ~obs.refused
      /\ pc \notin {"start", "post", "warning", "continue"}
  BY <1>1 DEF WriteInv, SentKnown, GatewayKnown, ObservedKnown
<1>4. WriteTypeOK'
  BY <1>1, <1>2 DEF WriteInv, WriteTypeOK
<1>5. SentKnown' /\ GatewayKnown'
  BY <1>1, <1>2, <1>3 DEF WriteInv, SentKnown, GatewayKnown
<1>6. ObservedKnown'
  BY <1>1, <1>3 DEF WriteInv, ObservedKnown
<1>7. SavedKnown'
  <2>1. saved # <<>> => StepKnown(saved[1])'
    BY <1>1 DEF WriteInv, SavedKnown, StepKnown
  <2>q. QED
    BY <1>1, <1>2, <2>1 DEF WriteInv, SavedKnown
<1>8. CheckKnown'
  <2>1. check.verified = "none"
    BY <1>1 DEF WriteInv, WriteTypeOK, Checks, CheckKnown
  <2>2. pc = "read" => (NeedsRead /\ ~Opened)'
    BY <1>1
       DEF WriteInv, CheckKnown, NeedsRead, Opened, TheStep, Plainly, StepOf,
           Taken, Reread, ObservedNoChange
  <2>q. QED
    BY <1>1, <1>2, <2>1, <2>2 DEF WriteInv, CheckKnown
<1>q. QED
  BY <1>1, <1>4, <1>5, <1>6, <1>7, <1>8 DEF WriteInv, ExitIsHonest

\* What a command makes of its step depends on the command, the transport's
\* evidence and the step.
LEMMA SameStep ==
  ASSUME UNCHANGED <<cmd, sent, saved>>
  PROVE  /\ TheStep' = TheStep
         /\ NeedsRead' <=> NeedsRead
         /\ Opened' <=> Opened
BY DEF NeedsRead, Opened, TheStep, Plainly, StepOf, Taken, Reread,
       ObservedNoChange

\* The two conditions of the contract, by name.
Waits == saved # <<>> /\ saved[1].status = "reconnect-required"
Accepted == (saved = <<>> \/ obs.saved) /\ ~Waits

\* What a command makes of its step is a function of what was observed: this
\* is what puts every route under the one contract.
LEMMA TheStepFields ==
  ASSUME WriteInv, pc \in {"judge", "read", "decide"}
  PROVE  LET t == TheStep IN
         /\ t.refusal <=> obs.refused
         /\ t.status = "applied" <=> Accepted /\ ~obs.refused
         /\ ObservedNoChange(t) /\ ~obs.refused
              <=> ~Accepted /\ ~obs.refused /\ ~Waits /\ obs.noChange
         /\ ~obs.refused /\ ~Accepted /\ ~obs.noChange /\ ~Waits
              => t.status = "failed"
         /\ ~obs.refused /\ Waits => t.status = "reconnect-required"
         /\ ~obs.refused /\ t.status = "unchanged" => ObservedNoChange(t)
         /\ ~obs.refused => t.status # "opened"
<1> DEFINE t == TheStep
<1>1. CASE saved = <<>>
  <2>1. /\ ~obs.refused /\ t = Plainly /\ ~Waits /\ Accepted
    BY <1>1 DEF WriteInv, SavedKnown, TheStep, Waits, Accepted
  <2>2. Plainly.status = "applied" /\ ~Plainly.refusal
        /\ Plainly.performed = "unknown"
    BY DEF Plainly, StepOf
  <2>q. QED
    BY <2>1, <2>2 DEF ObservedNoChange
<1>2. CASE saved # <<>>
  <2>1. /\ StepKnown(saved[1]) /\ saved[1] \in Report
        /\ TheStep = Taken(saved[1])
    <3>1. saved \in Seq(Report)
      BY DEF WriteInv, WriteTypeOK
    <3>2. saved[1] \in Report
      BY <1>2, <3>1
    <3>q. QED
      BY <1>2, <3>2 DEF WriteInv, SavedKnown, TheStep
  <2>2. ASSUME NEW r \in Report, r = saved[1], StepKnown(r)
        PROVE  LET x == Taken(r) IN
               /\ x.refusal <=> obs.refused
               /\ x.status = "applied" <=> Accepted /\ ~obs.refused
               /\ ObservedNoChange(x) /\ ~obs.refused
                    <=> ~Accepted /\ ~obs.refused /\ ~Waits /\ obs.noChange
               /\ ~obs.refused /\ ~Accepted /\ ~obs.noChange /\ ~Waits
                    => x.status = "failed"
               /\ ~obs.refused /\ Waits => x.status = "reconnect-required"
               /\ ~obs.refused /\ x.status = "unchanged" => ObservedNoChange(x)
               /\ ~obs.refused => x.status # "opened"
    <3>1. /\ Waits <=> r.status = "reconnect-required"
          /\ Accepted <=> obs.saved /\ ~Waits
      BY <1>2, <2>2 DEF Waits, Accepted
    <3>2. obs.noChange => ~obs.saved /\ sent.attempted
      BY DEF WriteInv, ObservedKnown, GatewayKnown, SentKnown
    <3>q. QED
      BY <2>2, <3>1, <3>2 DEF StepKnown, Taken, ObservedNoChange, Report
  <2>q. QED
    BY <2>1, <2>2
<1>q. QED
  BY <1>1, <1>2

\* What the verification read leaves as it is.
OnlyChecked == UNCHANGED <<cmd, sent, answer, obs, late, saved, live, job, notice>>

\* Between the step and the report only the verification read changes.
LEMMA CheckStep ==
  ASSUME WriteInv, pc \in {"judge", "read"}, pc' \in {"read", "decide"},
         OnlyChecked, result' = result, check' \in Checks,
         history' \in Histories, history'.received = history.received,
         history'.performed = history.performed,
         CheckKnown'
  PROVE  WriteInv' /\ ExitIsHonest'
<1>1. WriteTypeOK'
  BY DEF OnlyChecked, WriteInv, WriteTypeOK, Stages
<1>2. SentKnown' /\ GatewayKnown' /\ ObservedKnown'
  BY DEF OnlyChecked, WriteInv, SentKnown, GatewayKnown, ObservedKnown
<1>3. SavedKnown'
  BY DEF OnlyChecked, WriteInv, SavedKnown, StepKnown
<1>q. QED
  BY <1>1, <1>2, <1>3 DEF WriteInv, ExitIsHonest

\* Reservations seen in the table are there, and stay there: the gateway has
\* said its last word on the save.
LEMMA SeenIsThere ==
  ASSUME WriteInv, pc = "judge", NeedsRead, SeenInTable
  PROVE  live = "asked"
<1>1. saved # <<>> /\ StepKnown(saved[1]) /\ TheStep = Taken(saved[1])
  BY DEF WriteInv, SavedKnown, SeenInTable, TheStep
<1>2. \/ TheStep.status = "applied"
      \/ ObservedNoChange(TheStep)
  BY DEF NeedsRead
<1>3. obs.saved \/ obs.noChange
  <2>1. ASSUME NEW r, r = saved[1], StepKnown(r),
               Taken(r).status = "applied" \/ ObservedNoChange(Taken(r))
        PROVE  obs.saved \/ obs.noChange
    BY <2>1 DEF StepKnown, Taken, ObservedNoChange
  <2>q. QED
    BY <1>1, <1>2, <2>1
<1>q. QED
  BY <1>3 DEF WriteInv, ObservedKnown, SeenInTable

\* The verification read starts, or is not needed.
LEMMA JudgedStep ==
  ASSUME WriteInv, StartRead \/ NoRead
  PROVE  WriteInv' /\ ExitIsHonest'
<1>1. /\ pc = "judge" /\ check = NoCheck /\ OnlyChecked /\ result' = result
      /\ history' = history /\ history \in Histories /\ check \in Checks
      /\ history.refusals # 1 /\ pc' \in {"read", "decide"}
      /\ UNCHANGED <<cmd, sent, saved, live, history>>
      /\ result = NoResult
  BY DEF StartRead, NoRead, Untouched, gateway, OnlyChecked, WriteInv,
         WriteTypeOK, CheckKnown
<1>2. (NeedsRead' <=> NeedsRead) /\ (Opened' <=> Opened)
  BY <1>1, SameStep
<1>3. CASE NoRead
  <2>1. /\ pc' = "decide" /\ cmd.op # "diagnostic" /\ check' = check
        /\ ~NeedsRead \/ Opened
    BY <1>3 DEF NoRead
  <2>2. CheckKnown'
    BY <1>1, <1>2, <2>1 DEF CheckKnown, NoCheck
  <2>q. QED
    BY <1>1, <2>1, <2>2, CheckStep
<1>4. CASE StartRead
  <2>1. NeedsRead /\ ~Opened /\ cmd.op # "diagnostic"
    BY <1>4 DEF StartRead, NeedsRead
  <2>2. CASE pc' = "read" /\ check' = check
    <3>1. NoCheck.reads < Reads
      BY ReadsAssumption DEF NoCheck
    <3>2. CheckKnown'
      BY <1>1, <1>2, <2>1, <2>2, <3>1 DEF CheckKnown, NoCheck
    <3>q. QED
      BY <1>1, <2>2, <3>2, CheckStep
  <2>3. CASE /\ SeenInTable /\ pc' = "decide"
             /\ check' = [check EXCEPT !.verified = "yes"]
    <3>1. live = "asked"
      BY <1>1, <2>1, <2>3, SeenIsThere
    <3>2. /\ check' \in Checks /\ check'.verified = "yes" /\ ~check'.failed
      BY <1>1, <2>3 DEF Checks, NoCheck
    <3>3. CheckKnown'
      BY <1>1, <2>1, <2>3, <3>1, <3>2 DEF CheckKnown
    <3>q. QED
      BY <1>1, <2>3, <3>2, <3>3, CheckStep
  <2>q. QED
    BY <1>4, <2>2, <2>3 DEF StartRead
<1>q. QED
  BY <1>3, <1>4

\* An attempt that taught nothing: the next one, or none.
LEMMA CheckFields ==
  ASSUME check \in Checks, check.reads < Reads, check.verified = "none",
         NEW b \in BOOLEAN
  PROVE  /\ NotYet(b) => /\ check' \in Checks /\ check'.verified = "none"
                         /\ check'.failed <=> pc' = "decide"
                         /\ pc' \in {"read", "decide"}
                         /\ pc' = "read" => check'.reads < Reads
         /\ ReadIsFinal => /\ check' \in Checks /\ check'.verified = "none"
                           /\ check'.failed /\ pc' = "decide"
<1> DEFINE tried(n, l, f) == [check EXCEPT !.reads = n, !.relogin = l,
                                           !.failed = f]
           final(n) == [check EXCEPT !.reads = n, !.failed = TRUE]
<1>1. /\ Reads \in Nat /\ check.reads \in Nat /\ Attempt \in 0..Reads
      /\ Attempt # Reads => Attempt < Reads
  BY ReadsAssumption DEF Checks, Attempt
<1>2. ASSUME NEW n \in 0..Reads, NEW l \in BOOLEAN, NEW f \in BOOLEAN
      PROVE  LET c == tried(n, l, f) IN
             /\ c \in Checks /\ c.verified = "none" /\ c.failed = f
             /\ c.reads = n
  BY DEF Checks
<1>3. ASSUME NEW n \in 0..Reads
      PROVE  LET c == final(n) IN
             c \in Checks /\ c.verified = "none" /\ c.failed
  BY DEF Checks
<1>4. ASSUME NotYet(b)
      PROVE  /\ check' = tried(Attempt, b, Attempt = Reads)
             /\ pc' = IF Attempt = Reads THEN "decide" ELSE "read"
  BY <1>4 DEF NotYet
<1>5. ASSUME ReadIsFinal
      PROVE  check' = final(Attempt) /\ pc' = "decide"
  BY <1>5 DEF ReadIsFinal
<1> HIDE DEF tried, final
<1>6. LET c == tried(Attempt, b, Attempt = Reads) IN
      /\ c \in Checks /\ c.verified = "none" /\ c.failed = (Attempt = Reads)
      /\ c.reads = Attempt
  BY <1>1, <1>2
<1>7. LET c == final(Attempt) IN
      c \in Checks /\ c.verified = "none" /\ c.failed
  BY <1>1, <1>3
<1>q. QED
  BY <1>1, <1>4, <1>5, <1>6, <1>7

\* An attempt of the verification read (_verification_read).
LEMMA ReadStep ==
  ASSUME WriteInv,
         ReadAgain \/ ReadTransient \/ ReadFinal \/ ReadLost \/ ReadRefused
  PROVE  WriteInv' /\ ExitIsHonest'
<1>1. /\ pc = "read" /\ check.reads < Reads /\ OnlyChecked /\ result' = result
      /\ check \in Checks /\ check.verified = "none"
      /\ history \in Histories /\ history.refusals # 1
      /\ UNCHANGED <<cmd, sent, saved, live>> /\ cmd.op # "diagnostic"
      /\ NeedsRead /\ ~Opened /\ result = NoResult
  BY DEF ReadAgain, ReadTransient, ReadFinal, ReadLost, ReadRefused, Reading,
         ReadRest, Untouched, gateway, OnlyChecked, WriteInv, WriteTypeOK,
         CheckKnown, NeedsRead
<1>2. (NeedsRead' <=> NeedsRead) /\ (Opened' <=> Opened)
  BY <1>1, SameStep
<1>3. CASE ReadAgain
  <2> DEFINE told == IF live = "asked" THEN "yes" ELSE "no"
             read(n, v) == [check EXCEPT !.reads = n, !.relogin = FALSE,
                                         !.verified = v]
  <2>1. check' = read(Attempt, told) /\ pc' = "decide" /\ history' = history
    BY <1>3 DEF ReadAgain, Untouched
  <2>2. Attempt \in 0..Reads
    BY <1>1, ReadsAssumption DEF Checks, Attempt
  <2>3. ASSUME NEW n \in 0..Reads, NEW v \in {"yes", "no"}
        PROVE  LET c == read(n, v) IN
               c \in Checks /\ c.verified = v /\ c.failed = check.failed
    BY <1>1 DEF Checks
  <2>4. told \in {"yes", "no"} /\ (told = "yes" <=> live = "asked")
    OBVIOUS
  <2> HIDE DEF told, read
  <2>5. /\ check' \in Checks /\ check'.verified = told
        /\ check'.failed = check.failed
    BY <2>1, <2>2, <2>3, <2>4
  <2>6. ~check.failed
    BY <1>1 DEF WriteInv, CheckKnown
  <2>7. CheckKnown'
    BY <1>1, <2>1, <2>4, <2>5, <2>6 DEF CheckKnown
  <2>q. QED
    BY <1>1, <2>1, <2>5, <2>7, CheckStep
<1>4. CASE ReadTransient \/ ReadLost \/ ReadFinal
  <2>1. /\ history' = history
        /\ (\E b \in BOOLEAN : NotYet(b)) \/ ReadIsFinal
    BY <1>4 DEF ReadTransient, ReadLost, ReadFinal, Untouched
  <2>2. /\ check' \in Checks /\ check'.verified = "none"
        /\ pc' \in {"read", "decide"}
        /\ pc' = "read" => check'.reads < Reads /\ ~check'.failed
        /\ pc' = "decide" => check'.failed
    BY <1>1, <2>1, CheckFields
  <2>3. CheckKnown'
    BY <1>1, <1>2, <2>1, <2>2 DEF CheckKnown
  <2>q. QED
    BY <1>1, <2>1, <2>2, <2>3, CheckStep
<1>5. CASE ReadRefused
  <2>1. /\ history' = [history EXCEPT !.refusals = @ + 1]
        /\ ReadIsFinal
    BY <1>5 DEF ReadRefused, LoginRefused
  <2>2. /\ history' \in Histories /\ history'.received = history.received
        /\ history'.performed = history.performed
    BY <1>1, <2>1 DEF Histories
  <2>3. /\ check' \in Checks /\ check'.verified = "none" /\ check'.failed
        /\ pc' = "decide"
    BY <1>1, <2>1, CheckFields
  <2>4. CheckKnown'
    BY <1>1, <2>3 DEF CheckKnown
  <2>q. QED
    BY <1>1, <2>2, <2>3, <2>4, CheckStep
<1>q. QED
  BY <1>3, <1>4, <1>5

\* The command ends with a result, from a step or a read.
LEMMA EndStep ==
  ASSUME WriteInv, pc \in {"judge", "read", "decide"}, NEW r, Finish(r),
         UNCHANGED <<cmd, sent, answer, obs, late, saved, check>>, Untouched
  PROVE  /\ WriteInv' /\ result' = r /\ pc' = "done"
         /\ UNCHANGED <<live, history, notice>>
<1>1. /\ UNCHANGED <<live, job, notice, history>> /\ pc' = "done"
      /\ result' = r
  BY DEF Untouched, gateway, Finish
<1>2. WriteTypeOK'
  BY <1>1 DEF WriteInv, WriteTypeOK, Stages
<1>3. SentKnown' /\ GatewayKnown' /\ ObservedKnown'
  BY <1>1 DEF WriteInv, SentKnown, GatewayKnown, ObservedKnown
<1>4. SavedKnown' /\ CheckKnown'
  BY <1>1 DEF WriteInv, SavedKnown, StepKnown, CheckKnown
<1>q. QED
  BY <1>1, <1>2, <1>3, <1>4 DEF WriteInv

\* A full pool met by the verification read is raised with the write's
\* evidence.
LEMMA PoolFullStep ==
  ASSUME WriteInv, ReadPoolFull
  PROVE  WriteInv' /\ ExitIsHonest'
<1>1. /\ pc = "read" /\ Finish(RaisedLater) /\ Untouched
      /\ UNCHANGED <<cmd, sent, answer, obs, late, saved, check>>
  BY DEF ReadPoolFull, Reading, ReadRest
<1>2. /\ WriteInv' /\ result' = RaisedLater
      /\ UNCHANGED <<live, history, notice>>
  BY <1>1, EndStep
<1>3. LET r == RaisedLater IN
      /\ r.kind # "reported" /\ r.outcome = "none" /\ r.exit = 2
      /\ r.attempted = sent.attempted
      /\ r.committed => obs.saved
  BY DEF RaisedLater, Raised
<1>4. obs.saved \/ history.received => history.received /\ sent.attempted
  BY DEF WriteInv, SentKnown, ObservedKnown
<1>q. QED
  BY <1>2, <1>3, <1>4, UnreportedIsHonest

\* A report of an honest verdict is honest.
LEMMA ReportIsHonest ==
  ASSUME WriteInv, pc \in {"judge", "decide"},
         NEW v, Finish(Reported(v, sent)),
         UNCHANGED <<cmd, sent, answer, obs, late, saved, check>>, Untouched,
         cmd.op \in {"set", "submit"} /\ ~Opened
           => <<v.exit, v.outcome>> = Contract,
         v.exit = 0 /\ cmd.op = "set" /\ ~TheStep.moved => live = "asked",
         v.outcome = "unchanged" => ~history.performed,
         v.exit = 1 /\ v.outcome # "applied" => ~history.performed,
         v.committed => history.received,
         v.exit = 1 /\ v.outcome = "applied" => live # "asked"
  PROVE  WriteInv' /\ ExitIsHonest'
<1> DEFINE r == Reported(v, sent)
<1>1. /\ WriteInv' /\ result' = r /\ UNCHANGED <<live, history, notice>>
  BY EndStep
<1>2. /\ r.exit = v.exit /\ r.outcome = v.outcome
      /\ r.committed = v.committed /\ r.attempted = sent.attempted
  BY DEF Reported
<1>3. Contract' = Contract
  BY DEF Contract
<1>4. TheStep' = TheStep /\ (Opened' <=> Opened)
  BY SameStep
<1> HIDE DEF r
<1>5. KeepsContract'
  BY <1>1, <1>2, <1>3, <1>4 DEF KeepsContract
<1>6. /\ obs.saved => history.performed
      /\ history.received => sent.attempted
  BY DEF WriteInv, ObservedKnown, GatewayKnown, SentKnown
<1>q. QED
  BY <1>1, <1>2, <1>4, <1>5, <1>6 DEF ExitIsHonest

\* A diagnostic ends.
LEMMA DiagnosticStep ==
  ASSUME WriteInv, DiagnosticFailed \/ DiagnosticRan
  PROVE  WriteInv' /\ ExitIsHonest'
<1>1. /\ pc = "judge" /\ cmd.op = "diagnostic" /\ Untouched
      /\ UNCHANGED <<cmd, sent, answer, obs, late, saved, check>>
  BY DEF DiagnosticFailed, DiagnosticRan
<1>2. CASE DiagnosticFailed
  <2> DEFINE code == IF saved[1].refusal THEN 1 ELSE 2
  <2>1. Finish(Reported(Verdict(code, "failed", FALSE), sent))
    BY <1>2, Zenon DEF DiagnosticFailed
  <2>4. code \in {1, 2} /\ (code = 1 => saved[1].refusal)
    OBVIOUS
  <2> HIDE DEF code
  <2>2. code = 1 => ~history.performed
    <3>1. saved[1].refusal => obs.refused
      BY <1>2 DEF DiagnosticFailed, WriteInv, SavedKnown, StepKnown
    <3>q. QED
      BY <2>4, <3>1 DEF WriteInv, ObservedKnown, GatewayKnown
  <2>3. ASSUME NEW v, v = Verdict(code, "failed", FALSE)
        PROVE  WriteInv' /\ ExitIsHonest'
    <3>1. v.exit = code /\ v.outcome = "failed" /\ ~v.committed
      BY <2>3 DEF Verdict
    <3>2. Finish(Reported(v, sent))
      BY <2>1, <2>3
    <3>q. QED
      BY <1>1, <2>4, <2>2, <3>1, <3>2, ReportIsHonest
  <2>q. QED
    BY <2>3
<1>3. CASE DiagnosticRan
  <2>1. history.received /\ sent.attempted
    BY <1>1, <1>3 DEF DiagnosticRan, WriteInv, SavedKnown, SentKnown
  <2>2. \/ Finish(Reported(Verdict(0, "applied", TRUE), sent))
        \/ \E fault \in ReadFaults :
             Finish(IF fault \in Coordination THEN Raised(sent, FALSE)
                    ELSE Reported(Verdict(2, "applied", TRUE), sent))
    BY <1>3 DEF DiagnosticRan
  <2>3. ASSUME NEW code, code \in {0, 2},
               NEW v, v = Verdict(code, "applied", TRUE),
               Finish(Reported(v, sent))
        PROVE  WriteInv' /\ ExitIsHonest'
    <3>1. /\ v.exit \in {0, 2} /\ v.exit # 1
          /\ v.outcome # "unchanged" /\ v.committed
      BY <2>3 DEF Verdict
    <3>2. cmd.op \notin {"set", "submit"} /\ cmd.op # "set"
      BY <1>1
    <3>q. QED
      BY <1>1, <2>1, <2>3, <3>1, <3>2, ReportIsHonest
  <2>4. ASSUME NEW r, r = Raised(sent, FALSE), Finish(r)
        PROVE  WriteInv' /\ ExitIsHonest'
    <3>1. WriteInv' /\ result' = r
      BY <1>1, <2>4, EndStep
    <3>2. /\ r.kind # "reported" /\ r.outcome = "none" /\ r.exit = 2
          /\ ~r.committed /\ r.attempted
      BY <2>1, <2>4 DEF Raised
    <3>3. /\ result'.kind # "reported" /\ result'.outcome = "none"
          /\ result'.exit # 1 /\ ~result'.committed /\ result'.attempted
      BY <3>1, <3>2
    <3>q. QED
      BY <3>1, <3>3, UnreportedIsHonest
  <2>5. \/ Finish(Reported(Verdict(0, "applied", TRUE), sent))
        \/ Finish(Raised(sent, FALSE))
        \/ Finish(Reported(Verdict(2, "applied", TRUE), sent))
    BY <2>2
  <2>q. QED
    BY <2>3, <2>4, <2>5
<1>q. QED
  BY <1>2, <1>3

\* The verdict, case by case (decide_save_result).
LEMMA DecideFields ==
  ASSUME NEW r, NEW verified \in {"yes", "no", "none"},
         NEW unread \in BOOLEAN, NEW asks \in BOOLEAN,
         r.refusal => r.status # "applied"
  PROVE  LET v == Decide(r, verified, unread, asks) IN
         /\ r.refusal => v = Verdict(1, "failed", FALSE)
         /\ r.status = "applied"
              => v = Verdict(IF verified = "no" THEN 1
                             ELSE IF unread THEN 2 ELSE 0, "applied", TRUE)
         /\ ~r.refusal /\ r.status # "applied" /\ ObservedNoChange(r)
              => /\ verified = "yes" => v = Verdict(0, "unchanged", FALSE)
                 /\ verified = "no" => v = Verdict(1, "failed", FALSE)
                 /\ verified = "none" /\ asks => v = Verdict(2, "failed", FALSE)
                 /\ verified = "none" /\ ~asks
                      => v = Verdict(0, "unchanged", FALSE)
         /\ ~r.refusal /\ r.status # "applied" /\ ~ObservedNoChange(r)
              => v = Verdict(2, r.status, FALSE)
BY DEF Decide

\* The command reports.
LEMMA ConcludeStep ==
  ASSUME WriteInv, Conclude
  PROVE  WriteInv' /\ ExitIsHonest'
<1>1. /\ pc = "decide" /\ Finish(Reported(Verdicts, sent)) /\ Untouched
      /\ UNCHANGED <<cmd, sent, answer, obs, late, saved, check>>
  BY DEF Conclude
<1>2. /\ cmd.asks \in BOOLEAN /\ cmd.op # "diagnostic"
      /\ cmd.op \in {"set", "submit", "action"}
      /\ cmd.op = "set" => cmd.asks /\ ~cmd.opener
      /\ check.verified \in {"yes", "no", "none"} /\ check.failed \in BOOLEAN
  <2>1. cmd \in Commands /\ check \in Checks
    BY DEF WriteInv, WriteTypeOK
  <2>q. QED
    BY <1>1, <2>1 DEF Commands, Checks, WriteInv, CheckKnown
<1>3. /\ check.failed => check.verified = "none"
      /\ check.verified = "yes" => live = "asked"
      /\ check.verified = "no" => live # "asked"
      /\ check.verified = "none" /\ ~check.failed => ~NeedsRead \/ Opened
  BY <1>1 DEF WriteInv, CheckKnown
<1>4. /\ obs.refused => ~history.performed
      /\ obs.noChange => ~history.performed
      /\ Accepted => history.received
  BY <1>1
     DEF WriteInv, SavedKnown, ObservedKnown, GatewayKnown, SentKnown,
         Accepted
<1>5. ASSUME NEW t, t = TheStep, NEW d,
             d = Decide(t, check.verified, check.failed, cmd.asks)
      PROVE  WriteInv' /\ ExitIsHonest'
  <2>1. /\ t.refusal <=> obs.refused
        /\ t.status = "applied" <=> Accepted /\ ~obs.refused
        /\ ObservedNoChange(t) /\ ~obs.refused
             <=> ~Accepted /\ ~obs.refused /\ ~Waits /\ obs.noChange
        /\ ~obs.refused /\ ~Accepted /\ ~obs.noChange /\ ~Waits
             => t.status = "failed"
        /\ ~obs.refused /\ Waits => t.status = "reconnect-required"
        /\ ~obs.refused /\ t.status = "unchanged" => ObservedNoChange(t)
        /\ ~obs.refused => t.status # "opened"
    BY <1>1, <1>5, TheStepFields
  <2>2. /\ t.refusal => d = Verdict(1, "failed", FALSE)
        /\ t.status = "applied"
             => d = Verdict(IF check.verified = "no" THEN 1
                            ELSE IF check.failed THEN 2 ELSE 0,
                            "applied", TRUE)
        /\ ~t.refusal /\ t.status # "applied" /\ ObservedNoChange(t)
             => /\ check.verified = "yes" => d = Verdict(0, "unchanged", FALSE)
                /\ check.verified = "no" => d = Verdict(1, "failed", FALSE)
                /\ check.verified = "none" /\ cmd.asks
                     => d = Verdict(2, "failed", FALSE)
                /\ check.verified = "none" /\ ~cmd.asks
                     => d = Verdict(0, "unchanged", FALSE)
        /\ ~t.refusal /\ t.status # "applied" /\ ~ObservedNoChange(t)
             => d = Verdict(2, t.status, FALSE)
    BY <1>2, <1>5, <2>1, DecideFields, ZenonT(30)
  <2>3. /\ obs.refused => /\ d.exit = 1 /\ d.outcome = "failed"
                          /\ ~d.committed
        /\ ~obs.refused /\ Accepted
             => /\ d.exit = IF check.verified = "no" THEN 1
                            ELSE IF check.failed THEN 2 ELSE 0
                /\ d.outcome = "applied"
        /\ ~obs.refused /\ ~Accepted /\ ~Waits /\ obs.noChange
             => /\ ~d.committed
                /\ check.verified = "yes"
                     => d.exit = 0 /\ d.outcome = "unchanged"
                /\ check.verified = "no"
                     => d.exit = 1 /\ d.outcome = "failed"
                /\ check.verified = "none" /\ cmd.asks
                     => d.exit = 2 /\ d.outcome = "failed"
                /\ check.verified = "none" /\ ~cmd.asks
                     => d.exit = 0 /\ d.outcome = "unchanged"
        /\ ~obs.refused /\ Waits
             => d.exit = 2 /\ d.outcome = "reconnect-required" /\ ~d.committed
        /\ ~obs.refused /\ ~Accepted /\ ~Waits /\ ~obs.noChange
             => d.exit = 2 /\ d.outcome = "failed" /\ ~d.committed
    <3>1. Accepted => ~Waits
      BY DEF Accepted
    <3>2. ASSUME NEW code, NEW outcome, NEW committed,
                 d = Verdict(code, outcome, committed)
          PROVE  /\ d.exit = code /\ d.outcome = outcome
                 /\ d.committed = committed
      BY <3>2 DEF Verdict
    <3>3. CASE obs.refused
      <4>1. d = Verdict(1, "failed", FALSE)
        BY <2>1, <2>2, <3>3
      <4>q. QED
        BY <3>2, <3>3, <4>1
    <3>4. CASE ~obs.refused /\ Accepted
      <4> DEFINE code == IF check.verified = "no" THEN 1
                         ELSE IF check.failed THEN 2 ELSE 0
      <4>1. d = Verdict(code, "applied", TRUE)
        BY <2>1, <2>2, <3>4
      <4> HIDE DEF code
      <4>2. d.exit = code /\ d.outcome = "applied"
        BY <3>2, <4>1
      <4>q. QED
        BY <3>1, <3>4, <4>2 DEF code
    <3>5. CASE ~obs.refused /\ ~Accepted /\ ~Waits /\ obs.noChange
      <4>1. ~t.refusal /\ t.status # "applied" /\ ObservedNoChange(t)
        BY <2>1, <3>5
      <4>2. CASE \/ check.verified = "yes"
                 \/ check.verified = "none" /\ ~cmd.asks
        <5>1. d = Verdict(0, "unchanged", FALSE)
          BY <2>2, <4>1, <4>2
        <5>2. d.exit = 0 /\ d.outcome = "unchanged" /\ d.committed = FALSE
          BY <3>2, <5>1
        <5>q. QED
          BY <3>5, <4>2, <5>2
      <4>3. CASE check.verified = "no"
        <5>1. d = Verdict(1, "failed", FALSE)
          BY <2>2, <4>1, <4>3
        <5>2. d.exit = 1 /\ d.outcome = "failed" /\ d.committed = FALSE
          BY <3>2, <5>1
        <5>q. QED
          BY <3>5, <4>3, <5>2
      <4>4. CASE check.verified = "none" /\ cmd.asks
        <5>1. d = Verdict(2, "failed", FALSE)
          BY <2>2, <4>1, <4>4
        <5>2. d.exit = 2 /\ d.outcome = "failed" /\ d.committed = FALSE
          BY <3>2, <5>1
        <5>q. QED
          BY <3>5, <4>4, <5>2
      <4>5. \/ check.verified = "yes"
            \/ check.verified = "none" /\ ~cmd.asks
            \/ check.verified = "no"
            \/ check.verified = "none" /\ cmd.asks
        BY <1>2
      <4>q. QED
        BY <4>2, <4>3, <4>4, <4>5
    <3>6. CASE ~obs.refused /\ Waits
      <4>1. d = Verdict(2, "reconnect-required", FALSE)
        BY <2>1, <2>2, <3>1, <3>6
      <4>q. QED
        BY <3>1, <3>2, <3>6, <4>1
    <3>7. CASE ~obs.refused /\ ~Accepted /\ ~Waits /\ ~obs.noChange
      <4>1. d = Verdict(2, "failed", FALSE)
        BY <2>1, <2>2, <3>7
      <4>q. QED
        BY <3>2, <3>7, <4>1
    <3>q. QED
      BY <3>3, <3>4, <3>5, <3>6, <3>7
  <2>4. <<d.exit, d.outcome>> = Contract
    <3>1. Contract =
            CASE obs.refused -> <<1, "failed">>
              [] ~obs.refused /\ Accepted ->
                   (CASE check.verified = "yes" -> <<0, "applied">>
                      [] check.verified = "no"  -> <<1, "applied">>
                      [] check.failed           -> <<2, "applied">>
                      [] OTHER                  -> <<0, "applied">>)
              [] ~obs.refused /\ ~Accepted /\ obs.noChange /\ ~Waits ->
                   (CASE check.verified = "yes" -> <<0, "unchanged">>
                      [] check.verified = "no"  -> <<1, "failed">>
                      [] OTHER -> IF cmd.asks THEN <<2, "failed">>
                                              ELSE <<0, "unchanged">>)
              [] OTHER -> <<2, IF Waits THEN "reconnect-required"
                                        ELSE "failed">>
      BY DEF Contract, Accepted, Waits
    <3>2. Accepted => ~Waits
      BY DEF Accepted
    <3>3. CASE obs.refused
      BY <2>3, <3>1, <3>3
    <3>4. CASE ~obs.refused /\ Accepted
      BY <1>2, <1>3, <2>3, <3>1, <3>4
    <3>5. CASE ~obs.refused /\ ~Accepted /\ obs.noChange /\ ~Waits
      BY <1>2, <1>3, <2>3, <3>1, <3>5
    <3>6. CASE ~obs.refused /\ ~Accepted /\ ~(obs.noChange /\ ~Waits)
      BY <2>3, <3>1, <3>6
    <3>q. QED
      BY <3>3, <3>4, <3>5, <3>6
  <2>5. ASSUME NEW v, v = Verdicts
        PROVE  WriteInv' /\ ExitIsHonest'
    <3>1. Finish(Reported(v, sent))
      BY <1>1, <2>5
    <3>2. CASE Opened
      <4>1. v.exit = 0 /\ v.outcome = "opened" /\ ~v.committed
        BY <2>5, <3>2 DEF Verdicts, Verdict
      <4>2. cmd.op # "set"
        BY <1>2, <3>2 DEF Opened
      <4>q. QED
        BY <1>1, <3>1, <3>2, <4>1, <4>2, ReportIsHonest
    <3>3. CASE ~Opened /\ cmd.op = "action" /\ d.exit # 0
      <4>1. /\ v.exit = (IF t.refusal THEN 1 ELSE 2)
            /\ v.outcome = "failed" /\ ~v.committed
        BY <1>5, <2>5, <3>3 DEF Verdicts, Verdict
      <4>2. /\ v.exit \in {1, 2} /\ v.exit # 0
            /\ v.exit = 1 => ~history.performed
        BY <1>4, <2>1, <4>1
      <4>3. cmd.op \notin {"set", "submit"}
        BY <3>3
      <4>q. QED
        BY <1>1, <3>1, <3>3, <4>1, <4>2, <4>3, ReportIsHonest
    <3>4. CASE ~Opened /\ ~(cmd.op = "action" /\ d.exit # 0)
      <4>1. v = d
        BY <1>5, <2>5, <3>4 DEF Verdicts
      <4>2. v.exit = 0 /\ cmd.op = "set" /\ ~TheStep.moved => live = "asked"
        <5>1. cmd.op = "set" /\ t.status = "applied" /\ ~t.moved
                => check.verified = "yes" \/ check.verified = "no"
                     \/ check.failed
          BY <1>2, <1>3, <1>5, <3>4 DEF NeedsRead
        <5>q. QED
          BY <1>2, <1>3, <1>5, <2>1, <2>3, <4>1, <5>1
      <4>3. v.outcome = "unchanged" => ~history.performed
        BY <1>4, <2>3, <4>1
      <4>4. v.exit = 1 /\ v.outcome # "applied" => ~history.performed
        BY <1>2, <1>4, <2>3, <4>1
      <4>5. v.committed => history.received
        BY <1>4, <2>3, <4>1
      <4>6. v.exit = 1 /\ v.outcome = "applied" => live # "asked"
        BY <1>2, <1>3, <2>3, <4>1
      <4>q. QED
        BY <1>1, <2>4, <3>1, <4>1, <4>2, <4>3, <4>4, <4>5, <4>6,
           ReportIsHonest
    <3>q. QED
      BY <3>2, <3>3, <3>4
  <2>q. QED
    BY <2>5
<1>q. QED
  BY <1>5

\* Every step of a command keeps the invariant.
LEMMA CommandStep ==
  ASSUME WriteInv /\ ExitIsHonest, [Next]_vars
  PROVE  (WriteInv /\ ExitIsHonest)'
<1>1. CASE Client
  <2>1. CASE ReadWarning
    <3>1. CASE pc' = "continue"
      <4>1. /\ pc = "warning" /\ Untouched
            /\ UNCHANGED <<cmd, sent, answer, obs, late, check>>
        BY <2>1 DEF ReadWarning
      <4>2. UNCHANGED <<saved, result>>
        BY <2>1, <3>1 DEF ReadWarning, Fails, Finish
      <4>3. WriteInv'
        BY <3>1, <4>1, <4>2, GoesOn
      <4>q. QED
        BY <3>1, <4>3 DEF ExitIsHonest
    <3>2. CASE pc' # "continue"
      BY <2>1, <3>2, WriteFails
    <3>q. QED
      BY <3>1, <3>2
  <2>q. QED
    BY <1>1, <2>1, BeforeWrite, WriteFails, WriteTaken, AnswerStep, WaitStep,
       JudgedStep, ConcludeStep, DiagnosticStep, ReadStep, PoolFullStep
       DEF Client
<1>2. CASE TimePasses
  BY <1>2, TimeStep
<1>3. CASE GatewayWorks
  BY <1>3, GatewayStep
<1>4. CASE UNCHANGED vars
  <2>1. UNCHANGED <<cmd, pc, sent, answer, obs, late, saved, check, result,
                    live, job, notice, history>>
    BY <1>4 DEF vars
  <2>2. /\ TheStep' = TheStep /\ (NeedsRead' <=> NeedsRead)
        /\ (Opened' <=> Opened) /\ Contract' = Contract
    BY <2>1, SameStep DEF Contract
  <2>3. WriteTypeOK'
    BY <2>1 DEF WriteInv, WriteTypeOK
  <2>4. SentKnown' /\ GatewayKnown' /\ ObservedKnown'
    BY <2>1 DEF WriteInv, SentKnown, GatewayKnown, ObservedKnown
  <2>5. SavedKnown' /\ CheckKnown'
    BY <2>1, <2>2 DEF WriteInv, SavedKnown, StepKnown, CheckKnown
  <2>6. ExitIsHonest'
    BY <2>1, <2>2 DEF ExitIsHonest, KeepsContract
  <2>q. QED
    BY <2>3, <2>4, <2>5, <2>6 DEF WriteInv
<1>q. QED
  BY <1>1, <1>2, <1>3, <1>4 DEF Next

\* It holds before the command's first step.
LEMMA CommandInit == Init => WriteInv /\ ExitIsHonest
<1> SUFFICES ASSUME Init
             PROVE  WriteInv /\ ExitIsHonest
  OBVIOUS
<1>1. /\ cmd \in Commands /\ pc = "start" /\ sent = NothingSent
      /\ answer = "none" /\ obs = NothingSeen /\ late = FALSE
      /\ saved = <<>> /\ check = NoCheck /\ result = NoResult
      /\ live \in {"old", "asked"} /\ job = FALSE /\ notice = "none"
      /\ history = [received |-> FALSE, performed |-> FALSE, refusals |-> 0]
  BY DEF Init
<1>2. WriteTypeOK
  <2>1. NothingSent \in Sendings /\ NothingSeen \in Evidence
    BY DEF NothingSent, Sendings, NothingSeen, Evidence, Faults
  <2>2. NoCheck \in Checks
    BY ReadsAssumption DEF NoCheck, Checks
  <2>3. history \in Histories
    BY <1>1 DEF Histories
  <2>4. saved \in Seq(Report) /\ Len(saved) <= 1
    BY <1>1
  <2>q. QED
    BY <1>1, <2>1, <2>2, <2>3, <2>4 DEF WriteTypeOK, Stages
<1>3. SentKnown /\ GatewayKnown /\ ObservedKnown
  BY <1>1 DEF SentKnown, GatewayKnown, ObservedKnown, NothingSent, NothingSeen
<1>4. SavedKnown /\ CheckKnown
  BY <1>1 DEF SavedKnown, CheckKnown, NoCheck
<1>q. QED
  BY <1>1, <1>2, <1>3, <1>4 DEF WriteInv, ExitIsHonest

\* The inductive invariant of a write command, for every command, any number
\* of verification reads and any behaviour of the gateway: what was sent,
\* received, observed and made a step agree, and a refused login is the last.
THEOREM CommandInvariant == Spec => []WriteInv
<1>1. Spec => [](WriteInv /\ ExitIsHonest)
  BY CommandInit, CommandStep, PTL DEF Spec
<1>q. QED
  BY <1>1, PTL

\* The exit code, the outcome and the evidence of a command are true of the
\* gateway whichever way the command ends, and follow the one contract of
\* save_result.
THEOREM ExitOfCommandIsHonest == Spec => []ExitIsHonest
<1>1. Spec => [](WriteInv /\ ExitIsHonest)
  BY CommandInit, CommandStep, PTL DEF Spec
<1>q. QED
  BY <1>1, PTL
=============================================================================
