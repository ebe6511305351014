------------------------- MODULE StepExecutionProofs -------------------------
(***************************************************************************)
(* What holds of StepExecution for every plan of any length: the inductive *)
(* ExecutionInv relates each report to what the gateway has received, has   *)
(* performed and still works on.  TellStep carries the argument: a report  *)
(* that is truthful when it is made stays so, for the gateway works on the *)
(* save of the step that waits or of one that has stopped the plan, never  *)
(* on one that was reported as done or as not performed.                   *)
(***************************************************************************)
EXTENDS StepExecution, TLAPS

\* What a report may say of a save having been performed.
Performances == {"yes", "no", "unknown"}

\* The report of a step that did nothing.
LEMMA PlainFields ==
  ASSUME NEW st \in StepStatuses
  PROVE  /\ Plain(st) \in Report /\ Plain(st).status = st
         /\ ~Plain(st).attempted /\ ~Plain(st).answered
         /\ Plain(st).performed = "unknown" /\ ~Plain(st).acked
         /\ ~Plain(st).refusal /\ ~Plain(st).moved
         /\ Plain(st).fault = "none"
BY DEF Plain, Report, Faults

\* The report of a step that failed before its write.
LEMMA UnsavedFields ==
  ASSUME NEW fault \in Faults
  PROVE  LET r == Unsaved(fault) IN
         /\ r \in Report /\ r.status = "failed" /\ r.fault = fault
         /\ ~r.attempted /\ ~r.answered /\ r.performed = "unknown"
         /\ ~r.acked /\ ~r.refusal /\ ~r.moved
<1>1. "failed" \in StepStatuses
  BY DEF StepStatuses
<1>2. /\ Plain("failed") \in Report /\ Plain("failed").status = "failed"
      /\ ~Plain("failed").attempted /\ ~Plain("failed").answered
      /\ Plain("failed").performed = "unknown" /\ ~Plain("failed").acked
      /\ ~Plain("failed").refusal /\ ~Plain("failed").moved
  BY <1>1, PlainFields
<1>q. QED
  BY <1>2 DEF Unsaved, Report

\* The report of a write that did not leave.
LEMMA NotPostedFields ==
  ASSUME NEW fault \in Faults
  PROVE  LET r == NotPosted(fault) IN
         /\ r \in Report /\ r.status = "failed" /\ ~r.attempted
         /\ ~r.acked /\ ~r.refusal /\ ~r.moved
         /\ r.performed \in {"no", "unknown"}
<1> DEFINE u == Unsaved(fault)
           p == IF fault = "nonce" THEN "no" ELSE u.performed
<1>1. /\ u \in Report /\ u.status = "failed" /\ ~u.attempted
      /\ ~u.acked /\ ~u.refusal /\ ~u.moved /\ u.performed = "unknown"
  BY UnsavedFields
<1>2. p \in {"no", "unknown"}
  BY <1>1
<1>3. NotPosted(fault) = [u EXCEPT !.performed = p]
  BY DEF NotPosted
<1> HIDE DEF u, p
<1>q. QED
  BY <1>1, <1>2, <1>3 DEF Report

\* The report of a write that left and then failed: it stops the plan, and
\* only a LAN form may call for a reconnection.
LEMMA SentThenFields ==
  ASSUME NEW answered \in BOOLEAN, NEW fault \in Faults
  PROVE  LET r == SentThen(answered, fault) IN
         /\ r \in Report /\ Stopping(r)
         /\ r.status = "reconnect-required" => Form \in Lan
         /\ r.attempted /\ r.performed = "unknown"
         /\ ~r.acked /\ ~r.refusal /\ ~r.moved
<1> DEFINE u == Unsaved(fault)
           st == IF Form \in Lan /\ fault = "connection"
                 THEN "reconnect-required" ELSE u.status
           sent(s) == [u EXCEPT !.status = s, !.attempted = TRUE,
                                !.answered = answered]
<1>1. /\ u \in Report /\ u.status = "failed" /\ ~u.acked
      /\ ~u.refusal /\ ~u.moved /\ u.performed = "unknown"
  BY UnsavedFields
<1>2. /\ st \in {"failed", "reconnect-required"}
      /\ st = "reconnect-required" => Form \in Lan
  BY <1>1
<1>3. SentThen(answered, fault) = sent(st)
  BY DEF SentThen
<1>4. ASSUME NEW s \in {"failed", "reconnect-required"}
      PROVE  /\ sent(s) \in Report /\ sent(s).status = s
             /\ sent(s).attempted /\ sent(s).performed = "unknown"
             /\ ~sent(s).acked /\ ~sent(s).refusal /\ ~sent(s).moved
  <2> HIDE DEF u
  <2>q. QED
    BY <1>1 DEF Report, StepStatuses
<1> HIDE DEF st, sent
<1>q. QED
  BY <1>2, <1>3, <1>4 DEF Stopping

\* What the wait reports of the save itself: "performed" only of what the page
\* said was saved, "not performed" only of what it said was not.
LEMMA ToldFields ==
  ASSUME NEW o \in Evidence
  PROVE  LET r == Told(o) IN
         /\ r \in Report /\ r.status = "failed" /\ r.attempted
         /\ r.performed = "yes" \/ r.acked => o.saved
         /\ r.performed = "no" => o.noChange /\ ~o.saved
         /\ ~r.refusal /\ ~r.moved
<1> DEFINE told(p, a) == [Plain("failed") EXCEPT
                            !.attempted = TRUE, !.answered = TRUE,
                            !.performed = p, !.acked = a]
           performed == IF o.saved THEN "yes"
                        ELSE IF o.noChange THEN "no" ELSE "unknown"
<1>1. o.saved \in BOOLEAN /\ performed \in Performances
  BY DEF Evidence, Performances
<1>2. /\ performed = "yes" => o.saved
      /\ performed = "no" => o.noChange /\ ~o.saved
  OBVIOUS
<1>3. Told(o) = told(performed, o.saved)
  BY DEF Told
<1>4. ASSUME NEW p \in Performances, NEW a \in BOOLEAN
      PROVE  /\ told(p, a) \in Report /\ told(p, a).status = "failed"
             /\ told(p, a).attempted /\ told(p, a).performed = p
             /\ told(p, a).acked = a
             /\ ~told(p, a).refusal /\ ~told(p, a).moved
  BY DEF Plain, Report, StepStatuses, Faults, Performances
<1> HIDE DEF told, performed
<1>q. QED
  BY <1>1, <1>2, <1>3, <1>4

\* The same of a save that the page refused.
LEMMA RefusedFields ==
  ASSUME NEW o \in Evidence
  PROVE  LET r == Refused(o) IN
         /\ r \in Report /\ r.status = "failed" /\ r.attempted
         /\ r.performed = "yes" \/ r.acked => o.saved
         /\ ~r.moved
BY ToldFields DEF Refused, Report

\* What the wait's outcome may claim (_save_outcome): each claim has its
\* evidence.
LEMMA SaveOutcomeFields ==
  ASSUME NEW o \in Evidence
  PROVE  LET r == SaveOutcome(o) IN
         /\ r \in Report /\ r.attempted /\ ~r.refusal
         /\ r.performed = "yes" \/ r.acked => o.saved
         /\ r.performed = "no" => o.noChange
         /\ r.status \in {"applied", "unchanged"} => o.state = "yes"
         /\ r.status = "applied" => o.saved
         /\ r.status \in {"applied", "unchanged", "failed",
                          "reconnect-required"}
         /\ r.status = "unchanged" => o.noChange
         /\ r.status = "reconnect-required" \/ r.moved => Form \in Lan
<1> DEFINE t == Told(o)
           applied == o.saved /\ o.state = "yes"
           declined == o.noChange /\ ~o.saved
           gone == \/ Form = "move"
                   \/ Form = "mask" /\ o.fault = "connection"
<1>1. /\ t \in Report /\ t.status = "failed" /\ t.attempted
      /\ t.performed = "yes" \/ t.acked => o.saved
      /\ t.performed = "no" => o.noChange
      /\ ~t.refusal /\ ~t.moved
  BY ToldFields
<1>2. o.fault \in Faults
  BY DEF Evidence
<1>3. CASE applied
  <2>1. SaveOutcome(o) = [t EXCEPT !.status = "applied",
                                   !.moved = (Form = "move")]
    BY <1>3 DEF SaveOutcome
  <2> HIDE DEF t
  <2>q. QED
    BY <1>1, <1>3, <2>1 DEF Report, StepStatuses, Lan
<1>4. CASE ~applied /\ declined
  <2>1. SaveOutcome(o) = [t EXCEPT !.status = IF o.state = "yes"
                                              THEN "unchanged" ELSE "failed"]
    BY <1>4 DEF SaveOutcome
  <2> HIDE DEF t
  <2>q. QED
    BY <1>1, <1>4, <2>1 DEF Report, StepStatuses, Lan
<1>5. CASE ~applied /\ ~declined /\ gone
  <2>1. SaveOutcome(o) = [t EXCEPT !.status = "reconnect-required",
                                   !.fault = o.fault]
    BY <1>5 DEF SaveOutcome
  <2> HIDE DEF t
  <2>q. QED
    BY <1>1, <1>2, <1>5, <2>1 DEF Report, StepStatuses, Lan
<1>6. CASE ~applied /\ ~declined /\ ~gone
  <2> DEFINE fault == IF o.fault = "none" /\ o.saved /\ o.unreadable
                      THEN "unread" ELSE o.fault
  <2>1. SaveOutcome(o) = [t EXCEPT !.fault = fault]
    BY <1>6 DEF SaveOutcome
  <2>2. fault \in Faults
    BY <1>2 DEF Faults
  <2> HIDE DEF t, fault
  <2>q. QED
    BY <1>1, <2>1, <2>2 DEF Report, StepStatuses, Lan
<1>q. QED
  BY <1>3, <1>4, <1>5, <1>6

\* What a step that sends, or may have sent, its save does to the gateway:
\* nothing is performed by it, and the save received and worked on is the
\* step's own.
Sends ==
  /\ has' = has
  /\ history' \in [received : SUBSET Steps, performed : SUBSET Steps]
  /\ history'.performed = history.performed
  /\ history.received \subseteq history'.received
  /\ history'.received \subseteq history.received \cup {at}
  /\ \/ UNCHANGED <<job, notice>>
     \/ /\ job' = at /\ notice' = "none"
        /\ at \in history'.received \ history.performed

\* The two ways a save reaches the gateway, field by field.
LEMMA ReceiveFields ==
  ASSUME ExecutionTypeOK, at \in Steps
  PROVE  /\ Receive => /\ history' \in [received : SUBSET Steps,
                                        performed : SUBSET Steps]
                       /\ history'.received = history.received \cup {at}
                       /\ history'.performed = history.performed
                       /\ job' = at /\ notice' = "none" /\ has' = has
         /\ Hold => /\ history' \in [received : SUBSET Steps,
                                     performed : SUBSET Steps]
                    /\ history'.received = history.received \cup {at}
                    /\ history'.performed = history.performed
                    /\ UNCHANGED <<job, notice, has>>
BY DEF ExecutionTypeOK, Receive, Hold

\* A save that may or may not have arrived, of a step of which none was
\* performed.
LEMMA PerhapsSends ==
  ASSUME ExecutionInv, at \in Steps, at \notin history.performed,
         Untouched \/ PerhapsReceive
  PROVE  Sends
<1>1. CASE Untouched
  BY <1>1 DEF Sends, Untouched, gateway, ExecutionInv, ExecutionTypeOK
<1>2. CASE Receive
  BY <1>2, ReceiveFields DEF Sends, ExecutionInv
<1>3. CASE Hold
  BY <1>3, ReceiveFields DEF Sends, ExecutionInv
<1>q. QED
  BY <1>1, <1>2, <1>3 DEF PerhapsReceive

\* A step is reported and the next one's turn comes.  Every report of the
\* module goes through here: it is enough that the new one is truthful, and
\* that it is "not-run" when the plan has been stopped before.
LEMMA TellStep ==
  ASSUME ExecutionInv, at \in Steps, NEW r \in Report, Tell(r), Sends,
         NEW s, s = at, Truthful(s, r)', Stopped => r.status = "not-run"
  PROVE  ExecutionInv'
<1>1. /\ at \in Nat /\ 1 <= at /\ at <= Length /\ Length \in Nat
      /\ reports \in Seq(Report) /\ Len(reports) = at - 1
      /\ DOMAIN reports = 1..at - 1
  <2>1. at \in Nat /\ 1 <= at /\ at <= Length /\ Length \in Nat
    BY LengthAssumption DEF Steps
  <2>2. reports \in Seq(Report) /\ Len(reports) = at - 1
    BY DEF ExecutionInv, ExecutionTypeOK
  <2>q. QED
    BY <2>1, <2>2
<1>2. /\ reports' = Append(reports, r) /\ reports' \in Seq(Report)
      /\ Len(reports') = at /\ DOMAIN reports' = 1..at
      /\ reports'[at] = r
      /\ \A i \in 1..at - 1 : reports'[i] = reports[i]
  BY <1>1 DEF Tell
<1>3. /\ at' = at + 1 /\ at' \in 1..(Length + 1) /\ pc' = "ready"
      /\ obs' = NothingSeen /\ late' = FALSE /\ plan' = plan
  BY <1>1 DEF Tell
<1>4. history'.received \subseteq 1..at
  <2>1. history.received \subseteq 1..at
    BY DEF ExecutionInv, GatewayKnown
  <2>2. history'.received \subseteq history.received \cup {at}
    BY DEF Sends
  <2>3. at \in 1..at
    BY <1>1
  <2>q. QED
    BY <2>1, <2>2, <2>3
<1>5. ExecutionTypeOK'
  <2>1. NothingSeen \in Evidence
    BY DEF NothingSeen, Evidence, Faults
  <2>2. /\ plan' \in Plans /\ has' \subseteq Steps
        /\ job' \in Steps \cup {NoStep}
        /\ notice' \in {"none", "saved", "refused", "no change"}
        /\ history' \in [received : SUBSET Steps, performed : SUBSET Steps]
    BY <1>3 DEF ExecutionInv, ExecutionTypeOK, Sends
  <2>q. QED
    <3>1. Len(reports') = at' - 1
      BY <1>1, <1>2, <1>3
    <3>q. QED
      BY <1>2, <1>3, <2>1, <2>2, <3>1 DEF ExecutionTypeOK
<1>6. TurnKnown'
  <2>1. at' \notin history'.received
    BY <1>4, <1>1, <1>3
  <2>2. obs'.saved = FALSE /\ obs'.noChange = FALSE /\ obs'.state = "unknown"
    BY <1>3 DEF NothingSeen
  <2>q. QED
    BY <1>3, <2>1, <2>2 DEF TurnKnown
<1>7. GatewayKnown'
  <2>1. history'.performed \subseteq history'.received
    BY DEF ExecutionInv, GatewayKnown, Sends
  <2>2. history'.received \subseteq 1..at' /\ 1..at \subseteq 1..at'
    BY <1>4, <1>1, <1>3
  <2>3. job' # NoStep => /\ job' \in history'.received \ history'.performed
                         /\ notice' = "none"
    BY DEF ExecutionInv, GatewayKnown, Sends
  <2>4. job' # at'
    <3>1. job \in 1..at \cup {NoStep}
      BY DEF ExecutionInv, ExecutionTypeOK, GatewayKnown
    <3>2. job' \in 1..at \cup {NoStep}
      BY <1>1, <3>1 DEF Sends
    <3>q. QED
      BY <1>1, <1>3, <3>2 DEF NoStep
  <2>q. QED
    BY <1>3, <2>1, <2>2, <2>3, <2>4 DEF GatewayKnown
<1>8. ReportsKnown'
  <2>1. ASSUME NEW i \in 1..at - 1
        PROVE  Truthful(i, reports[i])'
    <3>1. Truthful(i, reports[i]) /\ reports'[i] = reports[i] /\ i # at
      BY <1>1, <1>2 DEF ExecutionInv, ReportsKnown
    <3>2. /\ i \in history'.received <=> i \in history.received
          /\ history'.performed = history.performed /\ has' = has
          /\ job' = i => job = i
      BY <3>1 DEF Sends
    <3>q. QED
      BY <1>3, <3>1, <3>2 DEF Truthful
  <2>2. ASSUME NEW i \in 1..at
        PROVE  Truthful(i, reports[i])'
    <3>1. CASE i = at
      BY <1>2, <3>1 DEF Truthful
    <3>2. CASE i # at
      BY <1>1, <2>1, <3>2
    <3>q. QED
      BY <3>1, <3>2
  <2>3. ASSUME NEW i \in 1..at, Stopping(reports'[i]),
               NEW k \in 1..at, k > i
        PROVE  reports'[k].status = "not-run"
    <3>1. i \in 1..at - 1 /\ reports'[i] = reports[i] /\ Stopping(reports[i])
      BY <1>1, <1>2, <2>3
    <3>2. CASE k = at
      BY <1>1, <1>2, <3>1, <3>2 DEF Stopped
    <3>3. CASE k # at
      BY <1>1, <1>2, <2>3, <3>1, <3>3 DEF ExecutionInv, ReportsKnown
    <3>q. QED
      BY <3>2, <3>3
  <2>q. QED
    BY <1>2, <2>2, <2>3 DEF ReportsKnown
<1>q. QED
  BY <1>5, <1>6, <1>7, <1>8 DEF ExecutionInv

\* No report of a step still to be made, and each step passed has one.
LEMMA Places ==
  ASSUME ExecutionInv
  PROVE  /\ NoStep \notin Steps /\ NoStep \notin DOMAIN reports
         /\ at \notin DOMAIN reports /\ at # NoStep
         /\ at \in 1..at
         /\ \A i \in 1..at : i = at \/ i \in DOMAIN reports
<1>1. /\ at \in 1..(Length + 1) /\ reports \in Seq(Report)
      /\ Len(reports) = at - 1
  BY DEF ExecutionInv, ExecutionTypeOK
<1>2. at \in Nat /\ 1 <= at /\ DOMAIN reports = 1..at - 1
  BY <1>1, LengthAssumption
<1>q. QED
  BY <1>2 DEF Steps, NoStep

\* A step is reported of which no save has left.
LEMMA UnsentStep ==
  ASSUME ExecutionInv, at \in Steps, pc \in {"ready", "editor", "write"},
         Untouched,
         NEW r \in Report, Tell(r), Stopped => r.status = "not-run",
         ~r.attempted, ~r.acked, ~r.refusal, ~r.moved,
         r.performed # "yes",
         r.status \in {"skipped", "blocked", "failed", "not-run"}
  PROVE  ExecutionInv'
<1>1. at \notin history.received /\ at \notin history.performed /\ job # at
  BY Places DEF ExecutionInv, TurnKnown, GatewayKnown
<1>2. Sends
  BY <1>1, PerhapsSends
<1>3. UNCHANGED <<has, job, notice, history>>
  BY DEF Untouched, gateway
<1>4. ASSUME NEW s, s = at
      PROVE  Truthful(s, r)'
  BY <1>1, <1>3, <1>4 DEF Truthful
<1>q. QED
  BY <1>2, <1>4, TellStep

\* A step is reported whose save left, with no answer that tells what became
\* of it.
LEMMA SentStep ==
  ASSUME ExecutionInv, at \in Steps, ~Stopped,
         pc \in {"ready", "write", "warning", "continue"},
         NEW answered \in BOOLEAN, NEW fault \in Faults,
         Tell(SentThen(answered, fault)), Untouched \/ PerhapsReceive
  PROVE  ExecutionInv'
<1> DEFINE r == SentThen(answered, fault)
<1>1. at \notin history.performed
  BY DEF ExecutionInv, TurnKnown, GatewayKnown
<1>2. Sends
  BY <1>1, PerhapsSends
<1>3. /\ r \in Report /\ Stopping(r)
      /\ r.status = "reconnect-required" => Form \in Lan
      /\ r.attempted /\ r.performed = "unknown"
      /\ ~r.acked /\ ~r.refusal /\ ~r.moved
  BY SentThenFields
<1>4. plan' = plan
  BY DEF Tell
<1> HIDE DEF r
<1>5. ASSUME NEW s, s = at, NEW x, x = r
      PROVE  Truthful(s, x)'
  BY <1>3, <1>4, <1>5 DEF Truthful, Stopping, Form
<1>q. QED
  BY <1>2, <1>3, <1>5, TellStep DEF r

\* A step goes on to its next stage without a change elsewhere.
LEMMA GoOnStep ==
  ASSUME ExecutionInv, at \in Steps, NEW p, GoOn(p),
         \/ pc \in {"ready", "editor"} /\ ~Stopped /\ p \in {"editor", "write"}
         \/ pc = "ready" /\ p = "over"
         \/ pc = "warning" /\ p = "continue"
         \/ pc = "answered" /\ p = "waiting"
  PROVE  ExecutionInv'
<1>1. /\ pc' = p /\ UNCHANGED <<plan, at, obs, late, reports>>
      /\ UNCHANGED <<has, job, notice, history>>
  BY DEF GoOn, Untouched, gateway
<1>2. ExecutionTypeOK' /\ ReportsKnown'
  BY <1>1 DEF ExecutionInv, ExecutionTypeOK, ReportsKnown, Truthful
<1>3. TurnKnown'
  BY <1>1 DEF ExecutionInv, TurnKnown, Stopped
<1>4. GatewayKnown'
  BY <1>1 DEF ExecutionInv, GatewayKnown
<1>q. QED
  BY <1>2, <1>3, <1>4 DEF ExecutionInv

\* While no step has stopped the plan and none waits, the gateway works on
\* nothing: this is why a save is never given to a gateway that is at work.
LEMMA NothingWorkedOn ==
  ASSUME ExecutionInv, ~Stopped, pc \notin {"answered", "waiting"}
  PROVE  job = NoStep
<1>1. SUFFICES ASSUME job # NoStep
               PROVE  FALSE
  OBVIOUS
<1>2. job \in 1..at /\ job # at
  BY <1>1 DEF ExecutionInv, GatewayKnown
<1>3. job \in DOMAIN reports
  BY <1>2, Places
<1>q. QED
  BY <1>3 DEF ExecutionInv, ReportsKnown, Truthful, Stopped

\* The gateway takes the save: it starts to work, or asks for Continue.
LEMMA WriteReceived ==
  ASSUME ExecutionInv, WriteAccepted \/ WriteWarned
  PROVE  ExecutionInv'
<1>1. /\ at \in Steps /\ ~Stopped
      /\ pc \in {"ready", "write", "continue"}
      /\ UNCHANGED <<plan, at, obs, late, reports>>
  BY DEF WriteAccepted, WriteWarned, Writes, Due, Turn, ExecutionInv,
         TurnKnown
<1>2. /\ history' \in [received : SUBSET Steps, performed : SUBSET Steps]
      /\ history'.received = history.received \cup {at}
      /\ history'.performed = history.performed /\ has' = has
      /\ \/ pc' = "answered" /\ job' = at /\ notice' = "none"
         \/ pc' = "warning" /\ UNCHANGED <<job, notice>>
  BY <1>1, ReceiveFields DEF ExecutionInv, WriteAccepted, WriteWarned
<1>3. at \notin history.performed /\ job = NoStep
  BY <1>1, NothingWorkedOn DEF ExecutionInv, TurnKnown, GatewayKnown
<1>4. ExecutionTypeOK'
  BY <1>1, <1>2 DEF ExecutionInv, ExecutionTypeOK
<1>5. TurnKnown'
  <2>1. obs = NothingSeen /\ late = FALSE
    BY <1>1 DEF ExecutionInv, ExecutionTypeOK, TurnKnown
  <2>2. ~obs.saved /\ ~obs.noChange /\ obs.state = "unknown"
    BY <2>1 DEF NothingSeen
  <2>q. QED
    BY <1>1, <1>2, <1>3, <2>1, <2>2 DEF TurnKnown, Stopped
<1>6. GatewayKnown'
  BY <1>1, <1>2, <1>3, Places DEF ExecutionInv, GatewayKnown
<1>7. ReportsKnown'
  <2>1. \A i \in DOMAIN reports : i # at
    BY Places
  <2>q. QED
    BY <1>1, <1>2, <1>3, <2>1 DEF ExecutionInv, ReportsKnown, Truthful
<1>q. QED
  BY <1>4, <1>5, <1>6, <1>7 DEF ExecutionInv

\* What was observed of the step's own save is so.
ObsKnown(o) ==
  /\ o.saved => at \in history.performed
  /\ o.noChange => at \notin history.performed /\ job # at
  /\ o.state = "yes" => at \in has

\* The wait ends with an outcome made of what was observed.
LEMMA WaitEndsStep ==
  ASSUME ExecutionInv, pc \in {"answered", "waiting"},
         NEW o \in Evidence, ObsKnown(o), Tell(SaveOutcome(o)), Untouched
  PROVE  ExecutionInv'
<1> DEFINE r == SaveOutcome(o)
<1>1. /\ at \in Steps /\ ~Stopped /\ at \in history.received
      /\ job = at => at \notin history.performed
  BY Places DEF ExecutionInv, TurnKnown, GatewayKnown
<1>2. Sends
  BY DEF Sends, Untouched, gateway, ExecutionInv, ExecutionTypeOK
<1>3. /\ r \in Report /\ r.attempted /\ ~r.refusal
      /\ r.performed = "yes" \/ r.acked => o.saved
      /\ r.performed = "no" => o.noChange
      /\ r.status \in {"applied", "unchanged"} => o.state = "yes"
      /\ r.status = "applied" => o.saved
      /\ r.status \in {"applied", "unchanged", "failed",
                       "reconnect-required"}
      /\ r.status = "unchanged" => o.noChange
      /\ r.status = "reconnect-required" \/ r.moved => Form \in Lan
  BY SaveOutcomeFields
<1>4. UNCHANGED <<plan, has, job, notice, history>>
  BY DEF Tell, Untouched, gateway
<1> HIDE DEF r
<1>5. ASSUME NEW s, s = at, NEW x, x = r
      PROVE  Truthful(s, x)'
  BY <1>1, <1>3, <1>4, <1>5 DEF Truthful, Stopping, Form, ObsKnown
<1>q. QED
  BY <1>1, <1>2, <1>3, <1>5, TellStep DEF r

\* The wait ends with a refusal.
LEMMA RefusedStep ==
  ASSUME ExecutionInv, pc \in {"answered", "waiting"}, notice = "refused",
         Tell(Refused(obs)), Untouched
  PROVE  ExecutionInv'
<1> DEFINE r == Refused(obs)
<1>1. /\ at \in Steps /\ ~Stopped /\ at \in history.received
      /\ at \notin history.performed /\ job = NoStep /\ job # at
      /\ ~obs.saved
  BY Places
     DEF ExecutionInv, ExecutionTypeOK, TurnKnown, GatewayKnown, Evidence
<1>2. obs \in Evidence /\ Sends
  BY DEF Sends, Untouched, gateway, ExecutionInv, ExecutionTypeOK
<1>3. /\ r \in Report /\ r.status = "failed" /\ r.attempted
      /\ r.performed = "yes" \/ r.acked => obs.saved
      /\ ~r.moved
  BY <1>2, RefusedFields
<1>4. UNCHANGED <<plan, has, job, notice, history>>
  BY DEF Tell, Untouched, gateway
<1> HIDE DEF r
<1>5. ASSUME NEW s, s = at, NEW x, x = r
      PROVE  Truthful(s, x)'
  BY <1>1, <1>3, <1>4, <1>5 DEF Truthful, Stopping
<1>q. QED
  BY <1>1, <1>2, <1>3, <1>5, TellStep DEF r

\* A look or a poll is noted and the wait goes on.
LEMMA ObservedStep ==
  ASSUME ExecutionInv, pc \in {"answered", "waiting"},
         NEW o \in Evidence, ObsKnown(o), obs' = o, pc' = "waiting",
         UNCHANGED <<plan, at, late, reports>>, Untouched
  PROVE  ExecutionInv'
<1>1. UNCHANGED <<has, job, notice, history>>
  BY DEF Untouched, gateway
<1>2. ExecutionTypeOK' /\ ReportsKnown'
  BY <1>1 DEF ExecutionInv, ExecutionTypeOK, ReportsKnown, Truthful
<1>3. TurnKnown'
  BY <1>1 DEF ExecutionInv, TurnKnown, Stopped, ObsKnown
<1>4. GatewayKnown'
  BY <1>1 DEF ExecutionInv, GatewayKnown
<1>q. QED
  BY <1>2, <1>3, <1>4 DEF ExecutionInv

\* A look adds only what the page says of itself.
LEMMA SeenFields ==
  ASSUME obs \in Evidence, NEW readable \in BOOLEAN, NEW seen
  PROVE  LET o == Seen(readable, seen) IN
         /\ o \in Evidence
         /\ o.saved => obs.saved \/ seen = "saved"
         /\ o.noChange => obs.noChange \/ seen = "no change"
         /\ o.state = "yes" => at \in has
BY DEF Seen, StateRead, Evidence, Faults

\* One look at the page, whatever it shows: GatewayKnown makes what it says a
\* word on the step that waits.
LEMMA LookStep ==
  ASSUME ExecutionInv, pc \in {"answered", "waiting"}, Look
  PROVE  ExecutionInv'
<1>1. PICK readable \in BOOLEAN, seen \in {"none", notice} :
        \/ seen = "refused" /\ Tell(Refused(obs))
        \/ Tell(SaveOutcome(Seen(readable, seen)))
        \/ /\ obs' = Seen(readable, seen) /\ pc' = "waiting"
           /\ UNCHANGED <<plan, at, late, reports>>
  BY DEF Look
<1> DEFINE o == Seen(readable, seen)
<1>2. obs \in Evidence /\ at \in Steps /\ Untouched
  BY DEF ExecutionInv, ExecutionTypeOK, TurnKnown, Look
<1>3. /\ o \in Evidence
      /\ o.saved => obs.saved \/ seen = "saved"
      /\ o.noChange => obs.noChange \/ seen = "no change"
      /\ o.state = "yes" => at \in has
  BY <1>2, SeenFields
<1>4. ObsKnown(o)
  <2>1. /\ seen = "saved" => at \in history.performed
        /\ seen = "no change" => at \notin history.performed /\ job # at
    BY Places DEF ExecutionInv, GatewayKnown
  <2> HIDE DEF o
  <2>q. QED
    BY <1>3, <2>1 DEF ObsKnown, ExecutionInv, TurnKnown
<1>5. CASE seen = "refused" /\ Tell(Refused(obs))
  BY <1>2, <1>5, RefusedStep
<1>6. CASE Tell(SaveOutcome(o))
  BY <1>2, <1>3, <1>4, <1>6, WaitEndsStep
<1>7. CASE /\ obs' = o /\ pc' = "waiting"
           /\ UNCHANGED <<plan, at, late, reports>>
  BY <1>2, <1>3, <1>4, <1>7, ObservedStep
<1>q. QED
  BY <1>1, <1>5, <1>6, <1>7

\* A poll fails: the wait ends with what was observed before, or goes on.
LEMMA PollFailsStep ==
  ASSUME ExecutionInv, PollFails
  PROVE  ExecutionInv'
<1>1. PICK fault \in ReadFaults :
        LET o == [obs EXCEPT !.fault = fault]
        IN \/ EndsWait(fault) /\ Tell(SaveOutcome(o))
           \/ /\ Passing(fault)
              /\ obs' = o
              /\ UNCHANGED <<plan, at, pc, late, reports>>
  BY DEF PollFails
<1> DEFINE o == [obs EXCEPT !.fault = fault]
<1>2. obs \in Evidence /\ pc = "waiting" /\ Untouched /\ fault \in Faults
  BY DEF ExecutionInv, ExecutionTypeOK, PollFails, Polling, ReadFaults, Faults
<1>3. /\ o \in Evidence /\ o.saved = obs.saved
      /\ o.noChange = obs.noChange /\ o.state = obs.state
  BY <1>2 DEF Evidence
<1>4. \/ Tell(SaveOutcome(o))
      \/ obs' = o /\ UNCHANGED <<plan, at, pc, late, reports>>
  BY <1>1
<1> HIDE DEF o
<1>5. ObsKnown(o)
  BY <1>3 DEF ObsKnown, ExecutionInv, TurnKnown
<1>q. QED
  BY <1>2, <1>3, <1>4, <1>5, WaitEndsStep, ObservedStep

\* The gateway ends its work on a save, for a step that waits or for one that
\* has stopped the plan already: no report made is belied by it.
LEMMA GatewayWorksStep ==
  ASSUME ExecutionInv, GatewayWorks
  PROVE  ExecutionInv'
<1>1. /\ UNCHANGED <<plan, at, pc, obs, late, reports>>
      /\ job # NoStep /\ job' = NoStep /\ job \in Steps
      /\ job \in history.received \ history.performed
      /\ notice' \in {"none", "saved", "refused", "no change"}
  BY DEF ExecutionInv, ExecutionTypeOK, GatewayKnown, GatewayWorks,
         GatewayPerforms, GatewayDeclines
<1>2. history \in [received : SUBSET Steps, performed : SUBSET Steps]
  BY DEF ExecutionInv, ExecutionTypeOK
<1>3. /\ history' \in [received : SUBSET Steps, performed : SUBSET Steps]
      /\ history'.received = history.received
      /\ history'.performed \in {history.performed,
                                 history.performed \cup {job}}
      /\ notice' = "saved" => job \in history'.performed
      /\ notice' \in {"refused", "no change"}
           => history'.performed = history.performed
      /\ has' \in {has, has \cup {job}}
  <2>1. CASE GatewayPerforms
    <3>1. /\ history' = [history EXCEPT !.performed = @ \cup {job}]
          /\ notice' \in {"saved", "none"} /\ has' \in {has, has \cup {job}}
      BY <2>1 DEF GatewayPerforms
    <3>2. /\ history' \in [received : SUBSET Steps, performed : SUBSET Steps]
          /\ history'.received = history.received
          /\ history'.performed = history.performed \cup {job}
      BY <1>1, <1>2, <3>1
    <3>q. QED
      BY <3>1, <3>2
  <2>2. CASE GatewayDeclines
    BY <1>2, <2>2 DEF GatewayDeclines
  <2>q. QED
    BY <2>1, <2>2 DEF GatewayWorks
<1>4. pc \in {"answered", "waiting"} => job = at
  <2>1. SUFFICES ASSUME pc \in {"answered", "waiting"}, job # at
                 PROVE  FALSE
    OBVIOUS
  <2>2. job \in 1..at /\ job # at
    BY <1>1, <2>1 DEF ExecutionInv, GatewayKnown
  <2>3. job \in DOMAIN reports
    BY <2>2, Places
  <2>q. QED
    BY <2>1, <2>3 DEF ExecutionInv, TurnKnown, ReportsKnown, Truthful, Stopped
<1>5. ExecutionTypeOK'
  BY <1>1, <1>3 DEF ExecutionInv, ExecutionTypeOK
<1>6. TurnKnown'
  <2>1. /\ obs.noChange => job # at
        /\ pc \in {"warning", "continue"} => job # at
    BY <1>1 DEF ExecutionInv, TurnKnown, GatewayKnown
  <2>q. QED
    BY <1>1, <1>3, <2>1, Places DEF ExecutionInv, TurnKnown, Stopped
<1>7. GatewayKnown'
  BY <1>1, <1>3, <1>4 DEF ExecutionInv, GatewayKnown
<1>8. ReportsKnown'
  <2>1. NoStep \notin DOMAIN reports
    BY Places
  <2>q. QED
    BY <1>1, <1>3, <2>1 DEF ExecutionInv, ReportsKnown, Truthful
<1>q. QED
  BY <1>5, <1>6, <1>7, <1>8 DEF ExecutionInv

\* The turns that send nothing.
LEMMA TurnStep ==
  ASSUME ExecutionInv, Skip \/ NotRun \/ CutShort
  PROVE  ExecutionInv'
<1>1. at \in Steps /\ pc = "ready"
  BY DEF Skip, NotRun, CutShort, Due, Turn
<1>2. {"skipped", "blocked", "not-run"} \subseteq StepStatuses
  BY DEF StepStatuses
<1>3. CASE Skip
  <2>1. PICK st \in {"skipped", "blocked"} : Tell(Plain(st))
    BY <1>3 DEF Skip
  <2>2. ~Stopped /\ Untouched
    BY <1>3 DEF Skip, Due
  <2>q. QED
    BY <1>1, <1>2, <2>1, <2>2, PlainFields, UnsentStep
<1>4. CASE NotRun
  <2>1. Tell(Plain("not-run")) /\ Untouched
    BY <1>4 DEF NotRun
  <2>q. QED
    BY <1>1, <1>2, <2>1, PlainFields, UnsentStep
<1>5. CASE CutShort
  BY <1>1, <1>5, GoOnStep DEF CutShort
<1>q. QED
  BY <1>3, <1>4, <1>5

\* The readings before a write.
LEMMA BeforeWriteStep ==
  ASSUME ExecutionInv, Allocate \/ ReadEditor \/ ResolveForward
  PROVE  ExecutionInv'
<1>1. at \in Steps /\ pc \in {"ready", "editor"} /\ ~Stopped
  BY DEF Allocate, ReadEditor, ResolveForward, Due, Turn, ExecutionInv,
         TurnKnown
<1>2. PostFaults \cup {"none", "unread"} \subseteq Faults
  BY DEF PostFaults, ReadFaults, Faults
<1>3. \/ \E p \in {"editor", "write"} : GoOn(p)
      \/ Untouched /\ Tell(Plain("blocked"))
      \/ Untouched /\ \E fault \in Faults : Tell(Unsaved(fault))
      \/ Untouched /\ \E fault \in Faults : Tell(NotPosted(fault))
  BY <1>2 DEF Allocate, ReadEditor, ResolveForward, PostFaults
<1>4. CASE \E p \in {"editor", "write"} : GoOn(p)
  BY <1>1, <1>4, GoOnStep
<1>5. CASE Untouched /\ Tell(Plain("blocked"))
  <2>1. "blocked" \in StepStatuses
    BY DEF StepStatuses
  <2>q. QED
    BY <1>1, <1>5, <2>1, PlainFields, UnsentStep
<1>6. CASE Untouched /\ \E fault \in Faults : Tell(Unsaved(fault))
  BY <1>1, <1>6, UnsavedFields, UnsentStep
<1>7. CASE Untouched /\ \E fault \in Faults : Tell(NotPosted(fault))
  BY <1>1, <1>7, NotPostedFields, UnsentStep
<1>q. QED
  BY <1>3, <1>4, <1>5, <1>6, <1>7

\* The writes that fail, and the Wi-Fi Warning that is read.
LEMMA WriteStep ==
  ASSUME ExecutionInv,
         \/ WriteUnsent \/ WriteUnanswered \/ WriteTurnedAway
         \/ WriteErrored \/ ReadWarning
  PROVE  ExecutionInv'
<1>1. /\ at \in Steps /\ ~Stopped
      /\ pc \in {"ready", "write", "warning", "continue"}
  BY DEF WriteUnsent, WriteUnanswered, WriteTurnedAway, WriteErrored,
         ReadWarning, Writes, Due, Turn, ExecutionInv, TurnKnown
<1>2. PostFaults \cup {"none"} \subseteq Faults
  BY DEF PostFaults, ReadFaults, Faults
<1>3. CASE WriteUnsent
  <2>1. PICK fault \in PostFaults :
          Tell(IF pc = "continue" THEN SentThen(TRUE, fault)
               ELSE NotPosted(fault))
    BY <1>3 DEF WriteUnsent
  <2>2. Untouched /\ fault \in Faults
    BY <1>2, <1>3 DEF WriteUnsent
  <2>3. CASE pc = "continue"
    BY <1>1, <2>1, <2>2, <2>3, SentStep
  <2>4. CASE pc # "continue"
    <3>1. Tell(NotPosted(fault)) /\ pc \in {"ready", "write"}
      BY <1>1, <1>3, <2>1, <2>4 DEF WriteUnsent, Writes, Due, Turn
    <3>q. QED
      BY <1>1, <2>2, <3>1, NotPostedFields, UnsentStep
  <2>q. QED
    BY <2>3, <2>4
<1>4. CASE WriteUnanswered
  BY <1>1, <1>4, SentStep DEF WriteUnanswered, Faults
<1>5. CASE WriteTurnedAway
  BY <1>1, <1>2, <1>5, SentStep DEF WriteTurnedAway
<1>6. CASE WriteErrored
  BY <1>1, <1>6, SentStep DEF WriteErrored, Faults
<1>7. CASE ReadWarning
  <2>1. pc = "warning"
    BY <1>7 DEF ReadWarning
  <2>2. CASE GoOn("continue")
    BY <1>1, <2>1, <2>2, GoOnStep
  <2>3. CASE \E fault \in ReadFaults \cup {"none"} :
               Tell(SentThen(TRUE, fault)) /\ Untouched
    BY <1>1, <1>2, <2>3, SentStep DEF PostFaults
  <2>q. QED
    BY <1>7, <2>2, <2>3 DEF ReadWarning
<1>q. QED
  BY <1>3, <1>4, <1>5, <1>6, <1>7

\* The wait for the page to say what became of the save.
LEMMA WaitStep ==
  ASSUME ExecutionInv, LookAtAnswer \/ PollReads \/ WaitOver \/ TimePasses
  PROVE  ExecutionInv'
<1>1. at \in Steps /\ pc \in {"answered", "waiting"}
  BY DEF LookAtAnswer, PollReads, Polling, WaitOver, TimePasses, ExecutionInv,
         TurnKnown
<1>2. CASE LookAtAnswer
  BY <1>1, <1>2, LookStep, GoOnStep DEF LookAtAnswer
<1>3. CASE PollReads
  BY <1>1, <1>3, LookStep DEF PollReads
<1>4. CASE WaitOver
  <2>1. obs \in Evidence /\ ObsKnown(obs)
    BY DEF ExecutionInv, ExecutionTypeOK, TurnKnown, ObsKnown
  <2>q. QED
    BY <1>1, <1>4, <2>1, WaitEndsStep DEF WaitOver
<1>5. CASE TimePasses
  <2>1. /\ UNCHANGED <<plan, at, pc, obs, reports, has, job, notice, history>>
        /\ late' = TRUE
    BY <1>5 DEF TimePasses, Untouched, gateway
  <2>q. QED
    BY <1>1, <2>1
       DEF ExecutionInv, ExecutionTypeOK, TurnKnown, GatewayKnown,
           ReportsKnown, Truthful, Stopped
<1>q. QED
  BY <1>2, <1>3, <1>4, <1>5

\* Every step of an execution keeps the invariant.
LEMMA ExecutionStep ==
  ASSUME ExecutionInv, [Next]_vars
  PROVE  ExecutionInv'
<1>1. CASE Client
  BY <1>1, TurnStep, BeforeWriteStep, WriteStep, WriteReceived, WaitStep,
     PollFailsStep
     DEF Client
<1>2. CASE TimePasses
  BY <1>2, WaitStep
<1>3. CASE CutShort
  BY <1>3, TurnStep
<1>4. CASE GatewayWorks
  BY <1>4, GatewayWorksStep
<1>5. CASE UNCHANGED vars
  BY <1>5, ZenonT(30)
     DEF vars, ExecutionInv, ExecutionTypeOK, TurnKnown, GatewayKnown,
         ReportsKnown, Truthful, Stopped
<1>q. QED
  BY <1>1, <1>2, <1>3, <1>4, <1>5 DEF Next

\* It holds before the first step.
LEMMA ExecutionInit == Init => ExecutionInv
<1> SUFFICES ASSUME Init
             PROVE  ExecutionInv
  OBVIOUS
<1>1. /\ reports = <<>> /\ at = 1 /\ pc = "ready" /\ job = NoStep
      /\ plan \in Plans /\ has \subseteq Steps /\ late = FALSE
      /\ obs = NothingSeen /\ notice = "none"
      /\ history = [received |-> {}, performed |-> {}]
  BY DEF Init
<1>2. ExecutionTypeOK
  <2>1. NothingSeen \in Evidence
    BY DEF NothingSeen, Evidence, Faults
  <2>2. /\ at \in 1..(Length + 1) /\ Len(reports) = at - 1
        /\ reports \in Seq(Report)
    BY <1>1, LengthAssumption
  <2>3. history \in [received : SUBSET Steps, performed : SUBSET Steps]
    BY <1>1
  <2>q. QED
    BY <1>1, <2>1, <2>2, <2>3 DEF ExecutionTypeOK
<1>3. TurnKnown
  BY <1>1 DEF TurnKnown, NothingSeen
<1>4. GatewayKnown /\ ReportsKnown
  BY <1>1 DEF GatewayKnown, ReportsKnown
<1>q. QED
  BY <1>2, <1>3, <1>4 DEF ExecutionInv

\* The inductive invariant of an execution, for every plan, every length and
\* any behaviour of the gateway: types, whose turn it is, what the gateway
\* works on, and every report against what was done (execute_restore_plan).
THEOREM ExecutionInvariant == Spec => []ExecutionInv
BY ExecutionInit, ExecutionStep, PTL DEF Spec

\* A report claims nothing that did not happen: what is said not to have been
\* sent never reached the gateway, "applied" is there and performed, and "not
\* performed" stays so, though the gateway may still work after the report
\* (_save_outcome).
THEOREM ReportsOfExecutionAreTrue == Spec => []ReportsAreTrue
<1>1. ExecutionInv => ReportsAreTrue
  <2> SUFFICES ASSUME ExecutionInv
               PROVE  ReportsAreTrue
    OBVIOUS
  <2>1. Over => history.received \subseteq DOMAIN reports
    <3> SUFFICES ASSUME Over
                 PROVE  history.received \subseteq DOMAIN reports
      OBVIOUS
    <3>1. at \notin history.received
      <4>1. CASE pc = "over"
        BY <4>1 DEF ExecutionInv, TurnKnown
      <4>2. CASE pc # "over"
        <5>1. at > Length /\ at \notin Steps
          BY <4>2, LengthAssumption DEF Over, Steps
        <5>q. QED
          BY <5>1 DEF ExecutionInv, ExecutionTypeOK
      <4>q. QED
        BY <4>1, <4>2
    <3>q. QED
      BY <3>1, Places DEF ExecutionInv, GatewayKnown
  <2>q. QED
    BY <2>1
       DEF ExecutionInv, ReportsKnown, Truthful, ReportsAreTrue,
           UnsentIsUntouched
<1>q. QED
  BY <1>1, ExecutionInvariant, PTL

\* The gateway is given a save only when it is through with the one before,
\* and none that it has performed: the wait and the steps after never post
\* twice.
THEOREM OneSaveAtOnce == Spec => OneSaveAtATime
<1>1. ASSUME ExecutionInv, [Next]_vars, job' \notin {job, NoStep}
      PROVE  job = NoStep /\ job' \notin history.performed
  <2>1. CASE Receive /\ Writes
    <3>1. ~Stopped /\ pc \in {"ready", "write", "continue"}
      BY <1>1, <2>1 DEF Writes, Due, Turn, ExecutionInv, TurnKnown
    <3>2. job' = at
      BY <2>1 DEF Receive
    <3>3. at \notin history.performed
      BY <1>1, <3>1 DEF ExecutionInv, TurnKnown, GatewayKnown
    <3>q. QED
      BY <1>1, <3>1, <3>2, <3>3, NothingWorkedOn
  <2>2. Receive /\ Writes
    <3>1. Client
      BY <1>1
         DEF Next, TimePasses, CutShort, GoOn, GatewayWorks, GatewayPerforms,
             GatewayDeclines, Untouched, gateway, vars
    <3>2. CASE \/ Skip \/ NotRun \/ Allocate \/ ReadEditor
               \/ ResolveForward \/ ReadWarning
      BY <1>1, <3>2
         DEF Skip, NotRun, Allocate, ReadEditor, ResolveForward, ReadWarning,
             GoOn, Untouched, gateway
    <3>3. CASE \/ WriteUnsent \/ WriteUnanswered \/ WriteTurnedAway
               \/ WriteErrored \/ WriteAccepted \/ WriteWarned
      BY <1>1, <3>3
         DEF WriteUnsent, WriteUnanswered, WriteTurnedAway, WriteErrored,
             WriteAccepted, WriteWarned, PerhapsReceive, Hold, Untouched,
             gateway
    <3>4. CASE LookAtAnswer \/ PollReads \/ PollFails \/ WaitOver
      BY <1>1, <3>4
         DEF LookAtAnswer, PollReads, PollFails, WaitOver, Look, GoOn,
             Untouched, gateway
    <3>q. QED
      BY <3>1, <3>2, <3>3, <3>4 DEF Client
  <2>q. QED
    BY <2>1, <2>2
<1>2. ExecutionInv /\ [Next]_vars =>
        [job' \notin {job, NoStep} => /\ job = NoStep
                                      /\ job' \notin history.performed]_vars
  BY <1>1
<1>q. QED
  BY <1>2, ExecutionInvariant, PTL DEF Spec, OneSaveAtATime

\* What Autorestore takes for granted about the ways a step can stop its pass
\* is what an execution does: the interface between the two modules.
THEOREM AutorestoreMayAssume == Spec => []AsAutorestoreAssumes
<1>1. ASSUME ExecutionInv, NEW i \in DOMAIN reports
      PROVE  LET kind == StopKind(reports[i]) IN
             /\ kind \in Stops \ {"unresolved"}
             /\ kind \in Unsent => i \notin history.received
             /\ kind \in {"moved", "movedSilent"} => plan[i] \in Lan
             /\ kind \in {"none", "rejected", "ackUnread"} => job # i
             /\ kind = "ackUnread" => i \in history.performed
             /\ kind # "none" =>
                  \A k \in DOMAIN reports :
                    k > i => reports[k].status = "not-run"
  <2> DEFINE r == reports[i]
  <2>1. /\ reports \in Seq(Report) /\ Length \in Nat /\ at \in 1..(Length + 1)
        /\ Len(reports) = at - 1 /\ plan \in Plans
    BY <1>1, LengthAssumption DEF ExecutionInv, ExecutionTypeOK
  <2>2. r \in Report /\ Truthful(i, r)
    <3>1. Truthful(i, r)
      BY <1>1 DEF ExecutionInv, ReportsKnown
    <3>q. QED
      BY <1>1, <2>1, <3>1
  <2>3. r.status = "reconnect-required" \/ r.moved =>
          \A k \in DOMAIN reports : ~(k > i)
    <3>1. \A k \in DOMAIN reports : k \in Steps /\ k \in Nat /\ k <= Length
      BY <2>1 DEF Steps
    <3>2. plan[i] \in Lan => i = Length
      BY <1>1, <2>1, <3>1 DEF Plans
    <3>3. r.status = "reconnect-required" \/ r.moved => i = Length
      BY <2>2, <3>2 DEF Truthful
    <3>q. QED
      BY <2>1, <3>1, <3>3
  <2>4. Stopping(r) =>
          \A k \in DOMAIN reports : k > i => reports[k].status = "not-run"
    BY <1>1 DEF ExecutionInv, ReportsKnown
  <2>5. CASE r.status = "reconnect-required" \/ r.moved
    <3>1. StopKind(r) \in {"moved", "movedSilent"}
      BY <2>5 DEF StopKind
    <3>q. QED
      BY <2>2, <2>3, <2>5, <3>1 DEF Truthful, Stops, Unsent, Unanswered
  <2>6. CASE r.status = "failed" /\ ~r.moved /\ ~r.attempted
    <3>1. StopKind(r) = BeforePost(r.fault) /\ r.fault \in Faults
      BY <2>2, <2>6 DEF StopKind, Report
    <3>2. StopKind(r) \in Unsent
      BY <3>1 DEF BeforePost, Faults, Unsent
    <3>q. QED
      BY <2>2, <2>4, <2>6, <3>2
         DEF Truthful, Stops, Unsent, Unanswered, Stopping
  <2>7. CASE r.status = "failed" /\ ~r.moved /\ r.attempted
    <3>1. StopKind(r) = AfterPost(r)
      BY <2>7 DEF StopKind
    <3>2. /\ AfterPost(r) \in {"ackUnread", "silentLost", "silent", "rejected"}
          /\ AfterPost(r) = "ackUnread" => r.acked
          /\ AfterPost(r) = "rejected" =>
               r.performed = "no" \/ r.acked \/ r.refusal
      BY <2>7 DEF AfterPost, UnansweredWrite
    <3>3. job = i => i \notin history.performed
      BY <1>1, Places DEF ExecutionInv, GatewayKnown
    <3>q. QED
      BY <2>2, <2>4, <2>7, <3>1, <3>2, <3>3
         DEF Truthful, Stops, Unsent, Unanswered, Stopping
  <2>8. CASE /\ r.status \notin {"reconnect-required", "failed"}
             /\ ~r.moved
    <3>1. StopKind(r) = "none"
      BY <2>8 DEF StopKind
    <3>q. QED
      BY <2>2, <2>8, <3>1 DEF Truthful, Stops, Unsent, Unanswered, Stopping
  <2>q. QED
    BY <2>5, <2>6, <2>7, <2>8
<1>2. ExecutionInv => AsAutorestoreAssumes
  BY <1>1 DEF AsAutorestoreAssumes
<1>q. QED
  BY <1>2, ExecutionInvariant, PTL
=============================================================================
