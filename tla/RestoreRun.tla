------------------------------ MODULE RestoreRun ------------------------------
(***************************************************************************)
(* `bgwcli restore <dump> [--include] [--prune] [--commit]`, run after run   *)
(* until the gateway holds what the dump records (cli._run_restore): read    *)
(* the pages, clear the way for the reservations (AllocationPreflight), plan *)
(* (RestorePlan), execute the steps in order (restore.execute_restore, whose *)
(* requests StepExecution models one by one), read the pages again, tell.    *)
(*                                                                         *)
(* A step is one action here: what the gateway makes of its POST and what   *)
(* the client learns of it.  Nobody else writes to the gateway; its devices  *)
(* come and go.                                                             *)
(***************************************************************************)
EXTENDS RestorePlan, StepOutcome

CONSTANTS
  Starts,    \* [job, gw, leases]: what is restored, the pages and the leases
             \* the gateway starts with; a job is [dump, selected, prune]
  MaxFaults, \* bounds the requests that go wrong
  MaxMoves   \* bounds the devices that come up

\* What a control can be worth; a box is on or off.
Values == (STRING \cup {"on", "off"}) \ {Absent}
Form(page) ==
  {form \in [shows : SUBSET Fields[page], boxes : SUBSET Fields[page],
             value : [Fields[page] -> Values]] :
     \A f \in form.boxes : form.value[f] \in {"on", "off"}}
Pages ==
  [services : Seq(Service), forwards : Seq(Forward),
   fixed : [Devices -> Ips \cup {NoIp}], listed : SUBSET Devices,
   label : [Devices -> Labels],
   forms : [wconfig : Form("wconfig"), wmacauth : Form("wmacauth"),
            dhcpserver : Form("dhcpserver")],
   filters : SUBSET STRING, menus : BOOLEAN, buttons : BOOLEAN]

DumpedForm(page) ==
  [captured : BOOLEAN, value : [Fields[page] -> STRING], text : SUBSET Fields[page]]
\* The loader refuses a dump with two services of one name
\* (dumpfile._snapshot_problem).
Dumps ==
  {dump \in [services : Seq(Service), forwards : Seq(Forward),
             fixed : [Devices -> Ips \cup {NoIp}],
             forms : [wconfig : DumpedForm("wconfig"), wmacauth : DumpedForm("wmacauth"),
                      dhcpserver : DumpedForm("dhcpserver")],
             filters : SUBSET STRING] :
     DuplicateNames(dump.services) = {}}
Jobs == [dump : Dumps, selected : SUBSET STRING, prune : BOOLEAN]

ASSUME RestoreAssumption ==
  /\ Starts \subseteq [job : Jobs, gw : Pages, leases : SUBSET (Ips \X Devices)]
  /\ IsFiniteSet(Devices) /\ NoIp \notin Ips
  /\ MaxFaults \in Nat /\ MaxMoves \in Nat

VARIABLES
  job,      \* what is restored, and how
  commit,   \* this run writes
  pc, live, \* where the run is; the pages it planned from
  plan, results,
  exit,     \* its exit code
  faults, moves,
  unknown   \* for the properties: this run's POSTs of unknown fate

runVars == <<job, commit, pc, live, plan, results, exit, faults, moves, unknown>>
vars == <<preflightVars, runVars>>

NoExit == -1

Init ==
  /\ \E start \in Starts :
       job = start.job /\ gw = start.gw /\ leases = start.leases
  /\ commit = FALSE /\ pc = "done" /\ live = gw
  /\ plan = <<>> /\ results = <<>> /\ exit = NoExit
  /\ faults = 0 /\ moves = 0 /\ unknown = FALSE
  /\ pf = NoPreflight /\ since = {}

Gateway == <<gw, leases, since>>
Fault == faults < MaxFaults /\ faults' = faults + 1
End(code) == pc' = "done" /\ exit' = code

-----------------------------------------------------------------------------
(* Reading and clearing the way                                            *)

\* --include of pages the dump has none of is told, not restored.
NothingSelected ==
  /\ job.selected # {}
  /\ job.selected \subseteq MissingPages(job.dump, job.selected)

StartRun ==
  /\ pc = "done"
  /\ commit' \in BOOLEAN
  /\ IF NothingSelected THEN End(1) ELSE pc' = "fetch" /\ exit' = NoExit
  /\ plan' = <<>> /\ results' = <<>> /\ unknown' = FALSE
  /\ pf' = NoPreflight
  /\ UNCHANGED <<Gateway, job, live, faults, moves>>

Fetch ==
  /\ pc = "fetch"
  /\ live' = gw
  /\ pc' = IF Pending(job.dump, gw, job.selected) = {} THEN "plan" ELSE "preflight"
  /\ UNCHANGED <<preflightVars, job, commit, plan, results, exit, faults, moves, unknown>>

FetchFails ==
  /\ pc \in {"fetch", "refetch"} /\ Fault
  /\ End(2)
  /\ UNCHANGED <<preflightVars, job, commit, live, plan, results, moves, unknown>>

\* A dry run looks, and clears nothing.
PreflightSteps ==
  /\ pc = "preflight"
  /\ \/ Inspect(Pending(job.dump, live, job.selected))
     \/ ReadDevices \/ ReadAllocations \/ Judge(job.dump.fixed)
     \/ commit /\ ClearAnswered
     \/ BeginPoll \/ PollDevices \/ PollAllocations(job.dump.fixed)
     \/ RescanOver
  /\ UNCHANGED runVars

PreflightTime == pc = "preflight" /\ RescanTime /\ UNCHANGED runVars

PreflightFaults ==
  /\ pc = "preflight" /\ Fault
  /\ \/ InspectFails
     \/ commit /\ (ClearUnsent \/ ClearFails)
     \/ PollFails
  /\ UNCHANGED <<job, commit, pc, live, plan, results, exit, moves, unknown>>

\* With no conflict the plan is made of the pages read before; after a Clear
\* every page is read again.
PreflightPasses ==
  /\ pc = "preflight" /\ pf.stage = "verified"
  /\ pc' = IF pf.attempted THEN "refetch" ELSE "plan"
  /\ UNCHANGED <<preflightVars, job, commit, live, plan, results, exit, faults, moves, unknown>>

\* report_preflight_failure, or the dry run's report of what is in the way
PreflightEnds ==
  /\ pc = "preflight"
  /\ \/ pf.stage = "failed" /\ End(2)
     \/ pf.stage = "clear" /\ ~commit /\ End(0)
  /\ UNCHANGED <<preflightVars, job, commit, live, plan, results, faults, moves, unknown>>

\* "Never use the old plan inputs."
Refetch ==
  /\ pc = "refetch"
  /\ live' = gw /\ pc' = "plan"
  /\ UNCHANGED <<preflightVars, job, commit, plan, results, exit, faults, moves, unknown>>

-----------------------------------------------------------------------------
(* The plan                                                                *)

Readable(pages) == "apphosting" \in job.selected => Extractable(pages)

MakePlan ==
  /\ pc = "plan"
  /\ IF Readable(live)
     THEN /\ plan' = Plan(job.dump, live, job.prune, job.selected)
          /\ IF commit THEN pc' = "execute" /\ exit' = exit ELSE End(0)
     ELSE plan' = <<>> /\ End(2)
  /\ UNCHANGED <<preflightVars, job, commit, live, results, faults, moves, unknown>>

-----------------------------------------------------------------------------
(* The steps                                                               *)

At == Len(results) + 1
Current == plan[At]
Executing == pc = "execute" /\ At <= Len(plan)
Stopped == \E i \in DOMAIN results : Stopping(results[i])

\* What a step asks of the gateway, against the page as it now is.
Insertions(rows, row) == {InsertAt(rows, i, row) : i \in 1..(Len(rows) + 1)}

InUse(service) == \E i \in DOMAIN gw.forwards : gw.forwards[i].service = service.name

\* A saved form turns on the boxes it is sent and off the others.
Saved(form, payload) ==
  [form EXCEPT !.value =
     [f \in DOMAIN form.value |->
        IF f \in DOMAIN payload
        THEN IF f \in form.boxes THEN "on" ELSE payload[f]
        ELSE IF f \in form.shows \cap form.boxes THEN "off" ELSE form.value[f]]]

\* The gateways a POST may lead to; the one it is at when it does nothing.  A
\* table is kept in the gateway's own order, so a row may be added anywhere.
\* A service that has a forward is silently kept.
Effects(step) ==
  CASE step.kind = "add-service" ->
         {[gw EXCEPT !.services = rows] : rows \in Insertions(gw.services, step.of)}
    [] step.kind = "add-forward" ->
         {[gw EXCEPT !.forwards = rows] : rows \in Insertions(gw.forwards, step.of)}
    [] step.kind = "remove-service" ->
         IF step.at \notin DOMAIN gw.services THEN {gw}
         ELSE IF InUse(gw.services[step.at]) THEN {gw}
         ELSE {[gw EXCEPT !.services = RemoveAt(@, step.at)]}
    [] step.kind = "remove-forward" ->
         IF step.at \notin DOMAIN gw.forwards THEN {gw}
         ELSE {[gw EXCEPT !.forwards = RemoveAt(@, step.at)]}
    [] step.kind = "reserve" -> {[gw EXCEPT !.fixed[step.of] = job.dump.fixed[step.of]]}
    [] step.kind = "form" -> {[gw EXCEPT !.forms[step.page] = Saved(@, step.payload)]}

\* _postcondition_matches
Matches(step, pages) ==
  CASE step.kind = "add-service" -> step.of \in ToSet(pages.services)
    [] step.kind = "add-forward" -> step.of \in ToSet(pages.forwards)
    [] step.kind = "remove-service" ->
         ~ \E r \in ToSet(pages.services) : r.name = step.of.name
    [] step.kind = "remove-forward" ->
         ~ \E r \in ToSet(pages.forwards) :
             r.service = step.of.service /\ gw.label[r.device] = gw.label[step.of.device]
    [] step.kind = "reserve" -> pages.fixed[step.of] = job.dump.fixed[step.of]
    [] step.kind = "form" ->
         LET form == pages.forms[step.page]
             off == step.fields \ DOMAIN step.payload
         IN /\ \A f \in step.fields \ off :
                 FormValue(form, f) \in {step.payload[f]}
                   \cup (IF f \in Disabled(form) THEN {Absent} ELSE {})
            /\ \A f \in off : FormValue(form, f) \in {Unchecked, Absent}

\* The editor offers no address another device has.
NotOffered(device) ==
  \E o \in AllocationOwners : o[1] = job.dump.fixed[device] /\ o[2] # device

\* _run_deferred_forward and _run_follow_up look again when their turn comes.
Resolved(step) ==
  CASE step.deferred -> AddForward(step.of, gw, {})
    [] step.kind = "reserve" -> [step EXCEPT !.blocked = @ \/ NotOffered(step.of)]
    [] OTHER -> step

NothingSent ==
  [status |-> "blocked", attempted |-> FALSE, answered |-> FALSE, performed |-> "no",
   acked |-> FALSE, refusal |-> FALSE, moved |-> FALSE, fault |-> "none"]
Applied(step) == [NothingSent EXCEPT !.status = "applied", !.attempted = TRUE,
                    !.answered = TRUE, !.performed = "yes", !.acked = TRUE]

Tell(report) == results' = Append(results, report)

StepWithoutPost ==
  /\ Executing
  /\ \/ /\ Stopped
        /\ Tell([NothingSent EXCEPT !.status = "not-run"])
     \/ /\ ~Stopped /\ Current.kind = "skip"
        /\ Tell([NothingSent EXCEPT !.status = "skipped"])
     \/ /\ ~Stopped /\ Current.kind # "skip" /\ Resolved(Current).blocked
        /\ Tell(NothingSent)
  /\ UNCHANGED <<preflightVars, job, commit, pc, live, plan, exit, faults, moves, unknown>>

Posting == Executing /\ ~Stopped /\ Current.kind # "skip" /\ ~Resolved(Current).blocked

\* Answered and verified; what is not as asked afterwards has failed.
StepPosted ==
  /\ Posting /\ ~Current.moves
  /\ gw' \in Effects(Resolved(Current))
  /\ Tell(IF Matches(Current, gw') THEN Applied(Current)
          ELSE [Applied(Current) EXCEPT !.status = "failed"])
  /\ UNCHANGED <<leases, since, pf, job, commit, pc, live, plan, exit, faults, moves, unknown>>

\* A save that moves the gateway takes the rest of the run with it.
StepMoves ==
  /\ Posting /\ Current.moves
  /\ gw' \in Effects(Current)
  /\ \E answered \in BOOLEAN :
       /\ Tell([Applied(Current) EXCEPT !.status = "reconnect-required", !.moved = TRUE,
                  !.answered = answered, !.acked = FALSE, !.performed = "unknown"])
       /\ unknown' = ~answered
  /\ UNCHANGED <<leases, since, pf, job, commit, pc, live, plan, exit, faults, moves>>

\* The gateway says no with a banner.
StepRefused ==
  /\ Posting /\ Fault
  /\ Tell([Applied(Current) EXCEPT !.status = "failed", !.performed = "no",
             !.acked = FALSE, !.refusal = TRUE])
  /\ UNCHANGED <<preflightVars, job, commit, pc, live, plan, exit, moves, unknown>>

\* The connection, the session or the answer is lost, before the POST or after.
StepFails ==
  /\ Posting /\ Fault
  /\ \E fault \in Faults \ {"none"}, sent \in BOOLEAN :
       /\ Tell([NothingSent EXCEPT !.status = "failed", !.fault = fault, !.attempted = sent,
                  !.performed = IF sent THEN "unknown" ELSE "no"])
       /\ gw' \in IF sent THEN Effects(Resolved(Current)) \cup {gw} ELSE {gw}
       /\ unknown' = (unknown \/ sent)
  /\ UNCHANGED <<leases, since, pf, job, commit, pc, live, plan, exit, moves>>

StepsDone ==
  /\ pc = "execute" /\ At > Len(plan)
  /\ pc' = "verify"
  /\ UNCHANGED <<preflightVars, job, commit, live, plan, results, exit, faults, moves, unknown>>

-----------------------------------------------------------------------------
(* The verdict                                                             *)

Reports == ToSet(results)

\* The gateway moved, or the session went with the step: nothing is read.
Unverifiable ==
  \/ \E r \in Reports : r.status = "reconnect-required" \/ r.moved
  \/ \E r \in Reports : r.fault \in {"pool", "session"}

\* Mutant of ExitCode: the closing differences decide, whatever went unanswered.
ExitCodeOfDiff(after) ==
  IF Stopped \/ ~Converged(Diff(job.dump, after, job.selected), job.prune) THEN 1 ELSE 0

ExitCode(after) ==
  IF \/ \E r \in Reports : UnansweredWrite(r)
     \/ \E r \in Reports : r.status = "failed" /\ r.fault # "none"
  THEN 2
  ELSE IF Stopped \/ ~Converged(Diff(job.dump, after, job.selected), job.prune)
  THEN 1 ELSE 0

Verify ==
  /\ pc = "verify"
  /\ End(IF Unverifiable \/ ~Readable(gw) THEN 2 ELSE ExitCode(gw))
  /\ UNCHANGED <<preflightVars, job, commit, live, plan, results, faults, moves, unknown>>

VerifyFails ==
  /\ pc = "verify" /\ ~Unverifiable /\ Fault
  /\ End(2)
  /\ UNCHANGED <<preflightVars, job, commit, live, plan, results, moves, unknown>>

-----------------------------------------------------------------------------

DeviceComesUp ==
  /\ moves < MaxMoves /\ moves' = moves + 1
  /\ DeviceAppears
  /\ UNCHANGED <<job, commit, pc, live, plan, results, exit, faults, unknown>>

Run ==
  \/ Fetch \/ FetchFails
  \/ PreflightSteps \/ PreflightFaults \/ PreflightPasses \/ PreflightEnds \/ Refetch
  \/ MakePlan
  \/ StepWithoutPost \/ StepPosted \/ StepMoves \/ StepRefused \/ StepFails \/ StepsDone
  \/ Verify \/ VerifyFails

Next == StartRun \/ Run \/ PreflightTime \/ DeviceComesUp

Spec == Init /\ [][Next]_vars

\* The preflight goes on by itself: every request of it ends (RouterClient), and
\* time passes.
PreflightGoesOn == PreflightSteps \/ PreflightPasses \/ PreflightEnds
FairSpec == Spec /\ WF_vars(PreflightGoesOn) /\ WF_vars(PreflightTime)

-----------------------------------------------------------------------------
(* Properties                                                              *)

\* Rows that differ in the case of a name only are the same row.
Services(rows) == {<<Fold[s.name], s.kind>> : s \in ToSet(rows)}
Forwards(rows) == {<<Fold[f.service], f.device>> : f \in ToSet(rows)}

\* No step of a restore takes away a row the dump holds: a Remove button is a
\* position, and a position is only used while no earlier step of the run can
\* have moved the rows (restore._block_removes_behind_adds, _apply_remove_limit).
DumpedRowsStay ==
  [][/\ Services(job.dump.services) \cap Services(gw.services) \subseteq Services(gw'.services)
     /\ Forwards(job.dump.forwards) \cap Forwards(gw.forwards) \subseteq Forwards(gw'.forwards)]_vars

Held(name, services) ==
  Cardinality({i \in DOMAIN services : Fold[services[i].name] = Fold[name]})

\* "Restore never adds a second service with that name": a run never adds to a
\* name the gateway has a service of (build_restore_plan, the services branch).
OneServicePerName ==
  [][\A n \in Names : Held(n, gw'.services) > Held(n, gw.services)
                       => Held(n, gw.services) = 0]_vars

Visible(page, f) ==
  LET form == gw.forms[page] IN f \in form.shows /\ Enabled(form, f)

\* What the dump says of a form, in the gateway's own terms.
FieldHeld(page, f) ==
  LET dump == job.dump.forms[page] IN
  dump.value[f] # Absent /\ Visible(page, f) =>
    IF IsMarker(dump.value[f], dump.text, f)
    THEN f \in gw.forms[page].boxes => gw.forms[page].value[f] = "off"
    ELSE gw.forms[page].value[f] = dump.value[f]

\* A run that ends with exit 0 has left the gateway as the dump has it: every
\* service, forward and reservation of the selection, every control the pages
\* show, and with --prune no other row (restore_converged).
Restored ==
    /\ "services" \in job.selected =>
         /\ Services(job.dump.services) \subseteq Services(gw.services)
         /\ job.prune => Services(gw.services) = Services(job.dump.services)
    /\ "apphosting" \in job.selected =>
         /\ Forwards(job.dump.forwards) \subseteq Forwards(gw.forwards)
         /\ job.prune => Forwards(gw.forwards) = Forwards(job.dump.forwards)
    /\ "ipalloc" \in job.selected =>
         \A d \in Devices : job.dump.fixed[d] \in {NoIp, gw.fixed[d]}
    /\ \A page \in FormPages \cap job.selected :
         job.dump.forms[page].captured => \A f \in Fields[page] : FieldHeld(page, f)

\* The exit code can be relied on: 0 means restored, and a POST whose fate nobody
\* knows keeps the run at 2, however well the pages read afterwards
\* (unanswered_write_step, cli._run_restore).
ExitIsTrue ==
  pc = "done" => /\ commit /\ exit = 0 => Restored
                 /\ unknown => exit = 2

\* One save brings a form back, the control it turns on again included ("a
\* factory-reset recovery restores the SSID with the router's default password").
OneSaveRestoresForm ==
  \A i \in DOMAIN results :
    plan[i].kind = "form" /\ results[i].status = "applied" =>
      \A f \in Fields[plan[i].page] :
        FieldHeld(plan[i].page, f)

\* The dump is of a gateway that could be: a forward goes to a service there is,
\* and a service has one forward.
Meant(dump) ==
  /\ \A f \in ToSet(dump.forwards) :
       f.service \in Builtin \cup {s.name : s \in ToSet(dump.services)}
  /\ \A f, g \in ToSet(dump.forwards) : Fold[f.service] = Fold[g.service] => f = g

\* Nothing a restore could go by is in the way: the dropdowns and the buttons
\* are there, no two rows are alike, every device is known and told apart, and
\* no wanted service has the name of one that a wanted forward goes to.
Passable ==
  /\ job.prune /\ live.menus /\ live.buttons /\ Meant(job.dump)
  /\ \A i, j \in DOMAIN live.services : live.services[i].name = live.services[j].name => i = j
  /\ \A i, j \in DOMAIN live.forwards : live.forwards[i] = live.forwards[j] => i = j
  /\ Devices = live.listed /\ \A d \in Devices : MacsOf(live, d) = {d}
  /\ \A f \in ToSet(live.forwards), s \in ToSet(live.services) :
       s.name = f.service /\ Forwards(<<f>>) \subseteq Forwards(job.dump.forwards)
         => Services(<<s>>) \subseteq Services(job.dump.services)
  /\ \A s \in ToSet(live.services), w \in ToSet(job.dump.services) :
       Fold[s.name] = Fold[w.name] => s.name = w.name
  /\ {"services", "apphosting"} \subseteq job.selected

RowsDiffer ==
  LET diff == Diff(job.dump, live, job.selected) IN
  \/ diff.missingServices # <<>> \/ diff.extraServices # <<>>
  \/ diff.missingForwards # <<>> \/ diff.extraForwards # <<>>

\* The rules that block a step for a later run never block every step: while
\* rows differ, a run with --prune has one that goes out, or repeating the
\* restore would never end (build_restore_plan).
SomeStepGoesOut ==
  pc = "execute" /\ Passable /\ RowsDiffer =>
    Planned(plan, {"add-service", "add-forward", "remove-service", "remove-forward"}) # {}

\* The polling ends, although devices take the address again and again
\* (rescan_allocation_conflicts).
PollingEnds == pc = "preflight" ~> pc # "preflight"
=============================================================================
