----------------------------- MODULE RestorePlan -----------------------------
(***************************************************************************)
(* The steps a restore plans from a dump and the live pages                 *)
(* (restore.build_restore_plan): which rows are added, which Remove button  *)
(* is pressed, what a form is sent, and what is blocked instead.            *)
(***************************************************************************)
EXTENDS AllocationPreflight

\* kind, page; of: the service, forward or device; at: the Remove button's
\* position; payload: the values a form is sent.
NoPayload == [f \in {} |-> Absent]
Step(kind, page, of) ==
  [kind |-> kind, page |-> page, of |-> of, at |-> 0, blocked |-> FALSE,
   deferred |-> FALSE, payload |-> NoPayload, fields |-> {}, moves |-> FALSE]
BlockedStep(kind, page, of) == [Step(kind, page, of) EXCEPT !.blocked = TRUE]

\* _block_step: what is blocked keeps no payload.
Block(step) == BlockedStep(step.kind, step.page, step.of)

SkipStep(page, fields) == [Step("skip", page, page) EXCEPT !.fields = fields]

Planned(steps, kinds) ==
  {i \in DOMAIN steps : steps[i].kind \in kinds /\ ~steps[i].blocked}

-----------------------------------------------------------------------------
(* Services and forwards                                                   *)

NamesOf(services) == {Fold[s.name] : s \in ToSet(services)}

\* _add_service_step
AddService(service, live) ==
  [Step("add-service", "services", service) EXCEPT !.blocked = ~live.menus]

\* Mutant of PlanService: only the differences are looked at for the name.
PlanServiceAnyway(service, diff, live, prune) ==
  IF Fold[service.name] \in NamesOf(diff.extraServices) /\ prune
  THEN <<>> ELSE <<AddService(service, live)>>

\* A service of the same name is only ever replaced, and only with --prune.
PlanService(service, diff, live, prune) ==
  IF Fold[service.name] \notin NamesOf(diff.extraServices)
  THEN IF Fold[service.name] \in NamesOf(live.services)
       THEN <<BlockedStep("add-service", "services", service)>>
       ELSE <<AddService(service, live)>>
  ELSE IF prune THEN <<>>
  ELSE <<BlockedStep("add-service", "services", service)>>

Replaced(diff, prune) ==
  IF prune
  THEN {s \in ToSet(diff.missingServices) :
          Fold[s.name] \in NamesOf(diff.extraServices)}
  ELSE {}

PlanServices(diff, live, prune) ==
  FlattenSeq([i \in DOMAIN diff.missingServices |->
                PlanService(diff.missingServices[i], diff, live, prune)])

\* The dropdown hides a service that has a forward; two devices of one label
\* cannot be told apart afterwards.
Offered(live) ==
  IF live.menus
  THEN (Builtin \cup {s.name : s \in ToSet(live.services)})
         \ {r.service : r \in ToSet(live.forwards)}
  ELSE {}

\* _forward_step
AddForward(forward, live, pendingNames) ==
  LET step == Step("add-forward", "apphosting", forward) IN
  IF forward.service \notin Offered(live)
  THEN IF forward.service \in pendingNames
       THEN [step EXCEPT !.deferred = TRUE] ELSE Block(step)
  ELSE IF forward.device \notin live.listed
          \/ MacsOf(live, forward.device) # {forward.device}
       THEN Block(step)
       ELSE step

PlanForwards(diff, live, prune, steps) ==
  LET names == {steps[i].of.name : i \in Planned(steps, {"add-service"})}
      replaced == {Fold[s.name] : s \in Replaced(diff, prune)}
  IN [i \in DOMAIN diff.missingForwards |->
        LET f == diff.missingForwards[i] IN
        IF Fold[f.service] \in replaced
        THEN BlockedStep("add-forward", "apphosting", f)
        ELSE AddForward(f, live, names)]

\* _remove_step: the button at the one row that matches.
RemoveRow(kind, page, of, matching, live) ==
  IF live.buttons /\ Cardinality(matching) = 1
  THEN [Step(kind, page, of) EXCEPT !.at = CHOOSE i \in matching : TRUE]
  ELSE BlockedStep(kind, page, of)

RemoveService(service, live) ==
  RemoveRow("remove-service", "services", service,
            {i \in DOMAIN live.services : live.services[i].name = service.name}, live)

RemoveForward(forward, live) ==
  RemoveRow("remove-forward", "apphosting", forward,
            {i \in DOMAIN live.forwards :
               /\ live.forwards[i].service = forward.service
               /\ live.label[live.forwards[i].device] = live.label[forward.device]}, live)

\* Mutant of BehindAdds: positions are trusted behind an add.
BehindAddsTrusted(removes, steps, page) == removes

\* Mutant of BehindAdds: an add that is blocked counts too.
BehindAnyAdd(removes, steps, page) ==
  IF \E i \in DOMAIN steps : steps[i].page = page
  THEN [i \in DOMAIN removes |-> Block(removes[i])]
  ELSE removes

\* _block_removes_behind_adds: an add may move the rows.
BehindAdds(removes, steps, page) ==
  IF \E i \in Planned(steps, {"add-service", "add-forward"}) : steps[i].page = page
  THEN [i \in DOMAIN removes |-> Block(removes[i])]
  ELSE removes

\* _apply_remove_limit: after one remove the others have moved.
Limited(removes) ==
  [i \in DOMAIN removes |->
     IF \E j \in 1..(i - 1) : ~removes[j].blocked THEN Block(removes[i])
     ELSE removes[i]]

\* _block_service_in_use: the gateway keeps a service that has a forward.
UnlessInUse(step, live, steps, read) ==
  LET removed == {steps[i].of : i \in Planned(steps, {"remove-forward"})}
      users == {r \in ToSet(live.forwards) : r.service = step.of.name}
  IN IF ~read \/ ~(users \subseteq removed) THEN Block(step) ELSE step

\* A replacement follows the remove it waits for.
Replacement(step, diff, live, prune) ==
  LET same == {s \in Replaced(diff, prune) : Fold[s.name] = Fold[step.of.name]} IN
  IF same = {} THEN <<step>>
  ELSE LET add == AddService(CHOOSE s \in same : TRUE, live)
       IN <<step, IF step.blocked THEN Block(add) ELSE add>>

PlanRemoves(diff, live, prune, selected, steps) ==
  LET forwards ==
        IF prune /\ "apphosting" \in selected
        THEN Limited(BehindAdds(
               [i \in DOMAIN diff.extraForwards |->
                  RemoveForward(diff.extraForwards[i], live)], steps, "apphosting"))
        ELSE <<>>
      sofar == steps \o forwards
      services ==
        IF prune /\ "services" \in selected
        THEN Limited(BehindAdds(
               [i \in DOMAIN diff.extraServices |->
                  UnlessInUse(RemoveService(diff.extraServices[i], live),
                              live, sofar, TRUE)], sofar, "services"))
        ELSE <<>>
  IN forwards \o FlattenSeq([i \in DOMAIN services |->
                              Replacement(services[i], diff, live, prune)])

-----------------------------------------------------------------------------
(* Reservations                                                            *)

\* _reserve_step: the Allocate button of the device's own row.
Reserve(device, live) ==
  [Step("reserve", "ipalloc", device) EXCEPT
     !.blocked = device \notin live.listed /\ live.fixed[device] = NoIp]

PlanReservations(diff, live) ==
  LET devices == SetToSeq(diff.reservations)
  IN [i \in DOMAIN devices |-> Reserve(devices[i], live)]

-----------------------------------------------------------------------------
(* Forms                                                                   *)

\* base_payload: what a browser would send for the page as it is.
BasePayload(form, page) ==
  [f \in {g \in form.shows :
            Enabled(form, g) /\ (g \in form.boxes => form.value[g] = "on")} |->
     form.value[f]]

Overlay(base, changes, omitted) ==
  [f \in (DOMAIN base \cup DOMAIN changes) \ omitted |->
     IF f \in DOMAIN changes THEN changes[f] ELSE base[f]]

LockingModes == {"allow"}

\* _mac_filter_lockout
LocksOut(page, applied, dump, live) ==
  /\ page = "wmacauth"
  /\ \E c \in applied : c.dump \in LockingModes
  /\ dump.filters = {} \/ ~(dump.filters \subseteq live.filters)

SaveForm(page, applied, off, form) ==
  LET given == [f \in {c.field : c \in applied \ off} |->
                  (CHOOSE c \in applied : c.field = f).dump]
  IN [Step("form", page, page) EXCEPT
        !.payload = Overlay(BasePayload(form, page), given,
                            {c.field : c \in off}),
        !.fields = {c.field : c \in applied},
        !.moves = \E c \in applied : c.field = "ipaddr"]

\* Mutant of Recorded: a control shown disabled is left alone.
RecordedEnabled(change) == change.dump # Absent /\ ~change.disabled

\* Only what the dump recorded can be restored, a control shown disabled too.
Recorded(change) == change.dump # Absent

\* The branch of build_restore_plan for form pages: a save needs a change of an
\* enabled field; the key is then sent although it is shown disabled; what is
\* not rendered, or marks a box that is no box, is left out.
PlanForm(page, diff, dump, live) ==
  LET form == live.forms[page]
      dumped == {c \in diff.forms[page] : Recorded(c)}
      Marks(c) == IsMarker(c.dump, dump.forms[page].text, c.field)
      shown == {c \in dumped : c.field \in form.shows}
      lost == {c \in dumped \ shown : ~Marks(c)}
      wrong == {c \in shown : Marks(c) /\ c.field \notin form.boxes}
      applied == shown \ wrong
      notes == (IF lost # {} THEN <<SkipStep(page, {c.field : c \in lost})>> ELSE <<>>)
               \o (IF lost = {} /\ shown = {}
                   THEN <<SkipStep(page, {c.field : c \in dumped})>> ELSE <<>>)
               \o (IF wrong # {} THEN <<SkipStep(page, {c.field : c \in wrong})>>
                   ELSE <<>>)
      off == {c \in applied : Marks(c)}
  IN IF dumped = {} THEN <<>>
     ELSE IF \A c \in dumped : c.field \in Disabled(form)
     THEN <<[BlockedStep("form", page, page) EXCEPT !.fields = {c.field : c \in dumped}]>>
     ELSE IF applied = {} THEN notes
     ELSE IF LocksOut(page, applied, dump, live)
     THEN Append(notes, [BlockedStep("form", page, page) EXCEPT
                           !.fields = {c.field : c \in applied}])
     ELSE Append(notes, SaveForm(page, applied, off, form))

-----------------------------------------------------------------------------

\* build_restore_plan, in RESTORE_PAGE_ORDER
Plan(dump, live, prune, selected) ==
  LET diff == Diff(dump, live, selected)
      Form(page) ==
        IF page \in MissingPages(dump, selected)
        THEN <<SkipStep(page, {})>>
        ELSE IF page \in selected THEN PlanForm(page, diff, dump, live) ELSE <<>>
      services == PlanServices(diff, live, prune)
      forwards == PlanForwards(diff, live, prune, services)
      removes == PlanRemoves(diff, live, prune, selected, services \o forwards)
  IN services \o forwards \o removes \o PlanReservations(diff, live)
     \o (IF "packetfilter" \in selected THEN <<SkipStep("packetfilter", {})>> ELSE <<>>)
     \o Form("wconfig") \o Form("wmacauth") \o Form("dhcpserver")
=============================================================================
