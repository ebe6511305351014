----------------------------- MODULE SnapshotDiff -----------------------------
(***************************************************************************)
(* What a dump records of the gateway, and how it differs from the live     *)
(* pages (snapshot.extract_snapshot, snapshot_diff.diff_snapshots).         *)
(*                                                                         *)
(* The live pages are a record:                                            *)
(*   services  the custom services table, in the order the page shows it    *)
(*   forwards  the NAT/Gaming table; a row shows its device by label only   *)
(*   fixed     the fixed allocations, device by device                      *)
(*   listed    the devices the gateway knows                                *)
(*   label     their labels, which need not differ                          *)
(*   forms     the form pages; filters is the MAC filter list               *)
(*   menus     the dropdowns offer what is looked for                       *)
(*   buttons   the Remove buttons line up with the rows                     *)
(***************************************************************************)
EXTENDS Naturals, Sequences, FiniteSets, SequencesExt

CONSTANTS
  Names,     \* names of services
  Builtin,   \* the services every gateway has; they are in no table
  Fold,      \* a name without regard to case
  Kinds,     \* ports and protocol of a service
  Devices,
  Ips,
  Labels

ASSUME SnapshotAssumption ==
  /\ Builtin \subseteq Names
  /\ Fold \in [Names -> Names]

Service == [name : Names, kind : Kinds]
Forward == [service : Names, device : Devices]

NoIp == "none"

-----------------------------------------------------------------------------
(* Form pages                                                              *)

\* A page with a dependent control, a page whose mode needs the filter list,
\* and the page that can move the gateway.
FormPages == {"wconfig", "wmacauth", "dhcpserver"}
Fields == [wconfig |-> {"security", "key", "box"},
           wmacauth |-> {"wmacr"},
           dhcpserver |-> {"ipaddr", "lease"}]
OptionalForms == {"wmacauth", "dhcpserver"}

Unchecked == "<unchecked>"
Absent == "absent"           \* neither recorded nor shown

\* A control is a checkbox or not; the key is enabled only with "wpa".
Enabled(form, f) == f = "key" => form.value["security"] = "wpa"
Rendered(form) == form.shows
Disabled(form) == {f \in form.shows : ~Enabled(form, f)}

\* _form_values: an unchecked box is recorded, a disabled control is not.
FormValue(form, f) ==
  IF f \notin form.shows \/ ~Enabled(form, f) THEN Absent
  ELSE IF f \in form.boxes /\ form.value[f] = "off" THEN Unchecked
  ELSE form.value[f]

\* _unchecked_text_fields
LiteralText(form) ==
  {f \in form.shows \ form.boxes : FormValue(form, f) = Unchecked}

\* What a dump keeps of a form page.
FormDump(page, form) ==
  [captured |-> TRUE,
   value |-> [f \in Fields[page] |-> FormValue(form, f)],
   text |-> LiteralText(form)]

-----------------------------------------------------------------------------
(* The dump of a gateway                                                   *)

MacsOf(live, device) == {d \in live.listed : live.label[d] = live.label[device]}

\* extract_snapshot refuses a forward whose label names no device, or two.
Extractable(live) ==
  \A i \in DOMAIN live.forwards :
    MacsOf(live, live.forwards[i].device) = {live.forwards[i].device}

DuplicateNames(services) ==
  {n \in Names : Cardinality({i \in DOMAIN services : Fold[services[i].name] = n}) > 1}

-----------------------------------------------------------------------------
(* The differences                                                         *)

ServiceKey == [s \in Service |-> <<Fold[s.name], s.kind>>]
ForwardKey == [f \in Forward |-> <<Fold[f.service], f.device>>]

\* The items that belong to a set, in their order.
Only(items, keep) ==
  LET kept[n \in 0..Len(items)] ==
        IF n = 0 THEN <<>>
        ELSE IF items[n] \in keep THEN Append(kept[n - 1], items[n]) ELSE kept[n - 1]
  IN kept[Len(items)]

\* _set_difference
Without(items, others, key) ==
  LET keys == {key[o] : o \in ToSet(others)}
  IN Only(items, {i \in ToSet(items) : key[i] \notin keys})

\* is_unchecked_marker, of a dump or of a live capture
IsMarker(value, text, f) == value = Unchecked /\ f \notin text

\* An off box and literal text are the same string; a dump without a record of
\* text cannot tell them apart.
SameText(dump, form, f) ==
  LET live == IsMarker(FormValue(form, f), LiteralText(form), f)
      dumped == IsMarker(dump.value[f], dump.text, f)
  IN dumped = live \/ (dump.text = {} /\ dumped /\ ~live)

Agree(dump, form, f) ==
  LET old == dump.value[f]
      new == FormValue(form, f)
  IN IF old = new
     THEN old = Unchecked => SameText(dump, form, f)
     ELSE old = Unchecked /\ new = Absent /\ IsMarker(old, dump.text, f)

FieldDiffs(dump, form, page) ==
  {[field |-> f, dump |-> dump.value[f], live |-> FormValue(form, f),
    disabled |-> f \in Disabled(form),
    unrendered |-> form.shows # {} /\ f \notin form.shows] :
       f \in {g \in Fields[page] : ~Agree(dump, form, g)}}

\* holds_convergence_open
Owed(c) == c.dump # Absent /\ ~c.disabled /\ ~c.unrendered

\* diff_snapshots for the selected pages
Diff(dump, live, selected) ==
  [missingServices |-> IF "services" \in selected
     THEN Without(dump.services, live.services, ServiceKey) ELSE <<>>,
   extraServices |-> IF "services" \in selected
     THEN Without(live.services, dump.services, ServiceKey) ELSE <<>>,
   missingForwards |-> IF "apphosting" \in selected
     THEN Without(dump.forwards, live.forwards, ForwardKey) ELSE <<>>,
   extraForwards |-> IF "apphosting" \in selected
     THEN Without(live.forwards, dump.forwards, ForwardKey) ELSE <<>>,
   reservations |-> IF "ipalloc" \in selected
     THEN {d \in Devices : dump.fixed[d] \notin {NoIp, live.fixed[d]}} ELSE {},
   forms |-> [p \in FormPages |->
     IF p \in selected /\ dump.forms[p].captured
     THEN FieldDiffs(dump.forms[p], live.forms[p], p) ELSE {}]]

\* restore_converged
Converged(diff, prune) ==
  /\ diff.missingServices = <<>> /\ diff.missingForwards = <<>>
  /\ diff.reservations = {}
  /\ \A p \in FormPages : \A c \in diff.forms[p] : ~Owed(c)
  /\ prune => diff.extraServices = <<>> /\ diff.extraForwards = <<>>

\* pages_missing_from_dump; the selection is the whole of it by default
MissingPages(dump, selected) ==
  IF "packetfilter" \in selected THEN {}
  ELSE {p \in FormPages \cap selected : ~dump.forms[p].captured}
=============================================================================
