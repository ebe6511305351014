--------------------------- MODULE RestoreRunProofs ---------------------------
(***************************************************************************)
(* Proofs about RestoreRun, for every set of devices, names, addresses and *)
(* fields, and any number of faults: the exit code is true, the rows of    *)
(* the dump stay, no service is added twice, a save that is told applied   *)
(* holds, and where rows differ a run with --prune has a step that goes    *)
(* out.                                                                    *)
(*                                                                         *)
(* RestoreInv is inductive (StepKeeps, one lemma for each action).  What a *)
(* step may do comes from what the planner made of it (WholePlan), since   *)
(* the table it is for is as the planner read it (PagesStill).             *)
(***************************************************************************)
EXTENDS RestoreRunInvariant, RestorePlanProofs

-----------------------------------------------------------------------------
(* The pages                                                               *)

FormTables ==
  [wconfig : Form("wconfig"), wmacauth : Form("wmacauth"), dhcpserver : Form("dhcpserver")]

\* The pages of a gateway, as one record.
LEMMA PagesWhole ==
  ASSUME NEW g \in Pages
  PROVE  /\ g = [services |-> g.services, forwards |-> g.forwards, fixed |-> g.fixed,
                 listed |-> g.listed, label |-> g.label, forms |-> g.forms,
                 filters |-> g.filters, menus |-> g.menus, buttons |-> g.buttons]
         /\ g.services \in Seq(Service) /\ g.forwards \in Seq(Forward)
         /\ g.fixed \in [Devices -> Ips \cup {NoIp}] /\ g.listed \in SUBSET Devices
         /\ g.forms \in FormTables
BY DEF Pages, FormTables

Others(n, g) == n.fixed = g.fixed /\ n.listed = g.listed
SameRows(n, g) == n.services = g.services /\ n.forwards = g.forwards

\* A record of pages but for one field.
LEMMA PagesExcept ==
  ASSUME NEW a, NEW b, NEW c, NEW d, NEW e, NEW f, NEW h, NEW i, NEW j, NEW v,
         NEW g, g = [services |-> a, forwards |-> b, fixed |-> c, listed |-> d, label |-> e,
              forms |-> f, filters |-> h, menus |-> i, buttons |-> j]
  PROVE  /\ [g EXCEPT !.services = v] =
             [services |-> v, forwards |-> b, fixed |-> c, listed |-> d, label |-> e,
              forms |-> f, filters |-> h, menus |-> i, buttons |-> j]
         /\ [g EXCEPT !.forwards = v] =
             [services |-> a, forwards |-> v, fixed |-> c, listed |-> d, label |-> e,
              forms |-> f, filters |-> h, menus |-> i, buttons |-> j]
         /\ [g EXCEPT !.fixed = v] =
             [services |-> a, forwards |-> b, fixed |-> v, listed |-> d, label |-> e,
              forms |-> f, filters |-> h, menus |-> i, buttons |-> j]
         /\ [g EXCEPT !.listed = v] =
             [services |-> a, forwards |-> b, fixed |-> c, listed |-> v, label |-> e,
              forms |-> f, filters |-> h, menus |-> i, buttons |-> j]
         /\ [g EXCEPT !.forms = v] =
             [services |-> a, forwards |-> b, fixed |-> c, listed |-> d, label |-> e,
              forms |-> v, filters |-> h, menus |-> i, buttons |-> j]
OBVIOUS

\* The pages with one table changed, as one record.
LEMMA PagesChange ==
  ASSUME NEW g \in Pages, NEW v
  PROVE  /\ [g EXCEPT !.services = v] =
             [services |-> v, forwards |-> g.forwards, fixed |-> g.fixed,
              listed |-> g.listed, label |-> g.label, forms |-> g.forms,
              filters |-> g.filters, menus |-> g.menus, buttons |-> g.buttons]
         /\ [g EXCEPT !.forwards = v] =
             [services |-> g.services, forwards |-> v, fixed |-> g.fixed,
              listed |-> g.listed, label |-> g.label, forms |-> g.forms,
              filters |-> g.filters, menus |-> g.menus, buttons |-> g.buttons]
         /\ [g EXCEPT !.fixed = v] =
             [services |-> g.services, forwards |-> g.forwards, fixed |-> v,
              listed |-> g.listed, label |-> g.label, forms |-> g.forms,
              filters |-> g.filters, menus |-> g.menus, buttons |-> g.buttons]
         /\ [g EXCEPT !.listed = v] =
             [services |-> g.services, forwards |-> g.forwards, fixed |-> g.fixed,
              listed |-> v, label |-> g.label, forms |-> g.forms,
              filters |-> g.filters, menus |-> g.menus, buttons |-> g.buttons]
         /\ [g EXCEPT !.forms = v] =
             [services |-> g.services, forwards |-> g.forwards, fixed |-> g.fixed,
              listed |-> g.listed, label |-> g.label, forms |-> v,
              filters |-> g.filters, menus |-> g.menus, buttons |-> g.buttons]
<1> DEFINE a == g.services
           b == g.forwards
           c == g.fixed
           d == g.listed
           e == g.label
           f == g.forms
           h == g.filters
           i == g.menus
           j == g.buttons
<1>1. g = [services |-> a, forwards |-> b, fixed |-> c, listed |-> d, label |-> e,
              forms |-> f, filters |-> h, menus |-> i, buttons |-> j]
  BY PagesWhole
<1> HIDE DEF a, b, c, d, e, f, h, i, j
<1>2. [g EXCEPT !.services = v] =
      [services |-> v, forwards |-> b, fixed |-> c, listed |-> d, label |-> e,
              forms |-> f, filters |-> h, menus |-> i, buttons |-> j]
  BY <1>1, PagesExcept
<1>3. [g EXCEPT !.forwards = v] =
      [services |-> a, forwards |-> v, fixed |-> c, listed |-> d, label |-> e,
              forms |-> f, filters |-> h, menus |-> i, buttons |-> j]
  BY <1>1, PagesExcept
<1>4. [g EXCEPT !.fixed = v] =
      [services |-> a, forwards |-> b, fixed |-> v, listed |-> d, label |-> e,
              forms |-> f, filters |-> h, menus |-> i, buttons |-> j]
  BY <1>1, PagesExcept
<1>5. [g EXCEPT !.listed = v] =
      [services |-> a, forwards |-> b, fixed |-> c, listed |-> v, label |-> e,
              forms |-> f, filters |-> h, menus |-> i, buttons |-> j]
  BY <1>1, PagesExcept
<1>6. [g EXCEPT !.forms = v] =
      [services |-> a, forwards |-> b, fixed |-> c, listed |-> d, label |-> e,
              forms |-> v, filters |-> h, menus |-> i, buttons |-> j]
  BY <1>1, PagesExcept
<1> QED BY <1>2, <1>3, <1>4, <1>5, <1>6 DEF a, b, c, d, e, f, h, i, j

\* A function changed at one point.
LEMMA Changed ==
  ASSUME NEW D, NEW V, NEW y \in [D -> V], NEW d \in D, NEW v \in V
  PROVE  [y EXCEPT ![d] = v] \in [D -> V]
OBVIOUS

\* A device is listed or not: no table changes.
LEMMA ListedChange ==
  ASSUME NEW g \in Pages, NEW l \in SUBSET Devices
  PROVE  \A n : n = [g EXCEPT !.listed = l] =>
           /\ n \in Pages /\ SameRows(n, g) /\ n.fixed = g.fixed /\ n.forms = g.forms
           /\ n.listed = l
<1>1. /\ g.services \in Seq(Service) /\ g.forwards \in Seq(Forward)
      /\ g.fixed \in [Devices -> Ips \cup {NoIp}] /\ g.listed \in SUBSET Devices
      /\ g.forms \in FormTables
  BY PagesWhole
<1>2. /\ g.label \in [Devices -> Labels] /\ g.filters \in SUBSET STRING
      /\ g.menus \in BOOLEAN /\ g.buttons \in BOOLEAN
  BY DEF Pages
<1> SUFFICES ASSUME NEW n, n = [g EXCEPT !.listed = l]
             PROVE
           /\ n \in Pages /\ SameRows(n, g) /\ n.fixed = g.fixed /\ n.forms = g.forms
           /\ n.listed = l
  OBVIOUS
<1>4. n = [services |-> g.services, forwards |-> g.forwards, fixed |-> g.fixed,
           listed |-> l, label |-> g.label, forms |-> g.forms,
           filters |-> g.filters, menus |-> g.menus, buttons |-> g.buttons]
  BY PagesChange, Zenon
<1>5. n \in Pages
  BY <1>1, <1>2, <1>4 DEF Pages, FormTables
<1> QED BY <1>4, <1>5 DEF SameRows, Others

\* The table of services changes, nothing else.
LEMMA ServicesChange ==
  ASSUME NEW g \in Pages, NEW s \in Seq(Service)
  PROVE  \A n : n = [g EXCEPT !.services = s] =>
           /\ n \in Pages /\ n.services = s /\ n.forwards = g.forwards /\ n.forms = g.forms
           /\ Others(n, g)
<1>1. /\ g.services \in Seq(Service) /\ g.forwards \in Seq(Forward)
      /\ g.fixed \in [Devices -> Ips \cup {NoIp}] /\ g.listed \in SUBSET Devices
      /\ g.forms \in FormTables
  BY PagesWhole
<1>2. /\ g.label \in [Devices -> Labels] /\ g.filters \in SUBSET STRING
      /\ g.menus \in BOOLEAN /\ g.buttons \in BOOLEAN
  BY DEF Pages
<1> SUFFICES ASSUME NEW n, n = [g EXCEPT !.services = s]
             PROVE
           /\ n \in Pages /\ n.services = s /\ n.forwards = g.forwards /\ n.forms = g.forms
           /\ Others(n, g)
  OBVIOUS
<1>4. n = [services |-> s, forwards |-> g.forwards, fixed |-> g.fixed,
           listed |-> g.listed, label |-> g.label, forms |-> g.forms,
           filters |-> g.filters, menus |-> g.menus, buttons |-> g.buttons]
  BY PagesChange, Zenon
<1>5. n \in Pages
  BY <1>1, <1>2, <1>4 DEF Pages, FormTables
<1> QED BY <1>4, <1>5 DEF SameRows, Others

\* The table of forwards changes, nothing else.
LEMMA ForwardsChange ==
  ASSUME NEW g \in Pages, NEW f \in Seq(Forward)
  PROVE  \A n : n = [g EXCEPT !.forwards = f] =>
           /\ n \in Pages /\ n.services = g.services /\ n.forwards = f /\ n.forms = g.forms
           /\ Others(n, g)
<1>1. /\ g.services \in Seq(Service) /\ g.forwards \in Seq(Forward)
      /\ g.fixed \in [Devices -> Ips \cup {NoIp}] /\ g.listed \in SUBSET Devices
      /\ g.forms \in FormTables
  BY PagesWhole
<1>2. /\ g.label \in [Devices -> Labels] /\ g.filters \in SUBSET STRING
      /\ g.menus \in BOOLEAN /\ g.buttons \in BOOLEAN
  BY DEF Pages
<1> SUFFICES ASSUME NEW n, n = [g EXCEPT !.forwards = f]
             PROVE
           /\ n \in Pages /\ n.services = g.services /\ n.forwards = f /\ n.forms = g.forms
           /\ Others(n, g)
  OBVIOUS
<1>4. n = [services |-> g.services, forwards |-> f, fixed |-> g.fixed,
           listed |-> g.listed, label |-> g.label, forms |-> g.forms,
           filters |-> g.filters, menus |-> g.menus, buttons |-> g.buttons]
  BY PagesChange, Zenon
<1>5. n \in Pages
  BY <1>1, <1>2, <1>4 DEF Pages, FormTables
<1> QED BY <1>4, <1>5 DEF SameRows, Others

\* A reservation changes neither the rows nor the forms.
LEMMA FixedChange ==
  ASSUME NEW g \in Pages, NEW x \in [Devices -> Ips \cup {NoIp}]
  PROVE  \A n : n = [g EXCEPT !.fixed = x] =>
           n \in Pages /\ SameRows(n, g) /\ n.forms = g.forms
<1>1. /\ g.services \in Seq(Service) /\ g.forwards \in Seq(Forward)
      /\ g.fixed \in [Devices -> Ips \cup {NoIp}] /\ g.listed \in SUBSET Devices
      /\ g.forms \in FormTables
  BY PagesWhole
<1>2. /\ g.label \in [Devices -> Labels] /\ g.filters \in SUBSET STRING
      /\ g.menus \in BOOLEAN /\ g.buttons \in BOOLEAN
  BY DEF Pages
<1> SUFFICES ASSUME NEW n, n = [g EXCEPT !.fixed = x]
             PROVE
           n \in Pages /\ SameRows(n, g) /\ n.forms = g.forms
  OBVIOUS
<1>4. n = [services |-> g.services, forwards |-> g.forwards, fixed |-> x,
           listed |-> g.listed, label |-> g.label, forms |-> g.forms,
           filters |-> g.filters, menus |-> g.menus, buttons |-> g.buttons]
  BY PagesChange, Zenon
<1>5. n \in Pages
  BY <1>1, <1>2, <1>4 DEF Pages, FormTables
<1> QED BY <1>4, <1>5 DEF SameRows, Others

\* The forms change, not the rows.
LEMMA FormsChange ==
  ASSUME NEW g \in Pages, NEW m \in FormTables
  PROVE  \A n : n = [g EXCEPT !.forms = m] =>
           n \in Pages /\ SameRows(n, g) /\ Others(n, g) /\ n.forms = m
<1>1. /\ g.services \in Seq(Service) /\ g.forwards \in Seq(Forward)
      /\ g.fixed \in [Devices -> Ips \cup {NoIp}] /\ g.listed \in SUBSET Devices
      /\ g.forms \in FormTables
  BY PagesWhole
<1>2. /\ g.label \in [Devices -> Labels] /\ g.filters \in SUBSET STRING
      /\ g.menus \in BOOLEAN /\ g.buttons \in BOOLEAN
  BY DEF Pages
<1> SUFFICES ASSUME NEW n, n = [g EXCEPT !.forms = m]
             PROVE
           n \in Pages /\ SameRows(n, g) /\ Others(n, g) /\ n.forms = m
  OBVIOUS
<1>4. n = [services |-> g.services, forwards |-> g.forwards, fixed |-> g.fixed,
           listed |-> g.listed, label |-> g.label, forms |-> m,
           filters |-> g.filters, menus |-> g.menus, buttons |-> g.buttons]
  BY PagesChange, Zenon
<1>5. n \in Pages
  BY <1>1, <1>2, <1>4 DEF Pages, FormTables
<1> QED BY <1>4, <1>5 DEF SameRows, Others

\* One form changes, not the others.
LEMMA FormChange ==
  ASSUME NEW m \in FormTables, NEW page \in FormPages, NEW form \in Form(page)
  PROVE  /\ [m EXCEPT ![page] = form] \in FormTables
         /\ [m EXCEPT ![page] = form][page] = form
         /\ \A other \in FormPages \ {page} : [m EXCEPT ![page] = form][other] = m[other]
<1>1. page = "wconfig" \/ page = "wmacauth" \/ page = "dhcpserver"
  BY DEF FormPages
<1> DEFINE a == m["wconfig"]
           b == m["wmacauth"]
           c == m["dhcpserver"]
           n == [m EXCEPT ![page] = form]
<1>2. /\ m = [wconfig |-> a, wmacauth |-> b, dhcpserver |-> c]
      /\ a \in Form("wconfig") /\ b \in Form("wmacauth") /\ c \in Form("dhcpserver")
  BY DEF FormTables
<1> HIDE DEF a, b, c
<1>3. CASE page = "wconfig"
  <2>1. n = [wconfig |-> form, wmacauth |-> b, dhcpserver |-> c]
    BY <1>2, <1>3
  <2> HIDE DEF n
  <2> QED BY <1>2, <1>3, <2>1 DEF FormTables, FormPages, n
<1>4. CASE page = "wmacauth"
  <2>1. n = [wconfig |-> a, wmacauth |-> form, dhcpserver |-> c]
    BY <1>2, <1>4
  <2> HIDE DEF n
  <2> QED BY <1>2, <1>4, <2>1 DEF FormTables, FormPages, n
<1>5. CASE page = "dhcpserver"
  <2>1. n = [wconfig |-> a, wmacauth |-> b, dhcpserver |-> form]
    BY <1>2, <1>5
  <2> HIDE DEF n
  <2> QED BY <1>2, <1>5, <2>1 DEF FormTables, FormPages, n
<1> QED BY <1>1, <1>3, <1>4, <1>5

-----------------------------------------------------------------------------
(* The preflight                                                           *)

PreflightKnown(wanted) ==
  /\ pf \in Preflights /\ gw \in Pages
  /\ leases \subseteq Ips \X Devices /\ since \subseteq Ips \X Devices
  /\ OwnersKnown /\ VerifiedIsFree(wanted)

\* Only which devices are listed has changed.
TablesKept ==
  SameRows(gw', gw) /\ gw'.fixed = gw.fixed /\ gw'.forms = gw.forms

\* What a read may see.
LEMMA OwnersTyped ==
  ASSUME gw \in Pages, leases \subseteq Ips \X Devices
  PROVE  /\ Fixed(gw.fixed) \subseteq Ips \X Devices
         /\ DeviceOwners \in SUBSET (Ips \X Devices)
         /\ AllocationOwners \in SUBSET (Ips \X Devices)
         /\ gw.fixed \in [Devices -> Ips \cup {NoIp}]
<1>1. Fixed(gw.fixed) \subseteq Ips \X Devices
  BY DEF Fixed
<1>2. gw.fixed \in [Devices -> Ips \cup {NoIp}]
  BY PagesFields
<1> QED BY <1>1, <1>2 DEF DeviceOwners, AllocationOwners

\* The preflight decides which devices to look at.
LEMMA InspectKeeps ==
  ASSUME NEW wanted, PreflightKnown(wanted), NEW requests \in SUBSET Devices, Inspect(requests)
  PROVE  PreflightKnown(wanted)' /\ TablesKept
<1>1. gw' = gw /\ leases' = leases /\ since' = since
  BY DEF Inspect, Quiet
<1>2. PICK captured \in BOOLEAN :
       pf' = [NoPreflight EXCEPT !.stage = "devices", !.requests = requests,
                !.captured = captured, !.fixed = gw.fixed,
                !.owners = IF captured THEN AllocationOwners ELSE {}]
  BY DEF Inspect
<1>3. /\ AllocationOwners \in SUBSET (Ips \X Devices)
      /\ gw.fixed \in [Devices -> Ips \cup {NoIp}]
  BY OwnersTyped DEF PreflightKnown
<1> DEFINE owners == IF captured THEN AllocationOwners ELSE {}
<1>4. pf' = [stage |-> "devices", requests |-> requests, owners |-> owners,
             captured |-> captured, fixed |-> gw.fixed, conflicts |-> {}, clear |-> FALSE,
             late |-> FALSE, attempted |-> FALSE, accepted |-> FALSE, cleared |-> FALSE,
             error |-> "none"]
  BY <1>2 DEF NoPreflight
<1>5. owners \in SUBSET (Ips \X Devices)
  BY <1>3
<1>6. captured => owners = AllocationOwners
  OBVIOUS
<1> HIDE DEF owners
<1>7. pf' \in Preflights
  BY <1>3, <1>4, <1>5 DEF Preflights, Stages
<1>8. pf'.stage = "devices" /\ pf'.owners = owners /\ pf'.captured = captured
  BY <1>4
<1>9. OwnersKnown'
  BY <1>1, <1>6, <1>8 DEF OwnersKnown, AllocationOwners, Fixed
<1>10. VerifiedIsFree(wanted)'
  BY <1>8 DEF VerifiedIsFree
<1> QED BY <1>1, <1>7, <1>9, <1>10 DEF PreflightKnown, TablesKept, SameRows

\* It reads the device list.
LEMMA ReadDevicesKeeps ==
  ASSUME NEW wanted, PreflightKnown(wanted), ReadDevices
  PROVE  PreflightKnown(wanted)' /\ TablesKept
<1>1. gw' = gw /\ leases' = leases /\ since' = {}
  BY DEF ReadDevices
<1>2. PICK clear \in BOOLEAN :
       pf' = [pf EXCEPT !.stage = IF pf.captured THEN "decide" ELSE "allocations",
                        !.owners = @ \cup DeviceOwners, !.clear = clear]
  BY DEF ReadDevices
<1>3. DeviceOwners \in SUBSET (Ips \X Devices) /\ pf.owners \in SUBSET (Ips \X Devices)
  BY OwnersTyped DEF PreflightKnown, Preflights
<1>4. pf \in Preflights
  BY DEF PreflightKnown
<1> HIDE DEF DeviceOwners
<1> DEFINE owners == pf.owners \cup DeviceOwners
           stage == IF pf.captured THEN "decide" ELSE "allocations"
<1>5. owners \in SUBSET (Ips \X Devices) /\ stage \in Stages
  BY <1>3 DEF Stages
<1>6. pf' = [pf EXCEPT !.stage = stage, !.owners = owners, !.clear = clear]
  BY <1>2, <1>4 DEF Preflights
<1>7. stage \in {"decide", "allocations"} /\ (stage = "decide" => pf.captured)
  OBVIOUS
<1>8. pf.owners \subseteq owners /\ DeviceOwners \subseteq owners
  OBVIOUS
<1> HIDE DEF owners, stage
<1>9. pf' \in Preflights /\ pf'.stage = stage /\ pf'.owners = owners
  BY <1>4, <1>5, <1>6 DEF Preflights
<1>10. leases \subseteq DeviceOwners
  BY DEF DeviceOwners
<1>11. pf.captured => Fixed(gw.fixed) \subseteq pf.owners
  BY DEF PreflightKnown, OwnersKnown, ReadDevices
<1>12. OwnersKnown'
  BY <1>1, <1>7, <1>8, <1>9, <1>10, <1>11 DEF OwnersKnown, Fixed
<1>13. VerifiedIsFree(wanted)'
  BY <1>7, <1>9 DEF VerifiedIsFree
<1> QED BY <1>1, <1>9, <1>12, <1>13 DEF PreflightKnown, TablesKept, SameRows

\* It reads the allocations.
LEMMA ReadAllocationsKeeps ==
  ASSUME NEW wanted, PreflightKnown(wanted), ReadAllocations
  PROVE  PreflightKnown(wanted)' /\ TablesKept
<1>1. gw' = gw /\ leases' = leases /\ since' = since
  BY DEF ReadAllocations, Quiet
<1>2. pf' = [pf EXCEPT !.stage = "decide", !.fixed = gw.fixed,
                      !.owners = @ \cup AllocationOwners]
  BY DEF ReadAllocations
<1>3. /\ AllocationOwners \in SUBSET (Ips \X Devices) /\ pf.owners \in SUBSET (Ips \X Devices)
      /\ gw.fixed \in [Devices -> Ips \cup {NoIp}]
  BY OwnersTyped DEF PreflightKnown, Preflights
<1>4. pf \in Preflights
  BY DEF PreflightKnown
<1> DEFINE owners == pf.owners \cup AllocationOwners
           fixed == gw.fixed
<1>5. owners \in SUBSET (Ips \X Devices) /\ "decide" \in Stages
      /\ fixed \in [Devices -> Ips \cup {NoIp}]
  BY <1>3 DEF Stages
<1>6. pf' = [pf EXCEPT !.stage = "decide", !.fixed = fixed, !.owners = owners]
  BY <1>2, <1>4 DEF Preflights
<1>7. pf.owners \subseteq owners /\ leases \subseteq owners /\ Fixed(gw.fixed) \subseteq owners
  BY DEF AllocationOwners
<1> HIDE DEF owners, fixed
<1>8. pf' \in Preflights /\ pf'.stage = "decide" /\ pf'.owners = owners
  BY <1>4, <1>5, <1>6 DEF Preflights
<1>9. OwnersKnown'
  BY <1>1, <1>7, <1>8 DEF OwnersKnown, Fixed
<1>10. VerifiedIsFree(wanted)'
  BY <1>8 DEF VerifiedIsFree
<1> QED BY <1>1, <1>8, <1>9, <1>10 DEF PreflightKnown, TablesKept, SameRows

\* With no conflict found nobody else owns an asked address.
LEMMA NoConflicts ==
  ASSUME pf \in Preflights, NEW wanted \in [Devices -> Ips \cup {NoIp}],
         NEW owners \in SUBSET (Ips \X Devices), NEW fixed \in [Devices -> Ips \cup {NoIp}],
         Conflicts(wanted, owners, fixed) = {},
         NEW d \in pf.requests, NEW h \in Devices \ {d}
  PROVE  <<wanted[d], h>> \notin owners
<1> SUFFICES ASSUME <<wanted[d], h>> \in owners PROVE FALSE
  OBVIOUS
<1>1. d \in Devices /\ wanted[d] \in Ips
  BY DEF Preflights
<1> DEFINE c == [ip |-> wanted[d], target |-> d, holder |-> h, fixed |-> fixed[h] = wanted[d]]
<1>2. c \in Conflict
  BY <1>1 DEF Conflict
<1>3. c \in Conflicts(wanted, owners, fixed)
  BY <1>2 DEF Conflicts
<1> QED BY <1>3

\* Conflicts are of the devices and addresses there are.
LEMMA ConflictsTyped ==
  ASSUME NEW wanted, NEW owners, NEW fixed
  PROVE  Conflicts(wanted, owners, fixed) \in SUBSET Conflict
BY DEF Conflicts

\* It judges what it read.
LEMMA JudgeKeeps ==
  ASSUME NEW wanted \in [Devices -> Ips \cup {NoIp}], PreflightKnown(wanted), Judge(wanted)
  PROVE  PreflightKnown(wanted)' /\ TablesKept
<1>1. gw' = gw /\ leases' = leases /\ since' = since
  BY DEF Judge, Quiet
<1> DEFINE found == Conflicts(wanted, pf.owners, pf.fixed)
           stage == IF found = {} THEN "verified"
                    ELSE IF AnyFixed(found) \/ ~pf.clear THEN "failed" ELSE "clear"
           error == IF AnyFixed(found) THEN "fixed"
                    ELSE IF found # {} /\ ~pf.clear THEN "no-button" ELSE "none"
<1>2. pf' = [pf EXCEPT !.conflicts = found, !.stage = stage, !.error = error]
  BY DEF Judge
<1>3. pf \in Preflights /\ pf.stage = "decide"
  BY DEF PreflightKnown, Judge
<1>4. found \in SUBSET Conflict
  BY ConflictsTyped
<1>5. /\ stage \in Stages /\ (stage = "verified" => found = {})
      /\ stage \notin {"devices", "allocations", "decide"}
      /\ error \in ReadFaults \cup {"none", "fixed", "no-button", "conflict", "unverifiable"}
  BY DEF Stages
<1>6. found = {} => \A d \in pf.requests : \A h \in Devices \ {d} : <<wanted[d], h>> \notin pf.owners
  <2>1. /\ pf.owners \in SUBSET (Ips \X Devices)
        /\ pf.fixed \in [Devices -> Ips \cup {NoIp}]
    BY <1>3 DEF Preflights
  <2> QED BY <1>3, <2>1, NoConflicts
<1> HIDE DEF found, stage, error
<1>7. pf' \in Preflights /\ pf'.stage = stage /\ pf'.requests = pf.requests
  BY <1>2, <1>3, <1>4, <1>5 DEF Preflights
<1>8. OwnersKnown'
  BY <1>5, <1>7 DEF OwnersKnown
<1>9. leases \ since \subseteq pf.owners /\ Fixed(gw.fixed) \subseteq pf.owners
  BY <1>3 DEF PreflightKnown, OwnersKnown
<1>10. VerifiedIsFree(wanted)'
  BY <1>1, <1>5, <1>6, <1>7, <1>9 DEF VerifiedIsFree, AllocationOwners, Fixed
<1> QED BY <1>1, <1>7, <1>8, <1>10 DEF PreflightKnown, TablesKept, SameRows

Errors == ReadFaults \cup {"none", "fixed", "no-button", "conflict", "unverifiable"}

\* At the other stages nothing is claimed of the owners.
LEMMA StageKeeps ==
  ASSUME NEW wanted, PreflightKnown(wanted), gw' = gw, leases' = leases,
         since' \subseteq Ips \X Devices, pf' \in Preflights,
         pf'.stage \notin {"devices", "allocations", "decide", "verified"}
  PROVE  PreflightKnown(wanted)' /\ TablesKept
BY DEF PreflightKnown, OwnersKnown, VerifiedIsFree, TablesKept, SameRows

\* It fails with an error, and the gateway is as it was.
LEMMA FailKeeps ==
  ASSUME NEW wanted, PreflightKnown(wanted), NEW error \in Errors, Fail(error), Quiet
  PROVE  PreflightKnown(wanted)' /\ TablesKept
<1>1. pf \in Preflights /\ since \subseteq Ips \X Devices
  BY DEF PreflightKnown
<1>2. pf' = [pf EXCEPT !.stage = "failed", !.error = error]
  BY DEF Fail
<1>3. pf' \in Preflights /\ pf'.stage = "failed"
  BY <1>1, <1>2 DEF Preflights, Stages, Errors
<1> QED BY <1>1, <1>3, StageKeeps DEF Quiet

\* A read of it fails.
LEMMA InspectFailsKeeps ==
  ASSUME NEW wanted, PreflightKnown(wanted), InspectFails
  PROVE  PreflightKnown(wanted)' /\ TablesKept
BY FailKeeps DEF InspectFails, Errors

\* The Clear is not sent.
LEMMA ClearUnsentKeeps ==
  ASSUME NEW wanted, PreflightKnown(wanted), ClearUnsent
  PROVE  PreflightKnown(wanted)' /\ TablesKept
BY FailKeeps DEF ClearUnsent, Errors

\* Its time is over.
LEMMA RescanOverKeeps ==
  ASSUME NEW wanted, PreflightKnown(wanted), RescanOver
  PROVE  PreflightKnown(wanted)' /\ TablesKept
<1> DEFINE error == IF pf.error = "none" THEN "conflict" ELSE "unverifiable"
<1>1. error \in Errors
  BY DEF Errors
<1>2. Fail(error) /\ Quiet
  BY DEF RescanOver
<1> HIDE DEF error
<1> QED BY <1>1, <1>2, FailKeeps

\* A Clear forgets the devices the gateway knows of; no table changes.
LEMMA ClearKeeps ==
  ASSUME NEW wanted, PreflightKnown(wanted), Clear, pf' \in Preflights,
         pf'.stage \notin {"devices", "allocations", "decide", "verified"}
  PROVE  PreflightKnown(wanted)' /\ TablesKept
<1>1. leases' = {} /\ since' = {} /\ gw' = [gw EXCEPT !.listed = {}] /\ gw \in Pages
  BY DEF Clear, PreflightKnown
<1>2. {} \in SUBSET Devices
  OBVIOUS
<1>3. gw' \in Pages /\ SameRows(gw', gw) /\ gw'.fixed = gw.fixed /\ gw'.forms = gw.forms
  BY <1>1, <1>2, ListedChange
<1>4. OwnersKnown'
  BY DEF OwnersKnown
<1>5. VerifiedIsFree(wanted)'
  BY DEF VerifiedIsFree
<1> QED BY <1>1, <1>3, <1>4, <1>5 DEF PreflightKnown, TablesKept

\* The clear is answered.
LEMMA ClearAnsweredKeeps ==
  ASSUME NEW wanted, PreflightKnown(wanted), ClearAnswered
  PROVE  PreflightKnown(wanted)' /\ TablesKept
<1>1. pf \in Preflights /\ Clear
  BY DEF PreflightKnown, ClearAnswered
<1>2. pf' = [pf EXCEPT !.stage = "wait", !.attempted = TRUE, !.accepted = TRUE,
                      !.cleared = TRUE]
  BY DEF ClearAnswered
<1>3. pf' \in Preflights /\ pf'.stage = "wait"
  BY <1>1, <1>2 DEF Preflights, Stages
<1> QED BY <1>1, <1>3, ClearKeeps

\* The clear fails, performed or not.
LEMMA ClearFailsKeeps ==
  ASSUME NEW wanted, PreflightKnown(wanted), ClearFails
  PROVE  PreflightKnown(wanted)' /\ TablesKept
<1>1. pf \in Preflights /\ since \subseteq Ips \X Devices
  BY DEF PreflightKnown
<1>2. PICK fault \in ReadFaults, received \in BOOLEAN :
       /\ IF received THEN Clear ELSE Quiet
       /\ pf' = [pf EXCEPT !.stage = "failed", !.error = fault,
                           !.attempted = TRUE, !.cleared = received]
  BY DEF ClearFails
<1>3. pf' \in Preflights /\ pf'.stage = "failed"
  BY <1>1, <1>2 DEF Preflights, Stages
<1>4. CASE received
  BY <1>2, <1>3, <1>4, ClearKeeps
<1>5. CASE ~received
  BY <1>1, <1>2, <1>3, <1>5, StageKeeps DEF Quiet
<1> QED BY <1>4, <1>5

\* It begins to poll.
LEMMA BeginPollKeeps ==
  ASSUME NEW wanted, PreflightKnown(wanted), BeginPoll
  PROVE  PreflightKnown(wanted)' /\ TablesKept
<1>1. pf \in Preflights /\ since \subseteq Ips \X Devices
  BY DEF PreflightKnown
<1>2. pf' = [pf EXCEPT !.stage = "poll-devices", !.owners = {}] /\ Quiet
  BY DEF BeginPoll
<1>3. pf' \in Preflights /\ pf'.stage = "poll-devices"
  BY <1>1, <1>2 DEF Preflights, Stages
<1> QED BY <1>1, <1>2, <1>3, StageKeeps DEF Quiet

\* It polls the device list.
LEMMA PollDevicesKeeps ==
  ASSUME NEW wanted, PreflightKnown(wanted), PollDevices
  PROVE  PreflightKnown(wanted)' /\ TablesKept
<1>1. pf \in Preflights /\ DeviceOwners \in SUBSET (Ips \X Devices)
  BY OwnersTyped DEF PreflightKnown
<1>2. /\ pf' = [pf EXCEPT !.stage = "poll-allocations", !.owners = DeviceOwners]
      /\ gw' = gw /\ leases' = leases /\ since' = {}
  BY DEF PollDevices
<1> HIDE DEF DeviceOwners
<1>3. pf' \in Preflights /\ pf'.stage = "poll-allocations"
  BY <1>1, <1>2 DEF Preflights, Stages
<1> QED BY <1>2, <1>3, StageKeeps

\* It polls the allocations and looks for conflicts again.
LEMMA PollAllocationsKeeps ==
  ASSUME NEW wanted \in [Devices -> Ips \cup {NoIp}], PreflightKnown(wanted),
         PollAllocations(wanted)
  PROVE  PreflightKnown(wanted)' /\ TablesKept
<1>1. gw' = gw /\ leases' = leases /\ since' = since
  BY DEF PollAllocations, Quiet
<1> DEFINE owners == pf.owners \cup AllocationOwners
           found == Conflicts(wanted, owners, gw.fixed)
           stage == IF found = {} THEN "verified"
                    ELSE IF AnyFixed(found) THEN "failed" ELSE "wait"
           error == IF AnyFixed(found) THEN "fixed" ELSE "none"
<1>2. pf' = [pf EXCEPT !.conflicts = found, !.error = error, !.stage = stage]
  BY DEF PollAllocations
<1>3. pf \in Preflights
  BY DEF PreflightKnown
<1>4. found \in SUBSET Conflict
  BY ConflictsTyped
<1>5. /\ stage \in Stages /\ (stage = "verified" => found = {})
      /\ stage \notin {"devices", "allocations", "decide"} /\ error \in Errors
  BY DEF Stages, Errors
<1>6. /\ owners \in SUBSET (Ips \X Devices) /\ AllocationOwners \subseteq owners
      /\ gw.fixed \in [Devices -> Ips \cup {NoIp}]
  <2>1. pf.owners \in SUBSET (Ips \X Devices)
    BY <1>3 DEF Preflights
  <2>2. /\ AllocationOwners \in SUBSET (Ips \X Devices)
        /\ gw.fixed \in [Devices -> Ips \cup {NoIp}]
    BY OwnersTyped DEF PreflightKnown
  <2> QED BY <2>1, <2>2
<1> HIDE DEF owners
<1>7. found = {} => \A d \in pf.requests : \A h \in Devices \ {d} : <<wanted[d], h>> \notin owners
  BY <1>3, <1>6, NoConflicts
<1> HIDE DEF found, stage, error
<1>8. pf' \in Preflights /\ pf'.stage = stage /\ pf'.requests = pf.requests
  BY <1>2, <1>3, <1>4, <1>5 DEF Preflights, Errors
<1>9. OwnersKnown'
  BY <1>5, <1>8 DEF OwnersKnown
<1>10. AllocationOwners' = AllocationOwners
  BY <1>1 DEF AllocationOwners, Fixed
<1>11. VerifiedIsFree(wanted)'
  BY <1>5, <1>6, <1>7, <1>8, <1>10 DEF VerifiedIsFree
<1> QED BY <1>1, <1>8, <1>9, <1>11 DEF PreflightKnown, TablesKept, SameRows

\* A poll fails: the preflight with it, or this poll alone.
LEMMA PollFailsKeeps ==
  ASSUME NEW wanted, PreflightKnown(wanted), PollFails
  PROVE  PreflightKnown(wanted)' /\ TablesKept
<1>1. pf \in Preflights /\ since \subseteq Ips \X Devices /\ Quiet
  BY DEF PreflightKnown, PollFails
<1>2. PICK fault \in ReadFaults :
       IF fault \in TerminalFaults THEN Fail(fault)
       ELSE pf' = [pf EXCEPT !.stage = "wait", !.error = fault]
  BY DEF PollFails
<1>3. CASE fault \in TerminalFaults
  <2>1. fault \in Errors
    BY DEF Errors
  <2> QED BY <1>1, <1>2, <1>3, <2>1, FailKeeps
<1>4. CASE fault \notin TerminalFaults
  <2>1. pf' = [pf EXCEPT !.stage = "wait", !.error = fault]
    BY <1>2, <1>4
  <2>2. pf' \in Preflights /\ pf'.stage = "wait"
    BY <1>1, <2>1 DEF Preflights, Stages
  <2> QED BY <1>1, <2>2, StageKeeps DEF Quiet
<1> QED BY <1>3, <1>4

\* The time of the scan runs out.
LEMMA RescanTimeKeeps ==
  ASSUME NEW wanted, PreflightKnown(wanted), RescanTime
  PROVE  PreflightKnown(wanted)' /\ TablesKept
<1>1. /\ pf \in Preflights /\ since \subseteq Ips \X Devices /\ Quiet
      /\ pf.stage \in {"wait", "poll-devices", "poll-allocations"}
  BY DEF PreflightKnown, RescanTime
<1>2. pf' = [pf EXCEPT !.late = TRUE]
  BY DEF RescanTime
<1>3. pf' \in Preflights /\ pf'.stage = pf.stage
  BY <1>1, <1>2 DEF Preflights
<1>4. pf'.stage \notin {"devices", "allocations", "decide", "verified"}
  BY <1>1, <1>3
<1> QED BY <1>1, <1>3, <1>4, StageKeeps DEF Quiet

\* A device that comes up may own an address nobody asked about yet; it is told
\* apart by since.
LEMMA DeviceAppearsKeeps ==
  ASSUME NEW wanted, PreflightKnown(wanted), DeviceAppears
  PROVE  PreflightKnown(wanted)' /\ TablesKept
<1>1. PICK d \in Devices, ip \in Ips :
       /\ leases' = {o \in leases : o[2] # d} \cup {<<ip, d>>}
       /\ since' = since \cup {<<ip, d>>}
       /\ gw' = [gw EXCEPT !.listed = @ \cup {d}]
  BY DEF DeviceAppears
<1>2. /\ gw \in Pages /\ pf' = pf /\ leases \subseteq Ips \X Devices
      /\ since \subseteq Ips \X Devices /\ pf \in Preflights
  BY DEF PreflightKnown, DeviceAppears
<1> DEFINE l == gw.listed \cup {d}
<1>3. l \in SUBSET Devices /\ gw' = [gw EXCEPT !.listed = l]
  BY <1>1, <1>2, PagesFields DEF Pages
<1> HIDE DEF l
<1>4. gw' \in Pages /\ SameRows(gw', gw) /\ gw'.fixed = gw.fixed /\ gw'.forms = gw.forms
  <2>1. \A n : n = [gw EXCEPT !.listed = l] =>
          n \in Pages /\ SameRows(n, gw) /\ n.fixed = gw.fixed /\ n.forms = gw.forms
    BY <1>2, <1>3, ListedChange
  <2> QED BY <1>3, <2>1
<1>5. leases' \subseteq Ips \X Devices /\ since' \subseteq Ips \X Devices
  BY <1>1, <1>2
<1>6. leases' \ since' \subseteq leases \ since /\ since \subseteq since'
  BY <1>1
<1>7. Fixed(gw.fixed)' = Fixed(gw.fixed)
  BY <1>4 DEF Fixed
<1>8. OwnersKnown'
  BY <1>2, <1>6, <1>7 DEF OwnersKnown, PreflightKnown
<1>9. VerifiedIsFree(wanted)'
  BY <1>2, <1>6, <1>7 DEF VerifiedIsFree, PreflightKnown, AllocationOwners
<1> QED BY <1>2, <1>4, <1>5, <1>8, <1>9 DEF PreflightKnown, TablesKept

-----------------------------------------------------------------------------
(* What a POST makes of the gateway                                        *)

SavedValue(form, payload, f) ==
  IF f \in DOMAIN payload
  THEN IF f \in form.boxes THEN "on" ELSE payload[f]
  ELSE IF f \in form.shows \cap form.boxes THEN "off" ELSE form.value[f]

\* What a save leaves of a form: its shape, and a value for each field.
LEMMA SavedFacts ==
  ASSUME NEW page \in FormPages, NEW form \in Form(page), NEW payload \in Payloads
  PROVE  /\ Saved(form, payload) \in Form(page)
         /\ Saved(form, payload).shows = form.shows
         /\ Saved(form, payload).boxes = form.boxes
         /\ \A f \in Fields[page] :
              Saved(form, payload).value[f] = SavedValue(form, payload, f)
<1> DEFINE a == form.shows
           b == form.boxes
           v == form.value
           w == [f \in DOMAIN v |-> SavedValue(form, payload, f)]
<1>1. /\ form = [shows |-> a, boxes |-> b, value |-> v]
      /\ a \in SUBSET Fields[page] /\ b \in SUBSET Fields[page] /\ v \in [Fields[page] -> Values]
      /\ \A f \in b : v[f] \in {"on", "off"}
  BY DEF Form
<1>2. \A f \in DOMAIN payload : payload[f] \in Values
  BY DEF Payloads
<1>3. /\ w \in [Fields[page] -> Values]
      /\ \A f \in Fields[page] : w[f] = SavedValue(form, payload, f)
      /\ \A f \in b : w[f] \in {"on", "off"}
  <2>1. ASSUME NEW f \in Fields[page] PROVE SavedValue(form, payload, f) \in Values
    BY <1>1, <1>2 DEF SavedValue, Values, Absent
  <2>2. ASSUME NEW f \in b PROVE SavedValue(form, payload, f) \in {"on", "off"}
    BY <1>1 DEF SavedValue
  <2> QED BY <1>1, <2>1, <2>2
<1>4. Saved(form, payload) = [form EXCEPT !.value = w]
  BY DEF Saved, SavedValue
<1> HIDE DEF a, b, v, w
<1>5. Saved(form, payload) = [shows |-> a, boxes |-> b, value |-> w]
  BY <1>1, <1>4
<1>6. [shows |-> a, boxes |-> b, value |-> w] \in Form(page)
  BY <1>1, <1>3 DEF Form
<1> QED BY <1>3, <1>5, <1>6 DEF a, b

ServiceKinds == {"add-service", "remove-service"}
ForwardKinds == {"add-forward", "remove-forward"}

\* What the tables and the forms are after a step; n is the gateway then.
TablesAfter(step, n) ==
  /\ step.kind \notin ServiceKinds => n.services = gw.services
  /\ step.kind \notin ForwardKinds => n.forwards = gw.forwards
  /\ step.kind = "add-service" =>
       \E i \in 1..(Len(gw.services) + 1) : n.services = InsertAt(gw.services, i, step.of)
  /\ step.kind = "add-forward" =>
       \E i \in 1..(Len(gw.forwards) + 1) : n.forwards = InsertAt(gw.forwards, i, step.of)
  /\ step.kind = "remove-service" =>
       \/ n.services = gw.services
       \/ /\ step.at \in 1..Len(gw.services)
          /\ n.services = RemoveAt(gw.services, step.at)
  /\ step.kind = "remove-forward" =>
       \/ n.forwards = gw.forwards
       \/ /\ step.at \in 1..Len(gw.forwards)
          /\ n.forwards = RemoveAt(gw.forwards, step.at)
FormsAfter(step, n) ==
  \A page \in FormPages :
    n.forms[page] = IF step.kind = "form" /\ step.page = page
                    THEN Saved(gw.forms[page], step.payload) ELSE gw.forms[page]

\* What a step may leave of the gateway, for each kind of step.
LEMMA EffectsFacts ==
  ASSUME gw \in Pages, job.dump \in Dumps, NEW step,
         step.kind \in RowKinds \cup {"reserve", "form"},
         step.kind = "add-service" => step.of \in Service,
         step.kind = "add-forward" => step.of \in Forward,
         step.kind = "reserve" => step.of \in Devices,
         step.kind = "form" => step.page \in FormPages,
         step.payload \in Payloads,
         NEW n \in Effects(step)
  PROVE  n \in Pages /\ TablesAfter(step, n) /\ FormsAfter(step, n)
<1>1. /\ gw.services \in Seq(Service) /\ gw.forwards \in Seq(Forward)
      /\ gw.fixed \in [Devices -> Ips \cup {NoIp}]
      /\ gw.forms \in FormTables
  BY PagesWhole
<1>2. DOMAIN gw.services = 1..Len(gw.services) /\ DOMAIN gw.forwards = 1..Len(gw.forwards)
  BY <1>1
<1>3. CASE step.kind = "add-service"
  <2>1. PICK rows \in Insertions(gw.services, step.of) : n = [gw EXCEPT !.services = rows]
    BY <1>3 DEF Effects
  <2>2. PICK i \in 1..(Len(gw.services) + 1) : rows = InsertAt(gw.services, i, step.of)
    BY <2>1 DEF Insertions
  <2>3. rows \in Seq(Service)
    BY <1>1, <1>3, <2>2, InsertFacts
  <2>4. n \in Pages /\ n.services = rows /\ n.forwards = gw.forwards /\ n.forms = gw.forms
    BY <2>1, <2>3, ServicesChange
  <2> QED BY <1>3, <2>2, <2>4 DEF TablesAfter, FormsAfter, ServiceKinds, ForwardKinds
<1>4. CASE step.kind = "add-forward"
  <2>1. PICK rows \in Insertions(gw.forwards, step.of) : n = [gw EXCEPT !.forwards = rows]
    BY <1>4 DEF Effects
  <2>2. PICK i \in 1..(Len(gw.forwards) + 1) : rows = InsertAt(gw.forwards, i, step.of)
    BY <2>1 DEF Insertions
  <2>3. rows \in Seq(Forward)
    BY <1>1, <1>4, <2>2, InsertFacts
  <2>4. n \in Pages /\ n.forwards = rows /\ n.services = gw.services /\ n.forms = gw.forms
    BY <2>1, <2>3, ForwardsChange
  <2> QED BY <1>4, <2>2, <2>4 DEF TablesAfter, FormsAfter, ServiceKinds, ForwardKinds
<1>5. CASE step.kind = "remove-service"
  <2>1. \/ n = gw
        \/ /\ step.at \in DOMAIN gw.services
           /\ n = [gw EXCEPT !.services = RemoveAt(@, step.at)]
    BY <1>5 DEF Effects
  <2>2. CASE n = gw
    BY <1>5, <2>2 DEF TablesAfter, FormsAfter, ServiceKinds, ForwardKinds
  <2>3. CASE /\ step.at \in DOMAIN gw.services
             /\ n = [gw EXCEPT !.services = RemoveAt(@, step.at)]
    <3> DEFINE rows == RemoveAt(gw.services, step.at)
    <3>1. step.at \in 1..Len(gw.services) /\ n = [gw EXCEPT !.services = rows]
      BY <1>2, <2>3
    <3>2. rows \in Seq(Service)
      BY <1>1, <3>1, RemoveFacts
    <3> HIDE DEF rows
    <3>3. n \in Pages /\ n.services = rows /\ n.forwards = gw.forwards /\ n.forms = gw.forms
      BY <3>1, <3>2, ServicesChange
    <3> QED BY <1>5, <3>1, <3>3 DEF TablesAfter, FormsAfter, ServiceKinds, ForwardKinds, rows
  <2> QED BY <2>1, <2>2, <2>3
<1>6. CASE step.kind = "remove-forward"
  <2>1. \/ n = gw
        \/ /\ step.at \in DOMAIN gw.forwards
           /\ n = [gw EXCEPT !.forwards = RemoveAt(@, step.at)]
    BY <1>6 DEF Effects
  <2>2. CASE n = gw
    BY <1>6, <2>2 DEF TablesAfter, FormsAfter, ServiceKinds, ForwardKinds
  <2>3. CASE /\ step.at \in DOMAIN gw.forwards
             /\ n = [gw EXCEPT !.forwards = RemoveAt(@, step.at)]
    <3> DEFINE rows == RemoveAt(gw.forwards, step.at)
    <3>1. step.at \in 1..Len(gw.forwards) /\ n = [gw EXCEPT !.forwards = rows]
      BY <1>2, <2>3
    <3>2. rows \in Seq(Forward)
      BY <1>1, <3>1, RemoveFacts
    <3> HIDE DEF rows
    <3>3. n \in Pages /\ n.forwards = rows /\ n.services = gw.services /\ n.forms = gw.forms
      BY <3>1, <3>2, ForwardsChange
    <3> QED BY <1>6, <3>1, <3>3 DEF TablesAfter, FormsAfter, ServiceKinds, ForwardKinds, rows
  <2> QED BY <2>1, <2>2, <2>3
<1>7. CASE step.kind = "reserve"
  <2> DEFINE x == [gw.fixed EXCEPT ![step.of] = job.dump.fixed[step.of]]
  <2>1. n = [gw EXCEPT !.fixed = x]
    <3>1. n = [gw EXCEPT !.fixed[step.of] = job.dump.fixed[step.of]]
      BY <1>7 DEF Effects
    <3> QED BY <3>1
  <2>2. job.dump.fixed[step.of] \in Ips \cup {NoIp}
    BY <1>7, DumpFields
  <2>3. x \in [Devices -> Ips \cup {NoIp}]
    BY <1>1, <1>7, <2>2
  <2> HIDE DEF x
  <2>4. n \in Pages /\ SameRows(n, gw) /\ n.forms = gw.forms
    BY <2>1, <2>3, FixedChange
  <2> QED BY <1>7, <2>4 DEF TablesAfter, FormsAfter, SameRows, RowKinds
<1>8. CASE step.kind = "form"
  <2> DEFINE form == Saved(gw.forms[step.page], step.payload)
             m == [gw.forms EXCEPT ![step.page] = form]
  <2>1. n = [gw EXCEPT !.forms = m]
    <3>1. n = [gw EXCEPT !.forms[step.page] = Saved(@, step.payload)]
      BY <1>8 DEF Effects
    <3> QED BY <3>1
  <2>2. step.page \in FormPages /\ gw.forms[step.page] \in Form(step.page)
    BY <1>8, PagesFields
  <2>3. form \in Form(step.page)
    BY <2>2, SavedFacts
  <2>4. form = Saved(gw.forms[step.page], step.payload)
    OBVIOUS
  <2> HIDE DEF form
  <2>5. /\ m \in FormTables /\ m[step.page] = form
        /\ \A other \in FormPages \ {step.page} : m[other] = gw.forms[other]
    BY <1>1, <2>2, <2>3, FormChange
  <2> HIDE DEF m
  <2>6. n \in Pages /\ SameRows(n, gw) /\ n.forms = m
    BY <2>1, <2>5, FormsChange
  <2> QED BY <1>8, <2>4, <2>5, <2>6 DEF TablesAfter, FormsAfter, SameRows
<1> QED BY <1>3, <1>4, <1>5, <1>6, <1>7, <1>8 DEF RowKinds

-----------------------------------------------------------------------------
(* The step whose turn it is                                               *)

PlanFits == \E pages : PlanMade(plan, pages, job.dump, live, job.selected)

\* What a run of restore is asked.
LEMMA JobFields ==
  ASSUME job \in Jobs
  PROVE  job.dump \in Dumps /\ job.selected \subseteq STRING /\ job.prune \in BOOLEAN
BY DEF Jobs

\* Every step of the plan can be executed.
LEMMA PlanFitsAlways ==
  ASSUME TypeOK, PlanKnown
  PROVE  PlanFits
<1>1. job.dump \in Dumps /\ live \in Pages
  BY JobFields DEF TypeOK
<1>2. CASE plan = <<>>
  <2>1. PlanMade(plan, {}, job.dump, live, job.selected)
    BY <1>2 DEF PlanMade
  <2> QED BY <2>1 DEF PlanFits
<1>3. CASE plan = Plan(job.dump, live, job.prune, job.selected)
  <2>1. \E pages : PlanMade(Plan(job.dump, live, job.prune, job.selected), pages,
                            job.dump, live, job.selected)
    BY <1>1, WholePlan
  <2> QED BY <2>1, <1>3, Zenon DEF PlanFits
<1> QED BY <1>2, <1>3 DEF PlanKnown

\* A step of the plan, whichever it is.
StepFits(step) ==
  /\ step \in PlanSteps
  /\ step.kind = "add-service" => step.of \in Service
  /\ step.kind = "add-forward" => step.of \in Forward
  /\ step.kind = "reserve" => step.of \in Devices
  /\ step.kind = "form" => step.page \in FormPages
  /\ step.deferred => step.kind = "add-forward" /\ step.of \in Forward /\ ~step.blocked
                      /\ step.payload = NoPayload /\ step.at = 0

\* The same of one step.
LEMMA StepsFit ==
  ASSUME TypeOK, PlanKnown, NEW i \in 1..Len(plan)
  PROVE  StepFits(plan[i])
<1>1. PICK pages : PlanMade(plan, pages, job.dump, live, job.selected)
  BY PlanFitsAlways DEF PlanFits
<1>2. /\ plan[i] \in PlanSteps /\ StepMade(plan, i, job.dump, live, job.selected)
  BY <1>1 DEF PlanMade
<1>3. job.dump \in Dumps
  BY JobFields DEF TypeOK
<1>4. CASE plan[i] \in RowSteps /\ RowAt(plan, i, job.dump, live)
  <2>1. ToSet(job.dump.services) \subseteq Service /\ ToSet(job.dump.forwards) \subseteq Forward
    <3>1. job.dump.services \in Seq(Service) /\ job.dump.forwards \in Seq(Forward)
      BY <1>3, DumpFields
    <3> QED BY <3>1, Members
  <2>2. plan[i].kind = "add-service" => plan[i].of \in Service
    BY <1>4, <2>1 DEF RowAt, AddsService
  <2>3. plan[i].kind = "add-forward" => plan[i].of \in Forward /\ plan[i].at = 0
    BY <1>4, <2>1 DEF RowAt, AddsForward
  <2>4. /\ plan[i].deferred => plan[i].kind = "add-forward" /\ ~plan[i].blocked
        /\ plan[i].kind \in RowKinds /\ plan[i].payload = NoPayload
    BY <1>4 DEF RowSteps
  <2> QED BY <1>2, <2>2, <2>3, <2>4 DEF StepFits, RowKinds
<1>5. CASE OtherStep(plan[i], job.dump, live, job.selected)
  BY <1>5, <1>2 DEF StepFits, OtherStep
<1> QED BY <1>2, <1>4, <1>5 DEF StepMade

\* While steps are executed the next one is in the plan.
LEMMA ExecutingFacts ==
  ASSUME TypeOK, PlanKnown, Executing
  PROVE  /\ At \in 1..Len(plan) /\ StepFits(Current) /\ Len(results) \in Nat
         /\ Len(plan) \in Nat /\ DOMAIN results = 1..Len(results) /\ DOMAIN plan = 1..Len(plan)
<1>1. results \in Seq(Report)
  BY DEF TypeOK
<1>2. Len(results) \in Nat /\ DOMAIN results = 1..Len(results)
  BY <1>1
<1>3. plan \in Seq(PlanSteps)
  BY PlanFitsAlways DEF PlanFits, PlanMade
<1>4. Len(plan) \in Nat /\ DOMAIN plan = 1..Len(plan)
  BY <1>3
<1>5. At \in 1..Len(plan)
  BY <1>2, <1>4 DEF At, Executing
<1> QED BY <1>2, <1>4, <1>5, StepsFit DEF Current

\* What goes out is what was planned: a deferred forward is looked up again.
LEMMA PostFacts ==
  ASSUME TypeOK, PlanKnown, Posting, NEW n \in Effects(Resolved(Current))
  PROVE  /\ ~Current.blocked /\ n \in Pages
         /\ TablesAfter(Current, n) /\ FormsAfter(Current, n)
<1> DEFINE step == Current
           x == Resolved(step)
<1>1. StepFits(step) /\ step.kind # "skip" /\ ~x.blocked
  BY ExecutingFacts DEF Posting
<1>2. step \in PlanSteps
  BY <1>1 DEF StepFits
<1> HIDE DEF step
<1>3. CASE step.deferred
  <2>1. step.kind = "add-forward" /\ step.of \in Forward /\ ~step.blocked /\ step.at = 0
    BY <1>1, <1>3 DEF StepFits
  <2>2. x = AddForward(step.of, gw, {})
    BY <1>3, <2>1 DEF Resolved
  <2>3. x \in RowSteps /\ x.kind = "add-forward" /\ x.of = step.of /\ x.at = 0
    BY <2>1, <2>2, AddForwardTyped
  <2> HIDE DEF x
  <2>4. x.payload \in Payloads
    BY <2>3, PayloadKnown DEF RowSteps
  <2>5. n \in Pages /\ TablesAfter(x, n) /\ FormsAfter(x, n)
    <3>1. gw \in Pages /\ job.dump \in Dumps
      BY JobFields DEF TypeOK
    <3>2. n \in Effects(x)
      BY DEF x, step
    <3>3. x.kind \in RowKinds \cup {"reserve", "form"} /\ x.of \in Forward
      BY <2>1, <2>3 DEF RowKinds
    <3> QED BY <2>3, <2>4, <3>1, <3>2, <3>3, EffectsFacts
  <2>6. TablesAfter(step, n) /\ FormsAfter(step, n)
    BY <2>1, <2>3, <2>5 DEF TablesAfter, FormsAfter, ServiceKinds, ForwardKinds
  <2> QED BY <2>1, <2>5, <2>6 DEF step
<1>4. CASE ~step.deferred
  <2>1. /\ x.kind = step.kind /\ x.of = step.of /\ x.at = step.at /\ x.page = step.page
        /\ x.payload = step.payload /\ ~step.blocked
    <3>1. CASE step.kind = "reserve"
      <4>1. x = [step EXCEPT !.blocked = @ \/ NotOffered(step.of)]
        BY <1>4, <3>1 DEF Resolved
      <4>2. x.blocked = (step.blocked \/ NotOffered(step.of))
        BY <1>2, <4>1 DEF PlanSteps
      <4> QED BY <1>1, <1>2, <4>1, <4>2 DEF PlanSteps
    <3>2. CASE step.kind # "reserve"
      <4>1. x = step
        BY <1>4, <3>2 DEF Resolved
      <4> QED BY <1>1, <4>1
    <3> QED BY <3>1, <3>2
  <2> HIDE DEF x
  <2>2. /\ step.kind \in RowKinds \cup {"reserve", "form"} /\ step.payload \in Payloads
    BY <1>1, <1>2 DEF PlanSteps
  <2>3. n \in Pages /\ TablesAfter(x, n) /\ FormsAfter(x, n)
    <3>1. gw \in Pages /\ job.dump \in Dumps
      BY JobFields DEF TypeOK
    <3>2. n \in Effects(x)
      BY DEF x, step
    <3> QED BY <1>1, <2>1, <2>2, <3>1, <3>2, EffectsFacts DEF StepFits
  <2>4. TablesAfter(step, n) /\ FormsAfter(step, n)
    BY <2>1, <2>3 DEF TablesAfter, FormsAfter
  <2> QED BY <2>1, <2>3, <2>4 DEF step
<1> QED BY <1>3, <1>4

-----------------------------------------------------------------------------
(* A step that has had its turn                                            *)

\* The gateway after the step, if anything was sent.
Had(step, n) ==
  \/ n = gw
  \/ ~step.blocked /\ n \in Pages /\ TablesAfter(step, n) /\ FormsAfter(step, n)

\* A step adds at most the name of the service it adds.
LEMMA NamesGrow ==
  ASSUME gw \in Pages, NEW step, NEW n, Had(step, n),
         step.kind = "add-service" => step.of \in Service
  PROVE  NamesOf(n.services) \subseteq
           NamesOf(gw.services)
             \cup (IF step.kind = "add-service" /\ ~step.blocked
                   THEN {Fold[step.of.name]} ELSE {})
<1>1. gw.services \in Seq(Service)
  BY PagesFields
<1>2. CASE n.services = gw.services
  BY <1>2
<1>3. CASE /\ ~step.blocked /\ step.kind = "add-service"
           /\ \E i \in 1..(Len(gw.services) + 1) : n.services = InsertAt(gw.services, i, step.of)
  <2>1. ToSet(n.services) = ToSet(gw.services) \cup {step.of}
    BY <1>1, <1>3, InsertFacts
  <2> QED BY <1>3, <2>1 DEF NamesOf
<1>4. CASE /\ step.at \in 1..Len(gw.services)
           /\ n.services = RemoveAt(gw.services, step.at)
  <2> DEFINE rows == gw.services
             at == step.at
  <2>1. ToSet(n.services) = {rows[i] : i \in 1..Len(rows) \ {at}}
    <3>1. rows \in Seq(Service) /\ at \in 1..Len(rows) /\ n.services = RemoveAt(rows, at)
      BY <1>1, <1>4
    <3> HIDE DEF rows, at
    <3>2. ToSet(RemoveAt(rows, at)) = {rows[i] : i \in 1..Len(rows) \ {at}}
      BY <3>1, RemoveFacts
    <3> QED BY <3>1, <3>2
  <2>2. ToSet(gw.services) = {gw.services[i] : i \in 1..Len(gw.services)}
    BY <1>1, Members
  <2>3. ToSet(n.services) \subseteq ToSet(gw.services)
    BY <2>1, <2>2
  <2> QED BY <2>3 DEF NamesOf
<1> QED BY <1>2, <1>3, <1>4 DEF Had, TablesAfter, ServiceKinds

\* A step that had an effect leaves the other pages as they were read.
LEMMA StillAfter ==
  ASSUME TypeOK, PlanKnown, PagesStill, Executing,
         NEW r, results' = Append(results, r), Had(Current, gw'),
         pc' = pc, plan' = plan, live' = live
  PROVE  PagesStill'
<1> DEFINE step == Current
<1>1. /\ At \in 1..Len(plan) /\ StepFits(step) /\ Len(results) \in Nat
      /\ DOMAIN results = 1..Len(results)
  BY ExecutingFacts
<1>2. DOMAIN results' = 1..At /\ At = Len(results) + 1
  <2>1. results \in Seq(Report)
    BY DEF TypeOK
  <2> QED BY <1>1, <2>1 DEF At
<1>3. DOMAIN results' = DOMAIN results \cup {At} /\ step = plan[At]
  BY <1>1, <1>2 DEF Current
<1>4. gw \in Pages
  BY DEF TypeOK
<1>5. pc = "execute"
  BY DEF Executing
<1> HIDE DEF step
<1>6. ASSUME NEW kinds, Untouched(kinds)'
      PROVE  Untouched(kinds) /\ (step.kind \in kinds => step.blocked)
  BY <1>3, <1>6 DEF Untouched
<1>7. Had(step, gw')
  BY DEF step
<1>8. ASSUME Untouched({"add-service", "remove-service"})' PROVE gw'.services = live'.services
  <2>1. gw'.services = gw.services
    BY <1>6, <1>7, <1>8 DEF Had, TablesAfter, ServiceKinds
  <2>2. gw.services = live.services
    BY <1>5, <1>6, <1>8 DEF PagesStill
  <2> QED BY <2>1, <2>2
<1>9. ASSUME Untouched({"add-forward", "remove-forward"})' PROVE gw'.forwards = live'.forwards
  <2>1. gw'.forwards = gw.forwards
    BY <1>6, <1>7, <1>9 DEF Had, TablesAfter, ForwardKinds
  <2>2. gw.forwards = live.forwards
    BY <1>5, <1>6, <1>9 DEF PagesStill
  <2> QED BY <2>1, <2>2
<1>10. ASSUME NEW page \in FormPages,
              (\A i \in DOMAIN results : plan[i].kind = "form" /\ plan[i].page = page => plan[i].blocked)'
       PROVE  gw'.forms[page] = live'.forms[page]
  <2>1. /\ \A i \in DOMAIN results : plan[i].kind = "form" /\ plan[i].page = page => plan[i].blocked
        /\ step.kind = "form" /\ step.page = page => step.blocked
    BY <1>3, <1>10
  <2>2. gw'.forms[page] = gw.forms[page]
    BY <1>7, <2>1 DEF Had, FormsAfter
  <2>3. gw.forms[page] = live.forms[page]
    BY <1>5, <2>1 DEF PagesStill
  <2> QED BY <2>2, <2>3
<1> DEFINE Added(top) == {Fold[plan[i].of.name] :
             i \in {j \in top : plan[j].kind = "add-service" /\ ~plan[j].blocked}}
<1>11. NamesOf(gw'.services) \subseteq NamesOf(live'.services) \cup Added(DOMAIN results')
  <2>1. NamesOf(gw'.services) \subseteq
           NamesOf(gw.services)
             \cup (IF step.kind = "add-service" /\ ~step.blocked
                   THEN {Fold[step.of.name]} ELSE {})
    BY <1>1, <1>4, <1>7, NamesGrow DEF StepFits
  <2>2. NamesOf(gw.services) \subseteq NamesOf(live.services) \cup Added(DOMAIN results)
    BY <1>5 DEF PagesStill
  <2>3. Added(DOMAIN results) \subseteq Added(DOMAIN results')
    BY <1>3
  <2>4. step.kind = "add-service" /\ ~step.blocked => Fold[step.of.name] \in Added(DOMAIN results')
    BY <1>3
  <2> HIDE DEF Added
  <2> QED BY <2>1, <2>2, <2>3, <2>4
<1> QED BY <1>8, <1>9, <1>10, <1>11 DEF PagesStill

\* The other parts of the invariant.
LEMMA ToldKeeps ==
  ASSUME RestoreInv, Executing, NEW r \in Report, results' = Append(results, r),
         Had(Current, gw'),
         UNCHANGED <<leases, since, pf, job, commit, pc, live, plan, exit, moves>>,
         faults' \in 0..MaxFaults, unknown' \in BOOLEAN,
         unknown' => \/ unknown \/ r.status = "reconnect-required"
                     \/ r.status = "failed" /\ r.fault # "none"
  PROVE  RestoreInv'
<1>1. /\ TypeOK /\ PhaseKnown /\ OwnersKnown /\ PlanKnown /\ PagesStill /\ FateKnown
  BY DEF RestoreInv
<1>2. /\ At \in 1..Len(plan) /\ Len(results) \in Nat
      /\ DOMAIN results = 1..Len(results) /\ pc = "execute"
  BY <1>1, ExecutingFacts DEF Executing
<1>3. results \in Seq(Report)
  BY <1>1 DEF TypeOK
<1>4. /\ results' \in Seq(Report) /\ Len(results') = At /\ results' # <<>>
      /\ results'[At] = r /\ At \in DOMAIN results'
      /\ \A i \in DOMAIN results : i \in DOMAIN results' /\ results'[i] = results[i]
  BY <1>2, <1>3 DEF At
<1>5. gw' \in Pages
  BY <1>1 DEF Had, TypeOK
<1>6. TypeOK'
  BY <1>1, <1>4, <1>5 DEF TypeOK
<1>7. PhaseKnown' /\ OwnersKnown'
  BY <1>1, <1>2 DEF PhaseKnown, OwnersKnown
<1>8. PlanKnown'
  BY <1>1, <1>2, <1>4 DEF PlanKnown
<1>9. PagesStill'
  BY <1>1, StillAfter
<1>10. FateKnown'
  BY <1>1, <1>2, <1>4 DEF FateKnown
<1> QED BY <1>4, <1>6, <1>7, <1>8, <1>9, <1>10 DEF RestoreInv

-----------------------------------------------------------------------------
(* The steps keep the invariant                                            *)

\* The reports of a step.
LEMMA ReportsTyped ==
  ASSUME NEW step
  PROVE  /\ NothingSent \in Report /\ Applied(step) \in Report
         /\ \A status \in StepStatuses : [NothingSent EXCEPT !.status = status] \in Report
BY DEF NothingSent, Applied, Report, StepStatuses, Faults

\* A step with nothing to send is reported.
LEMMA StepWithoutPostKeeps ==
  ASSUME RestoreInv, StepWithoutPost
  PROVE  RestoreInv'
<1> DEFINE said(status) == [NothingSent EXCEPT !.status = status]
<1>1. \E r \in {said("not-run"), said("skipped"), NothingSent} : results' = Append(results, r)
  BY DEF StepWithoutPost, Tell
<1>2. PICK r \in Report : results' = Append(results, r)
  BY <1>1, ReportsTyped DEF StepStatuses
<1>3. /\ Executing /\ gw' = gw
      /\ UNCHANGED <<leases, since, pf, job, commit, pc, live, plan, exit, moves>>
      /\ faults' = faults /\ unknown' = unknown
  BY DEF StepWithoutPost, preflightVars
<1>4. faults' \in 0..MaxFaults /\ unknown' \in BOOLEAN
  BY <1>3 DEF RestoreInv, TypeOK
<1>5. Had(Current, gw')
  BY <1>3 DEF Had
<1> QED BY <1>2, <1>3, <1>4, <1>5, ToldKeeps

\* A step's POST is answered.
LEMMA StepPostedKeeps ==
  ASSUME RestoreInv, StepPosted
  PROVE  RestoreInv'
<1>1. /\ TypeOK /\ PlanKnown /\ Posting /\ Executing /\ gw' \in Effects(Resolved(Current))
  BY DEF RestoreInv, StepPosted, Posting
<1>2. Had(Current, gw')
  BY <1>1, PostFacts DEF Had
<1> DEFINE applied == Applied(Current)
           failed == [Applied(Current) EXCEPT !.status = "failed"]
<1>3. applied \in Report /\ failed \in Report
  BY DEF NothingSent, Applied, Report, StepStatuses, Faults
<1>4. \E r \in {applied, failed} : results' = Append(results, r)
  BY DEF StepPosted, Tell
<1>5. PICK r \in Report : results' = Append(results, r)
  BY <1>3, <1>4
<1>6. /\ UNCHANGED <<leases, since, pf, job, commit, pc, live, plan, exit, moves>>
      /\ faults' = faults /\ unknown' = unknown
  BY DEF StepPosted
<1>7. faults' \in 0..MaxFaults /\ unknown' \in BOOLEAN
  BY <1>6 DEF RestoreInv, TypeOK
<1> QED BY <1>1, <1>2, <1>5, <1>6, <1>7, ToldKeeps

\* What moves the gateway is a save, which is never put off.
LEMMA MovesAreNotPutOff ==
  ASSUME TypeOK, PlanKnown, Posting, Current.moves
  PROVE  Resolved(Current) = Current \/ Current.kind = "reserve"
<1>1. /\ At \in 1..Len(plan) /\ StepFits(Current)
  BY ExecutingFacts DEF Posting
<1>2. PICK pages : PlanMade(plan, pages, job.dump, live, job.selected)
  BY PlanFitsAlways DEF PlanFits
<1>3. StepMade(plan, At, job.dump, live, job.selected)
  BY <1>1, <1>2 DEF PlanMade
<1> DEFINE step == Current
<1>4. ~step.deferred
  BY <1>3 DEF StepMade, OtherStep, RowSteps, Current
<1> HIDE DEF step
<1>5. Resolved(step) = step \/ step.kind = "reserve"
  BY <1>4 DEF Resolved
<1> QED BY <1>5 DEF step

\* A step that moves the gateway is sent as it was planned.
LEMMA MovesEffects ==
  ASSUME TypeOK, PlanKnown, Posting, Current.moves
  PROVE  Effects(Resolved(Current)) = Effects(Current)
<1>1. Posting /\ Executing
  BY DEF Posting
<1>2. Effects(Resolved(Current)) = Effects(Current)
  <2>1. CASE Resolved(Current) = Current
    BY <2>1
  <2>2. CASE Current.kind = "reserve"
    <3> DEFINE step == Current
               x == Resolved(step)
    <3>1. step \in PlanSteps /\ (step.deferred => step.kind = "add-forward")
      BY <1>1, ExecutingFacts DEF StepFits
    <3> HIDE DEF step
    <3>2. x = [step EXCEPT !.blocked = @ \/ NotOffered(step.of)]
      BY <2>2, <3>1 DEF Resolved, step
    <3>3. x.kind = "reserve" /\ x.of = step.of /\ step.kind = "reserve"
      BY <2>2, <3>1, <3>2 DEF PlanSteps, step
    <3> HIDE DEF x
    <3>4. Effects(x) = Effects(step)
      BY <3>3 DEF Effects
    <3> QED BY <3>4 DEF x, step
  <2> QED BY <2>1, <2>2, <1>1, MovesAreNotPutOff
<1> QED BY <1>2

\* A save moves the gateway.
LEMMA StepMovesKeeps ==
  ASSUME RestoreInv, StepMoves
  PROVE  RestoreInv'
<1>1. /\ TypeOK /\ PlanKnown /\ Posting /\ Executing /\ gw' \in Effects(Current) /\ Current.moves
  BY DEF RestoreInv, StepMoves, Posting
<1>2. Effects(Resolved(Current)) = Effects(Current)
  BY <1>1, MovesEffects
<1>3. Had(Current, gw')
  BY <1>1, <1>2, PostFacts DEF Had
<1>4. PICK answered \in BOOLEAN :
       /\ results' = Append(results,
            [Applied(Current) EXCEPT !.status = "reconnect-required", !.moved = TRUE,
                  !.answered = answered, !.acked = FALSE, !.performed = "unknown"])
       /\ unknown' = ~answered
  BY DEF StepMoves, Tell
<1> DEFINE r == [Applied(Current) EXCEPT !.status = "reconnect-required", !.moved = TRUE,
                  !.answered = answered, !.acked = FALSE, !.performed = "unknown"]
<1>5. r \in Report /\ r.status = "reconnect-required" /\ results' = Append(results, r)
  BY <1>4 DEF NothingSent, Applied, Report, StepStatuses, Faults
<1> HIDE DEF r
<1>6. /\ UNCHANGED <<leases, since, pf, job, commit, pc, live, plan, exit, moves>>
      /\ faults' = faults
  BY DEF StepMoves
<1>7. faults' \in 0..MaxFaults /\ unknown' \in BOOLEAN
  BY <1>4, <1>6 DEF RestoreInv, TypeOK
<1> QED BY <1>1, <1>3, <1>5, <1>6, <1>7, ToldKeeps

\* A fault is counted.
LEMMA FaultCounted ==
  ASSUME TypeOK, Fault
  PROVE  faults' \in 0..MaxFaults
<1>1. faults \in 0..MaxFaults /\ faults < MaxFaults /\ faults' = faults + 1
  BY DEF TypeOK, Fault
<1>2. MaxFaults \in Nat
  BY RestoreAssumption
<1> QED BY <1>1, <1>2

\* The gateway refuses a step.
LEMMA StepRefusedKeeps ==
  ASSUME RestoreInv, StepRefused
  PROVE  RestoreInv'
<1>1. TypeOK /\ Executing
  BY DEF RestoreInv, StepRefused, Posting
<1> DEFINE r == [Applied(Current) EXCEPT !.status = "failed", !.performed = "no",
             !.acked = FALSE, !.refusal = TRUE]
<1>2. r \in Report /\ results' = Append(results, r)
  BY DEF StepRefused, Tell, NothingSent, Applied, Report, StepStatuses, Faults
<1> HIDE DEF r
<1>3. /\ UNCHANGED <<leases, since, pf, job, commit, pc, live, plan, exit, moves>>
      /\ unknown' = unknown /\ gw' = gw
  BY DEF StepRefused, preflightVars
<1>4. faults' \in 0..MaxFaults /\ unknown' \in BOOLEAN
  BY <1>1, <1>3, FaultCounted DEF StepRefused, TypeOK
<1>5. Had(Current, gw')
  BY <1>3 DEF Had
<1> QED BY <1>1, <1>2, <1>3, <1>4, <1>5, ToldKeeps

\* A step fails, performed or not.
LEMMA StepFailsKeeps ==
  ASSUME RestoreInv, StepFails
  PROVE  RestoreInv'
<1>1. TypeOK /\ PlanKnown /\ Posting /\ Executing
  BY DEF RestoreInv, StepFails, Posting
<1>2. PICK fault \in Faults \ {"none"}, sent \in BOOLEAN :
       /\ results' = Append(results,
            [NothingSent EXCEPT !.status = "failed", !.fault = fault, !.attempted = sent,
                  !.performed = IF sent THEN "unknown" ELSE "no"])
       /\ gw' \in IF sent THEN Effects(Resolved(Current)) \cup {gw} ELSE {gw}
       /\ unknown' = (unknown \/ sent)
  BY DEF StepFails, Tell
<1> DEFINE r == [NothingSent EXCEPT !.status = "failed", !.fault = fault, !.attempted = sent,
                  !.performed = IF sent THEN "unknown" ELSE "no"]
<1>3. /\ r \in Report /\ r.status = "failed" /\ r.fault # "none"
      /\ results' = Append(results, r)
  BY <1>2 DEF NothingSent, Report, StepStatuses, Faults
<1> HIDE DEF r
<1>4. Had(Current, gw')
  <2>1. gw' = gw \/ gw' \in Effects(Resolved(Current))
    BY <1>2
  <2> QED BY <2>1, <1>1, PostFacts DEF Had
<1>5. UNCHANGED <<leases, since, pf, job, commit, pc, live, plan, exit, moves>>
  BY DEF StepFails
<1>6. faults' \in 0..MaxFaults /\ unknown' \in BOOLEAN
  BY <1>1, <1>2, FaultCounted DEF StepFails, TypeOK
<1> QED BY <1>1, <1>3, <1>4, <1>5, <1>6, ToldKeeps

\* Of an empty plan there is nothing to tell.
LEMMA NothingTold ==
  ASSUME TypeOK, PlanKnown, plan = <<>>
  PROVE  results = <<>> /\ DOMAIN results = {}
<1>1. results \in Seq(Report) /\ Len(results) <= 0
  BY DEF TypeOK, PlanKnown
<1> QED BY <1>1

\* Reads and the Clear leave the tables as they are.
LEMMA GatewayKeeps ==
  ASSUME RestoreInv, TablesKept, gw' \in Pages,
         pf' \in Preflights, leases' \subseteq Ips \X Devices, since' \subseteq Ips \X Devices,
         OwnersKnown', results = <<>> => VerifiedIsFree(job.dump.fixed)',
         pc = "preflight" \/ pf' = pf,
         UNCHANGED <<job, commit, pc, live, plan, results, exit, unknown>>,
         faults' \in 0..MaxFaults, moves' \in 0..MaxMoves
  PROVE  RestoreInv'
<1>1. /\ TypeOK /\ PhaseKnown /\ PlanKnown /\ PagesStill /\ FateKnown
  BY DEF RestoreInv
<1>2. TypeOK'
  BY <1>1 DEF TypeOK
<1>3. PhaseKnown'
  BY <1>1 DEF PhaseKnown
<1>4. PlanKnown'
  BY <1>1 DEF PlanKnown
<1>5. PagesStill'
  <2>1. gw'.services = gw.services /\ gw'.forwards = gw.forwards /\ gw'.forms = gw.forms
    BY DEF TablesKept, SameRows
  <2> QED BY <2>1, <1>1 DEF PagesStill, Untouched
<1>6. FateKnown'
  BY <1>1 DEF FateKnown
<1> QED BY <1>2, <1>3, <1>4, <1>5, <1>6 DEF RestoreInv

\* What is known of the preflight while it runs.
LEMMA Preflighting ==
  ASSUME RestoreInv, pc = "preflight"
  PROVE  PreflightKnown(job.dump.fixed) /\ job.dump.fixed \in [Devices -> Ips \cup {NoIp}]
<1>1. TypeOK /\ PlanKnown /\ plan = <<>>
  BY DEF RestoreInv, PhaseKnown
<1>2. results = <<>>
  BY <1>1, NothingTold
<1>3. job.dump.fixed \in [Devices -> Ips \cup {NoIp}]
  BY <1>1, JobFields, DumpFields DEF TypeOK
<1> QED BY <1>2, <1>3 DEF RestoreInv, TypeOK, PreflightKnown

\* One step of the preflight, of the addresses wanted.
PreflightMoves(wanted, live0, selected) ==
  \/ Inspect(Pending(job.dump, live0, selected))
  \/ ReadDevices \/ ReadAllocations \/ Judge(wanted) \/ ClearAnswered
  \/ BeginPoll \/ PollDevices \/ PollAllocations(wanted) \/ RescanOver
  \/ InspectFails \/ ClearUnsent \/ ClearFails \/ PollFails \/ RescanTime

\* Each step of the preflight keeps what is known of it, and every table.
LEMMA PreflightMovesKeep ==
  ASSUME NEW wanted \in [Devices -> Ips \cup {NoIp}], PreflightKnown(wanted),
         PreflightMoves(wanted, live, job.selected)
  PROVE  PreflightKnown(wanted)' /\ TablesKept
<1>1. CASE Inspect(Pending(job.dump, live, job.selected))
  <2>1. PICK requests : requests = Pending(job.dump, live, job.selected)
    OBVIOUS
  <2>2. requests \in SUBSET Devices /\ Inspect(requests)
    BY <1>1, <2>1 DEF Pending
  <2> QED BY <2>2, InspectKeeps
<1> QED BY <1>1, ReadDevicesKeeps, ReadAllocationsKeeps, JudgeKeeps, ClearAnsweredKeeps,
           BeginPollKeeps, PollDevicesKeeps, PollAllocationsKeeps, RescanOverKeeps,
           InspectFailsKeeps, ClearUnsentKeeps, ClearFailsKeeps, PollFailsKeeps, RescanTimeKeeps
        DEF PreflightMoves

\* The same of its time and its faults.
LEMMA PreflightLeaves ==
  ASSUME RestoreInv, PreflightSteps \/ PreflightTime \/ PreflightFaults
  PROVE  TablesKept /\ \E wanted : wanted = job.dump.fixed /\ PreflightKnown(wanted)'
<1>1. pc = "preflight"
  BY DEF PreflightSteps, PreflightTime, PreflightFaults
<1>2. PICK wanted : wanted = job.dump.fixed
  OBVIOUS
<1>3. PreflightKnown(wanted) /\ wanted \in [Devices -> Ips \cup {NoIp}]
  BY <1>1, <1>2, Preflighting
<1>4. PreflightMoves(wanted, live, job.selected)
  BY <1>2 DEF PreflightSteps, PreflightTime, PreflightFaults, PreflightMoves
<1> QED BY <1>2, <1>3, <1>4, PreflightMovesKeep

\* A step of the preflight keeps the invariant.
LEMMA PreflightKeeps ==
  ASSUME RestoreInv, PreflightSteps \/ PreflightTime \/ PreflightFaults
  PROVE  RestoreInv'
<1>1. pc = "preflight"
  BY DEF PreflightSteps, PreflightTime, PreflightFaults
<1>2. PICK wanted : wanted = job.dump.fixed /\ PreflightKnown(wanted)'
  BY PreflightLeaves
<1>3. TablesKept
  BY PreflightLeaves
<1>4. /\ UNCHANGED <<job, commit, pc, live, plan, results, exit, moves, unknown>>
      /\ faults' = faults \/ Fault
  BY DEF PreflightSteps, PreflightTime, PreflightFaults, runVars
<1>5. faults' \in 0..MaxFaults /\ moves' \in 0..MaxMoves
  BY <1>4, FaultCounted DEF RestoreInv, TypeOK
<1>6. /\ gw' \in Pages /\ pf' \in Preflights /\ leases' \subseteq Ips \X Devices
      /\ since' \subseteq Ips \X Devices /\ OwnersKnown' /\ VerifiedIsFree(wanted)'
  BY <1>2 DEF PreflightKnown
<1>7. VerifiedIsFree(job.dump.fixed)'
  BY <1>2, <1>4, <1>6
<1> QED BY <1>1, <1>3, <1>4, <1>5, <1>6, <1>7, GatewayKeeps

\* A device comes up while restore runs.
LEMMA DeviceComesUpKeeps ==
  ASSUME RestoreInv, DeviceComesUp
  PROVE  RestoreInv'
<1>1. PICK wanted : wanted = IF results = <<>> THEN job.dump.fixed ELSE [d \in Devices |-> NoIp]
  OBVIOUS
<1>2. /\ pf \in Preflights /\ gw \in Pages /\ OwnersKnown
      /\ leases \subseteq Ips \X Devices /\ since \subseteq Ips \X Devices
  BY DEF RestoreInv, TypeOK
<1>3. VerifiedIsFree(wanted)
  <2>1. CASE results = <<>>
    BY <1>1, <2>1 DEF RestoreInv
  <2>2. CASE results # <<>>
    <3>1. \A d \in Devices : wanted[d] = NoIp
      BY <1>1, <2>2
    <3>2. AllocationOwners \subseteq Ips \X Devices /\ pf.requests \subseteq Devices
      BY <1>2, OwnersTyped DEF Preflights
    <3>3. \A d \in pf.requests : \A h : <<wanted[d], h>> \notin AllocationOwners
      BY <3>1, <3>2, RestoreAssumption
    <3> QED BY <3>3 DEF VerifiedIsFree
  <2> QED BY <2>1, <2>2
<1>4. PreflightKnown(wanted)
  BY <1>2, <1>3 DEF PreflightKnown
<1>5. PreflightKnown(wanted)' /\ TablesKept
  BY <1>4, DeviceAppearsKeeps DEF DeviceComesUp
<1>6. /\ UNCHANGED <<job, commit, pc, live, plan, results, exit, faults, unknown>>
      /\ pf' = pf /\ moves < MaxMoves /\ moves' = moves + 1
  BY DEF DeviceComesUp, DeviceAppears
<1>7. faults' \in 0..MaxFaults /\ moves' \in 0..MaxMoves
  <2>1. moves \in 0..MaxMoves /\ MaxMoves \in Nat /\ faults \in 0..MaxFaults
    BY RestoreAssumption DEF RestoreInv, TypeOK
  <2> QED BY <1>6, <2>1
<1>8. /\ gw' \in Pages /\ pf' \in Preflights /\ leases' \subseteq Ips \X Devices
      /\ since' \subseteq Ips \X Devices /\ OwnersKnown' /\ VerifiedIsFree(wanted)'
  BY <1>5 DEF PreflightKnown
<1>9. results = <<>> => VerifiedIsFree(job.dump.fixed)'
  BY <1>1, <1>6, <1>8
<1> QED BY <1>5, <1>6, <1>7, <1>8, <1>9, GatewayKeeps

\* A run starts.
LEMMA StartRunKeeps ==
  ASSUME RestoreInv, StartRun
  PROVE  RestoreInv'
<1>1. TypeOK
  BY DEF RestoreInv
<1>2. /\ plan' = <<>> /\ results' = <<>> /\ unknown' = FALSE /\ pf' = NoPreflight
      /\ UNCHANGED <<gw, leases, since, job, live, faults, moves>> /\ commit' \in BOOLEAN
      /\ \/ pc' = "done" /\ exit' = 1
         \/ pc' = "fetch" /\ exit' = NoExit
  <2>1. \/ pc' = "done" /\ exit' = 1
        \/ pc' = "fetch" /\ exit' = NoExit
    BY DEF StartRun, End
  <2>2. /\ plan' = <<>> /\ results' = <<>> /\ unknown' = FALSE /\ pf' = NoPreflight
        /\ UNCHANGED <<Gateway, job, live, faults, moves>> /\ commit' \in BOOLEAN
    BY DEF StartRun
  <2> QED BY <2>1, <2>2 DEF Gateway
<1>3. NoPreflight \in Preflights /\ NoPreflight.stage = "idle"
  BY DEF NoPreflight, Preflights, Stages
<1>4. TypeOK'
  <2>1. results' \in Seq(Report)
    BY <1>2
  <2> QED BY <1>1, <1>2, <1>3, <2>1 DEF TypeOK
<1>5. PhaseKnown'
  BY <1>2 DEF PhaseKnown
<1>6. OwnersKnown' /\ VerifiedIsFree(job.dump.fixed)'
  BY <1>2, <1>3 DEF OwnersKnown, VerifiedIsFree
<1>7. PlanKnown'
  BY <1>2 DEF PlanKnown
<1>8. PagesStill' /\ FateKnown'
  BY <1>2 DEF PagesStill, FateKnown
<1> QED BY <1>4, <1>5, <1>6, <1>7, <1>8 DEF RestoreInv

\* Before the plan is made nothing was told.
LEMMA BeforeThePlan ==
  ASSUME RestoreInv, pc \in {"fetch", "preflight", "refetch", "plan"}
  PROVE  /\ plan = <<>> /\ results = <<>> /\ DOMAIN results = {} /\ unknown = FALSE
         /\ VerifiedIsFree(job.dump.fixed) /\ exit = NoExit
<1>1. plan = <<>> /\ TypeOK /\ PlanKnown /\ FateKnown /\ exit = NoExit
  BY DEF RestoreInv, PhaseKnown
<1>2. results = <<>> /\ DOMAIN results = {}
  BY <1>1, NothingTold
<1>3. unknown = FALSE
  BY <1>1 DEF FateKnown, TypeOK
<1> QED BY <1>1, <1>2, <1>3 DEF RestoreInv

\* The pages are read, before or after the steps.
LEMMA FetchKeeps ==
  ASSUME RestoreInv, Fetch \/ Refetch
  PROVE  RestoreInv'
<1>1. /\ TypeOK /\ PhaseKnown /\ OwnersKnown
  BY DEF RestoreInv
<1>2. /\ live' = gw
      /\ UNCHANGED <<preflightVars, job, commit, plan, results, exit, faults, moves, unknown>>
      /\ \/ pc = "fetch" /\ pc' \in {"plan", "preflight"}
         \/ pc = "refetch" /\ pc' = "plan"
  BY DEF Fetch, Refetch
<1>3. /\ plan = <<>> /\ results = <<>> /\ DOMAIN results = {} /\ unknown = FALSE
      /\ VerifiedIsFree(job.dump.fixed)
  BY <1>2, BeforeThePlan
<1>4. TypeOK'
  BY <1>1, <1>2 DEF TypeOK, preflightVars
<1>5. PhaseKnown'
  BY <1>1, <1>2 DEF PhaseKnown, preflightVars, NoPreflight
<1>6. OwnersKnown' /\ VerifiedIsFree(job.dump.fixed)'
  BY <1>1, <1>2, <1>3 DEF OwnersKnown, VerifiedIsFree, preflightVars, AllocationOwners, Fixed
<1>7. PlanKnown'
  BY <1>2, <1>3 DEF PlanKnown
<1>8. PagesStill' /\ FateKnown'
  BY <1>2, <1>3 DEF PagesStill, FateKnown, preflightVars, NamesOf
<1> QED BY <1>4, <1>5, <1>6, <1>7, <1>8 DEF RestoreInv

\* Whatever ends the run, and whatever lets it go on with the pages as they are.
LEMMA OtherMovesKeep ==
  ASSUME RestoreInv,
         UNCHANGED <<preflightVars, job, commit, live, plan, results, moves, unknown>>,
         faults' \in 0..MaxFaults,
         \/ pc' = "done" /\ exit' \in {0, 1, 2} /\ (unknown => exit' = 2)
         \/ /\ exit' = exit
            /\ \/ pc = "preflight" /\ pf.stage = "verified" /\ pc' \in {"refetch", "plan"}
               \/ pc = "execute" /\ pc' = "verify"
  PROVE  RestoreInv'
<1>1. /\ TypeOK /\ PhaseKnown /\ OwnersKnown /\ PlanKnown /\ PagesStill /\ FateKnown
  BY DEF RestoreInv
<1>2. TypeOK'
  BY <1>1 DEF TypeOK, preflightVars
<1>3. PhaseKnown'
  BY <1>1 DEF PhaseKnown, preflightVars
<1>4. OwnersKnown' /\ (results' = <<>> => VerifiedIsFree(job.dump.fixed)')
  BY <1>1 DEF OwnersKnown, VerifiedIsFree, preflightVars, AllocationOwners, Fixed, RestoreInv
<1>5. PlanKnown'
  BY <1>1 DEF PlanKnown
<1>6. PagesStill'
  BY <1>1 DEF PagesStill, Untouched, preflightVars, NamesOf
<1>7. FateKnown'
  BY <1>1 DEF FateKnown
<1> QED BY <1>2, <1>3, <1>4, <1>5, <1>6, <1>7 DEF RestoreInv

\* The steps are done, or the preflight passes.
LEMMA StepsDoneKeeps ==
  ASSUME RestoreInv, StepsDone \/ PreflightPasses
  PROVE  RestoreInv'
BY OtherMovesKeep DEF StepsDone, PreflightPasses, RestoreInv, TypeOK, preflightVars

\* A run ends early.
LEMMA RunEndsKeeps ==
  ASSUME RestoreInv, FetchFails \/ PreflightEnds \/ VerifyFails
  PROVE  RestoreInv'
<1>1. TypeOK
  BY DEF RestoreInv
<1>2. /\ UNCHANGED <<preflightVars, job, commit, live, plan, results, moves, unknown>>
      /\ pc' = "done" /\ exit' \in {0, 2}
      /\ exit' = 0 => pc = "preflight"
  BY DEF FetchFails, PreflightEnds, VerifyFails, End
<1>3. faults' \in 0..MaxFaults
  BY <1>1, FaultCounted DEF FetchFails, PreflightEnds, VerifyFails, TypeOK
<1>4. unknown => exit' = 2
  BY <1>2, BeforeThePlan
<1> QED BY <1>2, <1>3, <1>4, OtherMovesKeep

\* Of a POST of unknown fate the verdict is 2.
LEMMA VerdictOfUnknown ==
  ASSUME RestoreInv, Verify
  PROVE  exit' \in {0, 1, 2} /\ (unknown => exit' = 2)
<1>1. exit' = IF Unverifiable \/ ~Readable(gw) THEN 2 ELSE ExitCode(gw)
  BY DEF Verify, End
<1>2. ExitCode(gw) \in {0, 1, 2}
  BY DEF ExitCode
<1>3. ASSUME unknown PROVE exit' = 2
  <2>1. PICK i \in DOMAIN results :
            \/ results[i].status = "reconnect-required"
            \/ results[i].status = "failed" /\ results[i].fault # "none"
    BY <1>3 DEF RestoreInv, FateKnown, Verify
  <2>2. results[i] \in Reports
    BY DEF Reports, ToSet
  <2>3. Unverifiable \/ ExitCode(gw) = 2
    BY <2>1, <2>2 DEF Unverifiable, ExitCode
  <2> QED BY <1>1, <2>3
<1> QED BY <1>1, <1>2, <1>3

\* The pages read afterwards are compared with the dump.
LEMMA VerifyKeeps ==
  ASSUME RestoreInv, Verify
  PROVE  RestoreInv'
<1>1. exit' \in {0, 1, 2} /\ (unknown => exit' = 2)
  BY VerdictOfUnknown
<1>2. /\ UNCHANGED <<preflightVars, job, commit, live, plan, results, faults, moves, unknown>>
      /\ pc' = "done"
  BY DEF Verify, End
<1> QED BY <1>1, <1>2, OtherMovesKeep DEF RestoreInv, TypeOK

\* The plan is made.
LEMMA MakePlanKeeps ==
  ASSUME RestoreInv, MakePlan
  PROVE  RestoreInv'
<1>1. /\ TypeOK /\ PhaseKnown /\ OwnersKnown /\ PagesStill /\ pc = "plan"
  BY DEF RestoreInv, MakePlan
<1>2. UNCHANGED <<preflightVars, job, commit, live, results, faults, moves, unknown>>
  BY DEF MakePlan
<1>3. /\ plan = <<>> /\ results = <<>> /\ DOMAIN results = {} /\ unknown = FALSE
      /\ VerifiedIsFree(job.dump.fixed) /\ exit = NoExit
  BY <1>1, BeforeThePlan
<1> DEFINE steps == Plan(job.dump, live, job.prune, job.selected)
<1>4. \/ plan' = steps /\ commit /\ pc' = "execute" /\ exit' = exit
      \/ plan' = steps /\ pc' = "done" /\ exit' = 0
      \/ plan' = <<>> /\ pc' = "done" /\ exit' = 2
  BY DEF MakePlan, End
<1>5. /\ Len(steps) \in Nat /\ DOMAIN steps = 1..Len(steps)
      /\ \A i \in DOMAIN steps : steps[i].blocked => steps[i].at = 0 /\ steps[i].payload = NoPayload
  <2>1. PICK pages : PlanMade(steps, pages, job.dump, live, job.selected)
    BY <1>1, JobFields, WholePlan DEF TypeOK
  <2> HIDE DEF steps
  <2>2. /\ steps \in Seq(PlanSteps)
        /\ \A k \in 1..Len(steps) : StepMade(steps, k, job.dump, live, job.selected)
    BY <2>1 DEF PlanMade
  <2>3. Len(steps) \in Nat /\ DOMAIN steps = 1..Len(steps)
    BY <2>2
  <2>4. ASSUME NEW k \in 1..Len(steps), steps[k].blocked
        PROVE  steps[k].at = 0 /\ steps[k].payload = NoPayload
    <3>1. CASE steps[k] \in RowSteps /\ RowAt(steps, k, job.dump, live)
      <4>1. steps[k].payload = NoPayload /\ steps[k].kind \in RowKinds
        BY <3>1 DEF RowSteps
      <4>2. steps[k].at = 0
        BY <2>4, <3>1, <4>1
           DEF RowKinds, RowAt, AddsService, AddsForward, RemovesService, RemovesForward
      <4> QED BY <4>1, <4>2
    <3>2. CASE OtherStep(steps[k], job.dump, live, job.selected)
      BY <2>4, <3>2 DEF OtherStep
    <3> QED BY <2>2, <3>1, <3>2 DEF StepMade
  <2> QED BY <2>3, <2>4
<1>6. TypeOK'
  BY <1>1, <1>2, <1>4 DEF TypeOK, preflightVars
<1>7. PhaseKnown'
  BY <1>1, <1>2, <1>4 DEF PhaseKnown, preflightVars
<1>8. OwnersKnown' /\ VerifiedIsFree(job.dump.fixed)'
  BY <1>1, <1>2, <1>3 DEF OwnersKnown, VerifiedIsFree, preflightVars, AllocationOwners, Fixed
<1>9. PlanKnown'
  <2>1. steps' = steps
    BY <1>2
  <2> HIDE DEF steps
  <2>2. plan' = <<>> \/ plan' = steps'
    BY <1>4, <2>1
  <2>3. pc' \in {"execute", "verify"} => plan' = steps'
    BY <1>4, <2>1
  <2>4. results' = <<>> /\ Len(results') = 0
    BY <1>2, <1>3
  <2>5. CASE plan' = <<>>
    BY <2>2, <2>3, <2>4, <2>5 DEF PlanKnown, steps
  <2>6. CASE plan' = steps
    BY <2>2, <2>3, <2>4, <2>6, <1>5 DEF PlanKnown, steps
  <2> QED BY <1>4, <2>5, <2>6
<1>10. PagesStill'
  <2>1. /\ gw.services = live.services /\ gw.forwards = live.forwards
        /\ \A page \in FormPages : gw.forms[page] = live.forms[page]
    BY <1>1, <1>3 DEF PagesStill, Untouched
  <2>2. NamesOf(gw.services)' = NamesOf(live.services)'
    BY <1>2, <2>1 DEF NamesOf, preflightVars
  <2> QED BY <1>2, <1>3, <2>1, <2>2 DEF PagesStill, preflightVars
<1>11. FateKnown'
  BY <1>2, <1>3 DEF FateKnown
<1> QED BY <1>6, <1>7, <1>8, <1>9, <1>10, <1>11 DEF RestoreInv

\* A gateway before its first run.
LEMMA InitKnown ==
  ASSUME Init
  PROVE  RestoreInv
<1>1. /\ job \in Jobs /\ gw \in Pages /\ leases \subseteq Ips \X Devices
  BY RestoreAssumption DEF Init
<1>2. /\ commit = FALSE /\ pc = "done" /\ live = gw
      /\ plan = <<>> /\ results = <<>> /\ exit = NoExit
      /\ faults = 0 /\ moves = 0 /\ unknown = FALSE
      /\ pf = NoPreflight /\ since = {}
  BY DEF Init
<1>3. NoPreflight \in Preflights /\ NoPreflight.stage = "idle"
  BY DEF NoPreflight, Preflights, Stages
<1>4. TypeOK
  <2>1. results \in Seq(Report)
    BY <1>2
  <2>2. MaxFaults \in Nat /\ MaxMoves \in Nat
    BY RestoreAssumption
  <2>3. faults \in 0..MaxFaults /\ moves \in 0..MaxMoves
    BY <1>2, <2>2
  <2> QED BY <1>1, <1>2, <1>3, <2>1, <2>3 DEF TypeOK
<1>5. PhaseKnown /\ OwnersKnown /\ VerifiedIsFree(job.dump.fixed)
  BY <1>2, <1>3 DEF PhaseKnown, OwnersKnown, VerifiedIsFree
<1>6. PlanKnown /\ PagesStill /\ FateKnown
  BY <1>2 DEF PlanKnown, PagesStill, FateKnown
<1> QED BY <1>4, <1>5, <1>6 DEF RestoreInv

\* Nothing happens.
LEMMA StutterKeeps ==
  ASSUME RestoreInv, UNCHANGED vars
  PROVE  RestoreInv'
<1>1. /\ TypeOK /\ PhaseKnown /\ OwnersKnown /\ PlanKnown /\ PagesStill /\ FateKnown
      /\ results = <<>> => VerifiedIsFree(job.dump.fixed)
  BY DEF RestoreInv
<1>2. TypeOK'
  BY <1>1 DEF TypeOK, vars, runVars, preflightVars
<1>3. PhaseKnown' /\ OwnersKnown'
  BY <1>1 DEF PhaseKnown, OwnersKnown, vars, runVars, preflightVars, Fixed
<1>4. results' = <<>> => VerifiedIsFree(job.dump.fixed)'
  BY <1>1 DEF VerifiedIsFree, vars, runVars, preflightVars, AllocationOwners, Fixed
<1>5. PlanKnown' /\ FateKnown'
  BY <1>1 DEF PlanKnown, FateKnown, vars, runVars
<1>6. PagesStill'
  BY <1>1 DEF PagesStill, Untouched, vars, runVars, preflightVars, NamesOf
<1> QED BY <1>2, <1>3, <1>4, <1>5, <1>6 DEF RestoreInv

\* RestoreInv is inductive: one step for each action.
LEMMA StepKeeps ==
  ASSUME RestoreInv, [Next]_vars
  PROVE  RestoreInv'
BY StartRunKeeps, FetchKeeps, RunEndsKeeps, StepsDoneKeeps, VerifyKeeps, MakePlanKeeps,
   PreflightKeeps, DeviceComesUpKeeps, StepWithoutPostKeeps, StepPostedKeeps,
   StepMovesKeeps, StepRefusedKeeps, StepFailsKeeps, StutterKeeps
DEF Next, Run

\* Of every state of a restore the invariant holds.
THEOREM RestoreInvariant == Spec => []RestoreInv
<1>1. Init => RestoreInv
  BY InitKnown
<1>2. RestoreInv /\ [Next]_vars => RestoreInv'
  BY StepKeeps
<1> QED BY <1>1, <1>2, PTL DEF Spec

-----------------------------------------------------------------------------
(* The exit code                                                           *)

\* Where the comparison finds nothing, the control is as the dump has it.
Kept(dumped, form, f) ==
  dumped.value[f] # Absent /\ f \in form.shows /\ Enabled(form, f) =>
    IF IsMarker(dumped.value[f], dumped.text, f)
    THEN f \in form.boxes => form.value[f] = "off"
    ELSE form.value[f] = dumped.value[f]

\* A field that agrees with the dump is as the dump has it.
LEMMA AgreedIsKept ==
  ASSUME NEW page \in FormPages, NEW dumped \in DumpedForm(page), NEW form \in Form(page),
         NEW f \in Fields[page], Agree(dumped, form, f)
  PROVE  Kept(dumped, form, f)
<1> DEFINE v == form.value[f]
           old == dumped.value[f]
           new == FormValue(form, f)
<1>1. v \in Values /\ (f \in form.boxes => v \in {"on", "off"}) /\ v # Absent
  BY DEF Form, Values
<1> SUFFICES ASSUME old # Absent, f \in form.shows, Enabled(form, f)
             PROVE  IF IsMarker(old, dumped.text, f)
                    THEN f \in form.boxes => v = "off"
                    ELSE v = old
  BY DEF Kept
<1>2. new = IF f \in form.boxes /\ v = "off" THEN Unchecked ELSE v
  BY DEF FormValue
<1>3. new # Absent
  BY <1>1, <1>2 DEF Unchecked, Absent
<1>4. /\ old = new
      /\ old = Unchecked => SameText(dumped, form, f)
  BY <1>3 DEF Agree
<1>5. CASE old # Unchecked
  BY <1>2, <1>4, <1>5 DEF IsMarker
<1>6. CASE old = Unchecked /\ f \in dumped.text
  <2>1. ~IsMarker(old, dumped.text, f)
    BY <1>6 DEF IsMarker
  <2>2. ~IsMarker(new, LiteralText(form), f)
    BY <1>4, <1>6, <2>1 DEF SameText
  <2>3. f \in LiteralText(form)
    BY <1>4, <1>6, <2>2 DEF IsMarker
  <2>4. f \notin form.boxes
    BY <2>3 DEF LiteralText
  <2> QED BY <1>2, <1>4, <2>1, <2>4
<1>7. CASE old = Unchecked /\ f \notin dumped.text
  <2>1. f \in form.boxes => v = "off"
    BY <1>1, <1>2, <1>4, <1>7 DEF Unchecked
  <2> QED BY <1>7, <2>1 DEF IsMarker
<1> QED BY <1>5, <1>6, <1>7

\* A field that disagrees is one of the differences the diff counts.
LEMMA DifferenceIsOwed ==
  ASSUME NEW page \in FormPages, NEW dumped \in DumpedForm(page), NEW form \in Form(page),
         NEW f \in Fields[page], ~Agree(dumped, form, f), \A c \in FieldDiffs(dumped, form, page) : ~Owed(c)
  PROVE  Kept(dumped, form, f)
<1> DEFINE c == [field |-> f, dump |-> dumped.value[f], live |-> FormValue(form, f),
                 disabled |-> f \in Disabled(form),
                 unrendered |-> form.shows # {} /\ f \notin form.shows]
<1>1. c \in FieldDiffs(dumped, form, page)
  BY DEF FieldDiffs
<1>2. ~Owed(c)
  BY <1>1
<1>3. dumped.value[f] = Absent \/ f \in Disabled(form) \/ f \notin form.shows
  BY <1>2 DEF Owed
<1> QED BY <1>3 DEF Kept, Disabled

\* The services of a table, by key.
LEMMA ServicesOf ==
  ASSUME NEW rows \in Seq(Service)
  PROVE  Services(rows) = {ServiceKey[s] : s \in ToSet(rows)}
<1>1. \A s \in ToSet(rows) : ServiceKey[s] = <<Fold[s.name], s.kind>>
  BY Members, ServiceKeys
<1> QED BY <1>1 DEF Services

\* The forwards of a table, by key.
LEMMA ForwardsOf ==
  ASSUME NEW rows \in Seq(Forward)
  PROVE  Forwards(rows) = {ForwardKey[f] : f \in ToSet(rows)}
<1>1. \A f \in ToSet(rows) : ForwardKey[f] = <<Fold[f.service], f.device>>
  BY Members, ForwardKeys
<1> QED BY <1>1 DEF Forwards

\* When the diff counts no difference, the gateway is as the dump.
LEMMA ConvergedMeansRestored ==
  ASSUME TypeOK, Converged(Diff(job.dump, gw, job.selected), job.prune)
  PROVE  Restored
<1> DEFINE dump == job.dump
           selected == job.selected
           diff == Diff(dump, gw, selected)
<1>1. dump \in Dumps /\ gw \in Pages
  BY JobFields DEF TypeOK
<1>2. /\ dump.services \in Seq(Service) /\ gw.services \in Seq(Service)
      /\ dump.forwards \in Seq(Forward) /\ gw.forwards \in Seq(Forward)
  BY <1>1, DumpFields, PagesFields
<1>3. /\ diff.missingServices = <<>> /\ diff.missingForwards = <<>>
      /\ diff.reservations = {}
      /\ \A p \in FormPages : \A c \in diff.forms[p] : ~Owed(c)
      /\ job.prune => diff.extraServices = <<>> /\ diff.extraForwards = <<>>
  BY DEF Converged
<1>4. ASSUME "services" \in selected
      PROVE  /\ Services(dump.services) \subseteq Services(gw.services)
             /\ job.prune => Services(gw.services) = Services(dump.services)
  <2>1. Without(dump.services, gw.services, ServiceKey) = <<>>
    BY <1>3, <1>4 DEF Diff
  <2>2. job.prune => Without(gw.services, dump.services, ServiceKey) = <<>>
    BY <1>3, <1>4 DEF Diff
  <2>3. \A i \in ToSet(dump.services) : \E o \in ToSet(gw.services) : ServiceKey[i] = ServiceKey[o]
    BY <1>2, <2>1, WithoutFacts
  <2>4. job.prune => \A i \in ToSet(gw.services) : \E o \in ToSet(dump.services) : ServiceKey[i] = ServiceKey[o]
    BY <1>2, <2>2, WithoutFacts
  <2>5. /\ Services(dump.services) = {ServiceKey[s] : s \in ToSet(dump.services)}
        /\ Services(gw.services) = {ServiceKey[s] : s \in ToSet(gw.services)}
    BY <1>2, ServicesOf
  <2> HIDE DEF dump
  <2> QED BY <2>3, <2>4, <2>5
<1>5. ASSUME "apphosting" \in selected
      PROVE  /\ Forwards(dump.forwards) \subseteq Forwards(gw.forwards)
             /\ job.prune => Forwards(gw.forwards) = Forwards(dump.forwards)
  <2>1. Without(dump.forwards, gw.forwards, ForwardKey) = <<>>
    BY <1>3, <1>5 DEF Diff
  <2>2. job.prune => Without(gw.forwards, dump.forwards, ForwardKey) = <<>>
    BY <1>3, <1>5 DEF Diff
  <2>3. \A i \in ToSet(dump.forwards) : \E o \in ToSet(gw.forwards) : ForwardKey[i] = ForwardKey[o]
    BY <1>2, <2>1, WithoutFacts
  <2>4. job.prune => \A i \in ToSet(gw.forwards) : \E o \in ToSet(dump.forwards) : ForwardKey[i] = ForwardKey[o]
    BY <1>2, <2>2, WithoutFacts
  <2>5. /\ Forwards(dump.forwards) = {ForwardKey[s] : s \in ToSet(dump.forwards)}
        /\ Forwards(gw.forwards) = {ForwardKey[s] : s \in ToSet(gw.forwards)}
    BY <1>2, ForwardsOf
  <2> HIDE DEF dump
  <2> QED BY <2>3, <2>4, <2>5
<1>6. ASSUME "ipalloc" \in selected, NEW d \in Devices
      PROVE  dump.fixed[d] \in {NoIp, gw.fixed[d]}
  BY <1>3, <1>6 DEF Diff
<1>7. ASSUME NEW page \in FormPages \cap selected, dump.forms[page].captured,
             NEW f \in Fields[page]
      PROVE  FieldHeld(page, f)
  <2>1. dump.forms[page] \in DumpedForm(page) /\ gw.forms[page] \in Form(page)
    BY <1>1, DumpFields, PagesFields
  <2>2. diff.forms[page] = FieldDiffs(dump.forms[page], gw.forms[page], page)
    BY <1>7 DEF Diff
  <2>3. Kept(dump.forms[page], gw.forms[page], f)
    BY <1>3, <2>1, <2>2, AgreedIsKept, DifferenceIsOwed
  <2> QED BY <2>3 DEF FieldHeld, Kept, Visible
<1> QED BY <1>4, <1>5, <1>6, <1>7 DEF Restored

\* A gateway as the dump stays so while its tables stay.
LEMMA RestoredKept ==
  ASSUME Restored, TablesKept, job' = job
  PROVE  Restored'
BY DEF Restored, TablesKept, SameRows, FieldHeld, Visible, Services, Forwards

\* A device that comes up changes no table.
LEMMA DeviceLeaves ==
  ASSUME RestoreInv, DeviceComesUp
  PROVE  TablesKept
<1>1. gw \in Pages
  BY DEF RestoreInv, TypeOK
<1>2. PICK d \in Devices : gw' = [gw EXCEPT !.listed = @ \cup {d}]
  BY DEF DeviceComesUp, DeviceAppears
<1> DEFINE l == gw.listed \cup {d}
<1>3. l \in SUBSET Devices /\ gw' = [gw EXCEPT !.listed = l]
  BY <1>1, <1>2, PagesFields
<1> HIDE DEF l
<1> QED BY <1>1, <1>3, ListedChange DEF TablesKept

\* A step keeps ExitIsTrue.
LEMMA ExitKept ==
  ASSUME RestoreInv, ExitIsTrue, [Next]_vars
  PROVE  ExitIsTrue'
<1>1. RestoreInv' /\ TypeOK
  BY StepKeeps DEF RestoreInv
<1>2. pc' = "done" => (unknown' => exit' = 2)
  BY <1>1 DEF RestoreInv, FateKnown
<1> SUFFICES ASSUME pc' = "done", commit', exit' = 0
             PROVE  Restored'
  BY <1>2 DEF ExitIsTrue
<1>3. CASE Verify
  <2>1. /\ gw' = gw /\ job' = job
        /\ exit' = IF Unverifiable \/ ~Readable(gw) THEN 2 ELSE ExitCode(gw)
    BY <1>3 DEF Verify, End, preflightVars
  <2>2. ExitCode(gw) = 0
    BY <2>1
  <2>3. Converged(Diff(job.dump, gw, job.selected), job.prune)
    BY <2>2 DEF ExitCode
  <2>4. Restored
    BY <1>1, <2>3, ConvergedMeansRestored
  <2> QED BY <2>1, <2>4, RestoredKept DEF TablesKept, SameRows
<1>4. CASE pc = "done" /\ commit /\ exit = 0 /\ job' = job /\ TablesKept
  BY <1>4, RestoredKept DEF ExitIsTrue
<1>5. CASE DeviceComesUp
  <2> QED BY <1>4, <1>5, DeviceLeaves DEF DeviceComesUp
<1>6. CASE UNCHANGED vars
  BY <1>4, <1>6 DEF vars, runVars, preflightVars, TablesKept, SameRows
<1>7. CASE StartRun \/ Fetch \/ FetchFails \/ PreflightPasses \/ Refetch \/ StepsDone \/ VerifyFails
  BY <1>7 DEF StartRun, Fetch, FetchFails, PreflightPasses, Refetch, StepsDone, VerifyFails, End
<1>8. CASE PreflightEnds \/ MakePlan
  <2>1. commit' = commit
    BY <1>8 DEF PreflightEnds, MakePlan
  <2>2. \/ exit' = 2
        \/ exit' = 0 /\ ~commit
        \/ pc' = "execute"
    BY <1>8 DEF PreflightEnds, MakePlan, End
  <2> QED BY <2>1, <2>2
<1>9. CASE PreflightSteps \/ PreflightTime \/ PreflightFaults
  BY <1>9 DEF PreflightSteps, PreflightTime, PreflightFaults, runVars
<1>10. CASE StepWithoutPost \/ StepPosted \/ StepMoves \/ StepRefused \/ StepFails
  BY <1>10 DEF StepWithoutPost, StepPosted, StepMoves, StepRefused, StepFails, Posting, Executing
<1> QED BY <1>3, <1>5, <1>6, <1>7, <1>8, <1>9, <1>10 DEF Next, Run

\* cli._run_restore: exit 0 means restored, and a POST of unknown fate is told.
THEOREM ExitTrue == Spec => []ExitIsTrue
<1>1. Init => RestoreInv /\ ExitIsTrue
  BY InitKnown DEF Init, ExitIsTrue
<1>2. RestoreInv /\ ExitIsTrue /\ [Next]_vars => RestoreInv' /\ ExitIsTrue'
  BY StepKeeps, ExitKept
<1> QED BY <1>1, <1>2, PTL DEF Spec

-----------------------------------------------------------------------------
(* What a step does to the tables                                          *)

Posted ==
  /\ Posting /\ ~Current.blocked /\ gw' \in Pages
  /\ TablesAfter(Current, gw') /\ FormsAfter(Current, gw')
  /\ UNCHANGED <<job, pc, live, plan>>

\* Every other step leaves the tables and the forms.
LEMMA PostedOrKept ==
  ASSUME RestoreInv, [Next]_vars
  PROVE  TablesKept \/ Posted
<1>1. TypeOK /\ PlanKnown
  BY DEF RestoreInv
<1>2. CASE StepPosted \/ StepMoves \/ StepFails
  <2>1. Posting /\ UNCHANGED <<job, pc, live, plan>>
    BY <1>2 DEF StepPosted, StepMoves, StepFails
  <2>2. gw' = gw \/ gw' \in Effects(Resolved(Current))
    <3>1. CASE StepPosted
      BY <3>1 DEF StepPosted
    <3>2. CASE StepFails
      BY <3>2 DEF StepFails
    <3>3. CASE StepMoves
      <4>1. gw' \in Effects(Current) /\ Current.moves
        BY <3>3 DEF StepMoves
      <4> QED BY <1>1, <2>1, <4>1, MovesEffects, Zenon
    <3> QED BY <1>2, <3>1, <3>2, <3>3
  <2>3. gw' = gw => TablesKept
    BY DEF TablesKept, SameRows
  <2> QED BY <1>1, <2>1, <2>2, <2>3, PostFacts DEF Posted
<1>3. CASE PreflightSteps \/ PreflightTime \/ PreflightFaults
  BY <1>3, PreflightLeaves
<1>4. CASE DeviceComesUp
  BY <1>4, DeviceLeaves
<1>5. CASE \/ StartRun \/ Fetch \/ FetchFails \/ PreflightPasses \/ PreflightEnds \/ Refetch
           \/ MakePlan \/ StepsDone \/ Verify \/ VerifyFails \/ StepWithoutPost \/ StepRefused
           \/ UNCHANGED vars
  <2>1. gw' = gw
    BY <1>5 DEF StartRun, Fetch, FetchFails, PreflightPasses, PreflightEnds, Refetch,
           MakePlan, StepsDone, Verify, VerifyFails, StepWithoutPost, StepRefused,
           vars, preflightVars, Gateway
  <2> QED BY <2>1 DEF TablesKept, SameRows
<1> QED BY <1>2, <1>3, <1>4, <1>5 DEF Next, Run

\* The step at hand was made by the planner.
LEMMA CurrentMade ==
  ASSUME TypeOK, PlanKnown, Executing
  PROVE  /\ StepMade(plan, At, job.dump, live, job.selected)
         /\ At \in 1..Len(plan) /\ Current = plan[At]
         /\ DOMAIN results = 1..(At - 1) /\ At \in Nat
<1>1. PICK pages : PlanMade(plan, pages, job.dump, live, job.selected)
  BY PlanFitsAlways DEF PlanFits
<1>2. At \in 1..Len(plan) /\ DOMAIN results = 1..Len(results) /\ Len(results) \in Nat
  BY ExecutingFacts
<1>3. At - 1 = Len(results) /\ At \in Nat
  BY <1>2 DEF At
<1> QED BY <1>1, <1>2, <1>3 DEF PlanMade, Current

\* A step on a table is one planned for it.
LEMMA CurrentRow ==
  ASSUME TypeOK, PlanKnown, Executing, Current.kind \in RowKinds
  PROVE  Current \in RowSteps /\ RowAt(plan, At, job.dump, live)
<1>1. StepMade(plan, At, job.dump, live, job.selected) /\ Current = plan[At]
  BY CurrentMade
<1> QED BY <1>1 DEF StepMade, OtherStep, RowKinds

\* What is added to a table of services is one more row of it.
LEMMA InsertedServices ==
  ASSUME NEW rows \in Seq(Service), NEW row \in Service, NEW at \in 1..(Len(rows) + 1),
         NEW new, new = InsertAt(rows, at, row)
  PROVE  ToSet(new) = ToSet(rows) \cup {row}
BY InsertFacts

\* What is added to a table of forwards is one more row of it.
LEMMA InsertedForwards ==
  ASSUME NEW rows \in Seq(Forward), NEW row \in Forward, NEW at \in 1..(Len(rows) + 1),
         NEW new, new = InsertAt(rows, at, row)
  PROVE  ToSet(new) = ToSet(rows) \cup {row}
BY InsertFacts

\* The other rows stay.
LEMMA RowsLeft ==
  ASSUME NEW S, NEW rows \in Seq(S), NEW at \in 1..Len(rows)
  PROVE  \A s \in ToSet(rows) : s = rows[at] \/ s \in ToSet(RemoveAt(rows, at))
<1>1. ToSet(RemoveAt(rows, at)) = {rows[i] : i \in 1..Len(rows) \ {at}}
  BY RemoveFacts
<1>2. ToSet(rows) = {rows[i] : i \in 1..Len(rows)}
  BY Members
<1> QED BY <1>1, <1>2

\* A step that was sent leaves the dump's services.
LEMMA ServicesStay ==
  ASSUME RestoreInv, Posted
  PROVE  Services(job.dump.services) \cap Services(gw.services) \subseteq Services(gw'.services)
<1> DEFINE dump == job.dump
           old == gw.services
           new == gw'.services
           step == Current
<1>1. /\ TypeOK /\ PlanKnown /\ PagesStill /\ Executing /\ pc = "execute"
      /\ TablesAfter(step, gw') /\ ~step.blocked /\ gw' \in Pages
  BY DEF RestoreInv, Posted, Posting, Executing
<1>2. /\ dump.services \in Seq(Service) /\ old \in Seq(Service) /\ new \in Seq(Service)
  BY <1>1, JobFields, DumpFields, PagesFields DEF TypeOK
<1>3. /\ Services(dump.services) = {ServiceKey[s] : s \in ToSet(dump.services)}
      /\ Services(old) = {ServiceKey[s] : s \in ToSet(old)}
      /\ Services(new) = {ServiceKey[s] : s \in ToSet(new)}
  BY <1>2, ServicesOf
<1> DEFINE keys == {ServiceKey[s] : s \in ToSet(dump.services)}
<1>4. CASE new = old
  BY <1>4
<1>5. CASE step.kind = "add-service" /\ new # old
  <2>1. step.of \in Service
    BY <1>1, <1>5, ExecutingFacts DEF StepFits
  <2>2. PICK i \in 1..(Len(old) + 1) : new = InsertAt(old, i, step.of)
    BY <1>1, <1>5 DEF TablesAfter
  <2> HIDE DEF old, new, step
  <2>3. ToSet(new) = ToSet(old) \cup {step.of}
    BY <1>2, <2>1, <2>2, InsertedServices
  <2> QED BY <1>3, <2>3 DEF old, new
<1>6. CASE step.kind = "remove-service" /\ new # old
  <2> DEFINE at == step.at
  <2>1. at \in 1..Len(old) /\ new = RemoveAt(old, at)
    BY <1>1, <1>6 DEF TablesAfter
  <2>2. step \in RowSteps /\ RowAt(plan, At, dump, live) /\ step = plan[At]
        /\ DOMAIN results = 1..(At - 1)
    BY <1>1, <1>6, CurrentRow, CurrentMade DEF RowKinds
  <2>3. /\ live.services[at] = step.of
        /\ \A w \in ToSet(dump.services) : ServiceKey[step.of] # ServiceKey[w]
        /\ \A j \in 1..(At - 1) : plan[j].kind \in {"add-service", "remove-service"} => plan[j].blocked
    BY <1>1, <1>6, <2>2 DEF RowAt, RemovesService
  <2>4. old = live.services
    BY <1>1, <2>2, <2>3 DEF PagesStill, Untouched
  <2>5. ServiceKey[old[at]] \notin keys
    BY <2>3, <2>4
  <2> HIDE DEF at, old, new, keys
  <2>6. \A s \in ToSet(old) : s = old[at] \/ s \in ToSet(new)
    BY <1>2, <2>1, RowsLeft
  <2> QED BY <1>3, <2>5, <2>6 DEF old, new, keys
<1>7. step.kind \notin {"add-service", "remove-service"} => new = old
  BY <1>1 DEF TablesAfter, ServiceKinds
<1> QED BY <1>4, <1>5, <1>6, <1>7

\* A step that was sent leaves the dump's forwards.
LEMMA ForwardsStay ==
  ASSUME RestoreInv, Posted
  PROVE  Forwards(job.dump.forwards) \cap Forwards(gw.forwards) \subseteq Forwards(gw'.forwards)
<1> DEFINE dump == job.dump
           old == gw.forwards
           new == gw'.forwards
           step == Current
<1>1. /\ TypeOK /\ PlanKnown /\ PagesStill /\ Executing /\ pc = "execute"
      /\ TablesAfter(step, gw') /\ ~step.blocked /\ gw' \in Pages
  BY DEF RestoreInv, Posted, Posting, Executing
<1>2. /\ dump.forwards \in Seq(Forward) /\ old \in Seq(Forward) /\ new \in Seq(Forward)
  BY <1>1, JobFields, DumpFields, PagesFields DEF TypeOK
<1>3. /\ Forwards(dump.forwards) = {ForwardKey[s] : s \in ToSet(dump.forwards)}
      /\ Forwards(old) = {ForwardKey[s] : s \in ToSet(old)}
      /\ Forwards(new) = {ForwardKey[s] : s \in ToSet(new)}
  BY <1>2, ForwardsOf
<1> DEFINE keys == {ForwardKey[s] : s \in ToSet(dump.forwards)}
<1>4. CASE new = old
  BY <1>4
<1>5. CASE step.kind = "add-forward" /\ new # old
  <2>1. step.of \in Forward
    BY <1>1, <1>5, ExecutingFacts DEF StepFits
  <2>2. PICK i \in 1..(Len(old) + 1) : new = InsertAt(old, i, step.of)
    BY <1>1, <1>5 DEF TablesAfter
  <2> HIDE DEF old, new, step
  <2>3. ToSet(new) = ToSet(old) \cup {step.of}
    BY <1>2, <2>1, <2>2, InsertedForwards
  <2> QED BY <1>3, <2>3 DEF old, new
<1>6. CASE step.kind = "remove-forward" /\ new # old
  <2> DEFINE at == step.at
  <2>1. at \in 1..Len(old) /\ new = RemoveAt(old, at)
    BY <1>1, <1>6 DEF TablesAfter
  <2>2. step \in RowSteps /\ RowAt(plan, At, dump, live) /\ step = plan[At]
        /\ DOMAIN results = 1..(At - 1)
    BY <1>1, <1>6, CurrentRow, CurrentMade DEF RowKinds
  <2>3. /\ live.forwards[at] = step.of
        /\ \A w \in ToSet(dump.forwards) : ForwardKey[step.of] # ForwardKey[w]
        /\ \A j \in 1..(At - 1) : plan[j].kind \in {"add-forward", "remove-forward"} => plan[j].blocked
    BY <1>1, <1>6, <2>2 DEF RowAt, RemovesForward
  <2>4. old = live.forwards
    BY <1>1, <2>2, <2>3 DEF PagesStill, Untouched
  <2>5. ForwardKey[old[at]] \notin keys
    BY <2>3, <2>4
  <2> HIDE DEF at, old, new, keys
  <2>6. \A s \in ToSet(old) : s = old[at] \/ s \in ToSet(new)
    BY <1>2, <2>1, RowsLeft
  <2> QED BY <1>3, <2>5, <2>6 DEF old, new, keys
<1>7. step.kind \notin {"add-forward", "remove-forward"} => new = old
  BY <1>1 DEF TablesAfter, ForwardKinds
<1> QED BY <1>4, <1>5, <1>6, <1>7

RowsStay ==
  /\ Services(job.dump.services) \cap Services(gw.services) \subseteq Services(gw'.services)
  /\ Forwards(job.dump.forwards) \cap Forwards(gw.forwards) \subseteq Forwards(gw'.forwards)

\* restore._block_removes_behind_adds, _apply_remove_limit.
THEOREM RowsOfTheDumpStay == Spec => DumpedRowsStay
<1>1. RestoreInv /\ [Next]_vars => [RowsStay]_vars
  <2> SUFFICES ASSUME RestoreInv, [Next]_vars PROVE RowsStay
    OBVIOUS
  <2>1. CASE TablesKept
    BY <2>1 DEF TablesKept, SameRows, RowsStay
  <2>2. CASE Posted
    BY <2>2, ServicesStay, ForwardsStay DEF RowsStay
  <2> QED BY <2>1, <2>2, PostedOrKept
<1>2. Spec => [][RowsStay]_vars
  BY <1>1, RestoreInvariant, PTL DEF Spec
<1> QED BY <1>2, PTL DEF DumpedRowsStay, RowsStay

-----------------------------------------------------------------------------
(* The names of the services                                               *)

\* A new name among names that are apart.
LEMMA InsertApart ==
  ASSUME NEW rows \in Seq(Service), Apart(rows), NEW row \in Service,
         Fold[row.name] \notin NamesOf(rows), NEW at \in 1..(Len(rows) + 1)
  PROVE  Apart(InsertAt(rows, at, row))
<1> DEFINE r == InsertAt(rows, at, row)
           L == Len(rows)
<1>1. /\ r \in Seq(Service) /\ Len(r) = L + 1 /\ r[at] = row
      /\ \A i \in 1..(L + 1) : /\ i < at => r[i] = rows[i]
                               /\ i > at => r[i] = rows[i - 1]
  BY InsertFacts
<1>2. L \in Nat /\ DOMAIN rows = 1..L /\ at \in Nat /\ at \in 1..(L + 1)
  OBVIOUS
<1>3. \A i \in 1..L : Fold[rows[i].name] # Fold[row.name]
  BY Members DEF NamesOf
<1> HIDE DEF r, L
<1>4. DOMAIN r = 1..(L + 1)
  BY <1>1, <1>2
<1> DEFINE from(i) == IF i < at THEN i ELSE i - 1
<1>5. ASSUME NEW i \in 1..(L + 1), i # at
      PROVE  from(i) \in 1..L /\ r[i] = rows[from(i)]
  <2>1. i < at \/ i > at
    BY <1>2, <1>5
  <2>2. CASE i < at
    BY <2>2, <1>1, <1>2
  <2>3. CASE i > at
    <3>1. ~(i < at) /\ i - 1 \in 1..L
      BY <2>3, <1>2
    <3> QED BY <2>3, <3>1, <1>1
  <2> QED BY <2>1, <2>2, <2>3
<1>6. ASSUME NEW i \in 1..(L + 1), NEW j \in 1..(L + 1), i # at, j # at, from(i) = from(j)
      PROVE  i = j
  BY <1>2, <1>6
<1> HIDE DEF from
<1>7. ASSUME NEW i \in 1..(L + 1), NEW j \in 1..(L + 1), Fold[r[i].name] = Fold[r[j].name]
      PROVE  i = j
  <2>1. CASE i # at /\ j # at
    <3>1. Fold[rows[from(i)].name] = Fold[rows[from(j)].name]
      BY <1>5, <1>7, <2>1
    <3>2. from(i) = from(j)
      BY <1>2, <1>5, <2>1, <3>1 DEF Apart
    <3> QED BY <1>6, <2>1, <3>2
  <2>2. CASE i = at /\ j # at
    BY <1>1, <1>3, <1>5, <1>7, <2>2
  <2>3. CASE j = at /\ i # at
    BY <1>1, <1>3, <1>5, <1>7, <2>3
  <2> QED BY <2>1, <2>2, <2>3
<1> QED BY <1>4, <1>7 DEF Apart, r

\* A row less: the names stay apart and that one is gone.
LEMMA RemoveApart ==
  ASSUME NEW rows \in Seq(Service), Apart(rows), NEW at \in 1..Len(rows)
  PROVE  /\ Apart(RemoveAt(rows, at))
         /\ Fold[rows[at].name] \notin NamesOf(RemoveAt(rows, at))
         /\ NamesOf(RemoveAt(rows, at)) \subseteq NamesOf(rows)
<1> DEFINE r == RemoveAt(rows, at)
           L == Len(rows)
<1>1. /\ r \in Seq(Service) /\ Len(r) = L - 1
      /\ \A i \in 1..(L - 1) : r[i] = IF i < at THEN rows[i] ELSE rows[i + 1]
      /\ ToSet(r) = {rows[i] : i \in 1..L \ {at}}
  BY RemoveFacts
<1>2. L \in Nat /\ DOMAIN rows = 1..L /\ at \in Nat /\ at \in 1..L
  OBVIOUS
<1>3. ToSet(rows) = {rows[i] : i \in 1..L}
  BY Members
<1> HIDE DEF r, L
<1>4. DOMAIN r = 1..(L - 1)
  BY <1>1
<1> DEFINE from(i) == IF i < at THEN i ELSE i + 1
<1>5. ASSUME NEW i \in 1..(L - 1)
      PROVE  from(i) \in 1..L /\ r[i] = rows[from(i)]
  BY <1>1, <1>2
<1>6. ASSUME NEW i \in 1..(L - 1), NEW j \in 1..(L - 1), from(i) = from(j)
      PROVE  i = j
  BY <1>2, <1>6
<1> HIDE DEF from
<1>7. Apart(r)
  BY <1>2, <1>4, <1>5, <1>6 DEF Apart
<1>8. Fold[rows[at].name] \notin NamesOf(r)
  <2> SUFFICES ASSUME NEW s \in ToSet(r), Fold[s.name] = Fold[rows[at].name] PROVE FALSE
    BY DEF NamesOf
  <2>1. PICK i \in 1..L \ {at} : s = rows[i]
    BY <1>1
  <2> QED BY <1>2, <2>1 DEF Apart
<1>9. NamesOf(r) \subseteq NamesOf(rows)
  BY <1>1, <1>3 DEF NamesOf
<1> QED BY <1>7, <1>8, <1>9 DEF r

\* A service is only added to a name no row has.
LEMMA AddIsNew ==
  ASSUME RestoreInv, NamesApart, Posting, ~Current.blocked, Current.kind = "add-service"
  PROVE  Fold[Current.of.name] \notin NamesOf(gw.services)
<1> DEFINE step == Current
<1>1. /\ TypeOK /\ PlanKnown /\ PagesStill /\ Executing /\ ~Stopped /\ pc = "execute"
  BY DEF RestoreInv, Posting, Executing
<1>2. /\ RowAt(plan, At, job.dump, live) /\ step = plan[At]
      /\ DOMAIN results = 1..(At - 1) /\ At \in Nat
  BY <1>1, CurrentRow, CurrentMade DEF RowKinds
<1>3. \/ /\ Fold[step.of.name] \notin NamesOf(live.services)
         /\ \A j \in 1..(At - 1) :
              plan[j].kind = "add-service" => Fold[plan[j].of.name] # Fold[step.of.name]
      \/ At > 1 /\ plan[At - 1].kind = "remove-service" /\ ~plan[At - 1].blocked
  BY <1>2 DEF RowAt, AddsService
<1>4. NamesOf(gw.services) \subseteq
        NamesOf(live.services)
          \cup {Fold[plan[i].of.name] :
                  i \in {j \in DOMAIN results :
                           plan[j].kind = "add-service" /\ ~plan[j].blocked}}
  BY <1>1 DEF PagesStill
<1>5. CASE /\ Fold[step.of.name] \notin NamesOf(live.services)
           /\ \A j \in 1..(At - 1) :
                plan[j].kind = "add-service" => Fold[plan[j].of.name] # Fold[step.of.name]
  <2> HIDE DEF step
  <2> QED BY <1>2, <1>4, <1>5 DEF step
<1>6. CASE At > 1 /\ plan[At - 1].kind = "remove-service" /\ ~plan[At - 1].blocked
  BY <1>1, <1>6 DEF NamesApart
<1> QED BY <1>3, <1>5, <1>6

\* No step makes a second service of a name.
LEMMA TablesStayApart ==
  ASSUME RestoreInv, NamesApart, [Next]_vars
  PROVE  DuplicateNames(gw'.services) = {}
<1> DEFINE old == gw.services
           new == gw'.services
<1>1. /\ TypeOK /\ PlanKnown /\ DuplicateNames(old) = {}
  BY DEF RestoreInv, NamesApart
<1>2. old \in Seq(Service) /\ Apart(old)
  BY <1>1, PagesFields, ApartMeansNoDuplicates DEF TypeOK
<1>3. CASE new = old
  BY <1>1, <1>3
<1>4. CASE Posted
  <2> DEFINE step == Current
  <2>1. /\ Posting /\ Executing /\ ~step.blocked /\ TablesAfter(step, gw') /\ gw' \in Pages
    BY <1>4 DEF Posted, Posting
  <2>2. step.kind = "add-service" => step.of \in Service
    BY <1>1, <2>1, ExecutingFacts DEF StepFits
  <2>3. step.kind = "add-service" => Fold[step.of.name] \notin NamesOf(old)
    BY <2>1, AddIsNew
  <2>4. \/ new = old
        \/ step.kind = "add-service" /\ \E i \in 1..(Len(old) + 1) : new = InsertAt(old, i, step.of)
        \/ step.at \in 1..Len(old) /\ new = RemoveAt(old, step.at)
    BY <2>1 DEF TablesAfter, ServiceKinds
  <2>5. new \in Seq(Service)
    BY <2>1, PagesFields
  <2> HIDE DEF step, old, new
  <2>6. Apart(new)
    BY <1>2, <2>2, <2>3, <2>4, InsertApart, RemoveApart
  <2> QED BY <2>5, <2>6, ApartMeansNoDuplicates DEF new
<1>5. TablesKept => new = old
  BY DEF TablesKept, SameRows
<1> QED BY <1>3, <1>4, <1>5, PostedOrKept

\* What was to be replaced is gone before its replacement.
ReplacedIsGone ==
  Executing /\ ~Stopped /\ At > 1 =>
       LET before == plan[At - 1] IN
       /\ Current.kind = "add-service" /\ ~Current.blocked
       /\ before.kind = "remove-service" /\ ~before.blocked
       => Fold[Current.of.name] \notin NamesOf(gw.services)

\* The report of the last step says whether the run goes on.
LEMMA LastReport ==
  ASSUME TypeOK, PlanKnown, Executing, NEW r \in Report, results' = Append(results, r)
  PROVE  /\ At' = At + 1 /\ At' - 1 = At
         /\ ~Stopped' => ~Stopping(r) /\ ~Stopped
<1>1. results \in Seq(Report) /\ Len(results) \in Nat /\ DOMAIN results = 1..Len(results)
  BY ExecutingFacts DEF TypeOK
<1>2. /\ Len(results') = Len(results) + 1 /\ DOMAIN results' = 1..(Len(results) + 1)
      /\ results'[Len(results) + 1] = r
      /\ \A i \in DOMAIN results : results'[i] = results[i]
  BY <1>1
<1>3. At' = At + 1 /\ At' - 1 = At
  BY <1>1, <1>2 DEF At
<1>4. Stopping(r) \/ Stopped => Stopped'
  BY <1>1, <1>2 DEF Stopped, Stopping
<1> QED BY <1>3, <1>4

\* A row step of the plan is as PlanMade says.
LEMMA PlannedRow ==
  ASSUME TypeOK, PlanKnown, NEW k \in 1..Len(plan), plan[k].kind \in RowKinds
  PROVE  RowAt(plan, k, job.dump, live)
<1>1. PICK pages : PlanMade(plan, pages, job.dump, live, job.selected)
  BY PlanFitsAlways DEF PlanFits
<1>2. StepMade(plan, k, job.dump, live, job.selected)
  BY <1>1 DEF PlanMade
<1> QED BY <1>2 DEF StepMade, OtherStep, RowKinds

\* After a remove that went out, the name its replacement adds is free.
LEMMA GoneAfterRemove ==
  ASSUME RestoreInv, NamesApart, StepPosted, ~Stopped', Current.kind = "remove-service",
         NEW k \in 1..Len(plan), k = At + 1, plan[k].kind = "add-service", ~plan[k].blocked
  PROVE  Fold[plan[k].of.name] \notin NamesOf(gw'.services)
<1> DEFINE step == Current
           next == plan[k]
           old == gw.services
           new == gw'.services
<1>1. /\ TypeOK /\ PlanKnown /\ PagesStill /\ Posting /\ Executing /\ pc = "execute"
      /\ DuplicateNames(old) = {}
  BY DEF RestoreInv, NamesApart, StepPosted, Posting, Executing
<1>3. old \in Seq(Service) /\ Apart(old)
  BY <1>1, PagesFields, ApartMeansNoDuplicates DEF TypeOK
<1>4. UNCHANGED <<job, live, plan>> /\ gw' \in Effects(Resolved(step))
  BY DEF StepPosted
<1>5. /\ ~step.blocked /\ TablesAfter(step, gw')
  BY <1>1, <1>4, PostFacts
<1> DEFINE applied == Applied(Current)
           failed == [Applied(Current) EXCEPT !.status = "failed"]
<1>6. PICK r \in Report : /\ results' = Append(results, r)
                          /\ r.status = "failed" \/ Matches(step, gw')
  <2>1. applied \in Report /\ failed \in Report /\ failed.status = "failed"
    BY DEF NothingSent, Applied, Report, StepStatuses, Faults
  <2>2. results' = Append(results, IF Matches(step, gw') THEN applied ELSE failed)
    BY DEF StepPosted, Tell
  <2> QED BY <2>1, <2>2
<1>7. ~Stopping(r)
  BY <1>1, <1>6, LastReport
<1>8. Matches(step, gw')
  BY <1>6, <1>7 DEF Stopping
<1>9. /\ RowAt(plan, At, job.dump, live) /\ step = plan[At]
      /\ DOMAIN results = 1..(At - 1) /\ At \in Nat
  BY <1>1, CurrentRow, CurrentMade DEF RowKinds
<1>10. RowAt(plan, k, job.dump, live) /\ k - 1 = At
  <2>1. RowAt(plan, k, job.dump, live)
    BY <1>1, PlannedRow DEF RowKinds
  <2> QED BY <1>9, <2>1
<1>11. /\ step.at \in 1..Len(live.services) /\ live.services[step.at] = step.of
       /\ \A j \in 1..(At - 1) : plan[j].kind \in {"add-service", "remove-service"} => plan[j].blocked
  BY <1>5, <1>9 DEF RowAt, RemovesService
<1>12. old = live.services
  BY <1>1, <1>9, <1>11 DEF PagesStill, Untouched
<1>13. new # old
  <2>1. step.of \in ToSet(old)
    BY <1>3, <1>11, <1>12, Members
  <2> QED BY <1>8, <2>1 DEF Matches
<1>14. new = RemoveAt(old, step.at)
  BY <1>5, <1>13 DEF TablesAfter
<1> HIDE DEF old, new, step, next
<1>15. Fold[step.of.name] \notin NamesOf(new) /\ NamesOf(new) \subseteq NamesOf(old)
  BY <1>3, <1>11, <1>12, <1>14, RemoveApart
<1>16. \/ Fold[next.of.name] \notin NamesOf(live.services)
       \/ Fold[next.of.name] = Fold[step.of.name]
  <2>1. next.kind = "add-service" /\ ~next.blocked
    BY DEF next
  <2>2. next = plan[k] /\ step = plan[k - 1]
    BY <1>9, <1>10 DEF next
  <2> QED BY <1>10, <2>1, <2>2 DEF RowAt, AddsService
<1> QED BY <1>12, <1>15, <1>16 DEF next, new

\* A step that goes wrong, or moves the gateway, is the last.
LEMMA StopsTheRun ==
  ASSUME TypeOK, PlanKnown, StepMoves \/ StepRefused \/ StepFails
  PROVE  Stopped'
<1>1. Executing
  BY DEF StepMoves, StepRefused, StepFails, Posting
<1> SUFFICES \E r \in Report : results' = Append(results, r) /\ Stopping(r)
  BY <1>1, LastReport
<1>2. CASE StepMoves
  <2>1. PICK answered \in BOOLEAN :
       /\ results' = Append(results,
            [Applied(Current) EXCEPT !.status = "reconnect-required", !.moved = TRUE,
                  !.answered = answered, !.acked = FALSE, !.performed = "unknown"])
       /\ unknown' = ~answered
    BY <1>2 DEF StepMoves, Tell
  <2> DEFINE r == [Applied(Current) EXCEPT !.status = "reconnect-required", !.moved = TRUE,
                  !.answered = answered, !.acked = FALSE, !.performed = "unknown"]
  <2>2. r \in Report /\ r.status = "reconnect-required" /\ results' = Append(results, r)
    BY <2>1 DEF NothingSent, Applied, Report, StepStatuses, Faults
  <2> HIDE DEF r
  <2> QED BY <2>2 DEF Stopping
<1>3. CASE StepRefused
  <2> DEFINE r == [Applied(Current) EXCEPT !.status = "failed", !.performed = "no",
             !.acked = FALSE, !.refusal = TRUE]
  <2>1. r \in Report /\ r.status = "failed" /\ results' = Append(results, r)
    BY <1>3 DEF StepRefused, Tell, NothingSent, Applied, Report, StepStatuses, Faults
  <2> HIDE DEF r
  <2> QED BY <2>1 DEF Stopping
<1>4. CASE StepFails
  <2>1. PICK fault \in Faults \ {"none"}, sent \in BOOLEAN :
       /\ results' = Append(results,
            [NothingSent EXCEPT !.status = "failed", !.fault = fault, !.attempted = sent,
                  !.performed = IF sent THEN "unknown" ELSE "no"])
       /\ gw' \in IF sent THEN Effects(Resolved(Current)) \cup {gw} ELSE {gw}
       /\ unknown' = (unknown \/ sent)
    BY <1>4 DEF StepFails, Tell
  <2> DEFINE r == [NothingSent EXCEPT !.status = "failed", !.fault = fault, !.attempted = sent,
                  !.performed = IF sent THEN "unknown" ELSE "no"]
  <2>2. r \in Report /\ r.status = "failed" /\ results' = Append(results, r)
    BY <2>1 DEF NothingSent, Report, StepStatuses, Faults
  <2> HIDE DEF r
  <2> QED BY <2>2 DEF Stopping
<1> QED BY <1>2, <1>3, <1>4

\* It is still free when the replacement is sent.
LEMMA ReplacedStaysGone ==
  ASSUME RestoreInv, NamesApart, [Next]_vars
  PROVE  ReplacedIsGone'
<1>1. TypeOK /\ PlanKnown
  BY DEF RestoreInv
<1> SUFFICES ASSUME Executing', ~Stopped', At' > 1,
                    plan'[At'].kind = "add-service", ~plan'[At'].blocked,
                    plan'[At' - 1].kind = "remove-service", ~plan'[At' - 1].blocked
             PROVE  Fold[plan'[At'].of.name] \notin NamesOf(gw'.services)
  BY DEF ReplacedIsGone, Current
<1>2. pc' = "execute" /\ At' <= Len(plan')
  BY DEF Executing
<1>3. CASE \/ StartRun \/ Fetch \/ FetchFails \/ PreflightPasses \/ PreflightEnds \/ Refetch
           \/ PreflightSteps \/ PreflightTime \/ PreflightFaults
           \/ StepsDone \/ Verify \/ VerifyFails
  BY <1>2, <1>3 DEF StartRun, Fetch, FetchFails, PreflightPasses, PreflightEnds, Refetch,
     PreflightSteps, PreflightTime, PreflightFaults, StepsDone, Verify, VerifyFails, End, runVars
<1>4. CASE MakePlan
  <2>1. results = <<>> /\ results' = results
    BY <1>4, BeforeThePlan DEF MakePlan
  <2>2. At' = 1
    BY <2>1 DEF At
  <2> QED BY <2>2
<1>5. CASE DeviceComesUp \/ UNCHANGED vars
  <2>1. pc' = pc /\ plan' = plan /\ results' = results
    BY <1>5 DEF DeviceComesUp, vars, runVars
  <2>2. gw'.services = gw.services
    BY <1>5, DeviceLeaves DEF vars, preflightVars, TablesKept, SameRows
  <2>3. Executing /\ ~Stopped /\ At' = At /\ At > 1
    BY <1>2, <2>1 DEF Executing, At, Stopped
  <2> QED BY <2>1, <2>2, <2>3 DEF NamesApart, Current
<1>6. CASE StepMoves \/ StepRefused \/ StepFails
  BY <1>1, <1>6, StopsTheRun
<1>7. CASE StepWithoutPost \/ StepPosted
  <2>1. Executing /\ plan' = plan
    BY <1>7 DEF StepWithoutPost, StepPosted, Posting
  <2>2. PICK r \in Report : results' = Append(results, r)
    <3>1. CASE StepWithoutPost
      <4> DEFINE said(status) == [NothingSent EXCEPT !.status = status]
      <4>1. \E r \in {said("not-run"), said("skipped"), NothingSent} : results' = Append(results, r)
        BY <3>1 DEF StepWithoutPost, Tell
      <4> QED BY <4>1, ReportsTyped DEF StepStatuses
    <3>2. CASE StepPosted
      <4> DEFINE applied == Applied(Current)
                 failed == [Applied(Current) EXCEPT !.status = "failed"]
      <4>1. applied \in Report /\ failed \in Report
        BY DEF NothingSent, Applied, Report, StepStatuses, Faults
      <4>2. \E r \in {applied, failed} : results' = Append(results, r)
        BY <3>2 DEF StepPosted, Tell
      <4> QED BY <4>1, <4>2
    <3> QED BY <1>7, <3>1, <3>2
  <2>3. At' = At + 1 /\ At' - 1 = At /\ ~Stopped
    BY <1>1, <2>1, <2>2, LastReport
  <2> DEFINE k == At + 1
  <2>4. At \in 1..Len(plan) /\ Len(plan) \in Nat
    BY <1>1, <2>1, ExecutingFacts
  <2>5. k \in 1..Len(plan) /\ k = At'
    BY <1>2, <2>1, <2>3, <2>4
  <2>6. /\ plan[k].kind = "add-service" /\ ~plan[k].blocked /\ plan'[At'] = plan[k]
        /\ Current.kind = "remove-service" /\ ~Current.blocked
    BY <2>1, <2>3, <2>5 DEF Current
  <2>7. CASE StepPosted
    <3>1. k = At + 1
      OBVIOUS
    <3> HIDE DEF k
    <3>2. Fold[plan[k].of.name] \notin NamesOf(gw'.services)
      BY <2>5, <2>6, <2>7, <3>1, GoneAfterRemove
    <3> QED BY <2>6, <3>2
  <2>8. CASE StepWithoutPost
    <3> DEFINE step == Current
    <3>1. StepFits(step)
      BY <1>1, <2>1, ExecutingFacts
    <3>2. step.kind = "remove-service" /\ ~step.blocked
      BY <2>6
    <3>3. step.kind = "skip" \/ Resolved(step).blocked
      BY <2>3, <2>8 DEF StepWithoutPost
    <3> HIDE DEF step
    <3>4. Resolved(step) = step
      BY <3>1, <3>2 DEF StepFits, Resolved
    <3> QED BY <3>2, <3>3, <3>4
  <2> QED BY <1>7, <2>7, <2>8
<1> QED BY <1>3, <1>4, <1>5, <1>6, <1>7 DEF Next, Run

StartsApart == \A start \in Starts : DuplicateNames(start.gw.services) = {}

\* NamesApart is inductive, with RestoreInv.
LEMMA NamesApartKept ==
  ASSUME RestoreInv, NamesApart, [Next]_vars
  PROVE  NamesApart'
<1>1. DuplicateNames(gw'.services) = {}
  BY TablesStayApart
<1>2. ReplacedIsGone'
  BY ReplacedStaysGone
<1>3. live' = live \/ live' = gw
  BY DEF Next, Run, StartRun, Fetch, FetchFails, PreflightPasses, PreflightEnds, Refetch,
     PreflightSteps, PreflightTime, PreflightFaults, StepsDone, Verify, VerifyFails, MakePlan,
     StepWithoutPost, StepPosted, StepMoves, StepRefused, StepFails, DeviceComesUp,
     vars, runVars
<1>4. DuplicateNames(live'.services) = {}
  BY <1>3 DEF NamesApart
<1>5. DuplicateNames(gw.services)' = {} /\ DuplicateNames(live.services)' = {}
  BY <1>1, <1>4
<1> QED BY <1>2, <1>5 DEF NamesApart, ReplacedIsGone

\* It holds at first when no start has two services of one name.
LEMMA NamesApartAtFirst ==
  ASSUME StartsApart, Init
  PROVE  NamesApart
<1>1. DuplicateNames(gw.services) = {} /\ live = gw /\ pc = "done"
  BY DEF Init, StartsApart
<1> QED BY <1>1 DEF NamesApart, Executing

OneOfEach ==
  \A n \in Names : Held(n, gw'.services) > Held(n, gw.services)
                     => Held(n, gw.services) = 0

\* A name that is held once more than before was free before.
LEMMA HeldOnce ==
  ASSUME RestoreInv, RestoreInv', NamesApart', NEW n \in Names
  PROVE  Held(n, gw'.services) > Held(n, gw.services) => Held(n, gw.services) = 0
<1> DEFINE old == gw.services
           new == gw'.services
           F(rows) == {i \in DOMAIN rows : Fold[rows[i].name] = Fold[n]}
<1>1. /\ old \in Seq(Service) /\ new \in Seq(Service)
      /\ DuplicateNames(new) = {}
  BY PagesFields DEF RestoreInv, TypeOK, NamesApart
<1> HIDE DEF old, new
<1>2. \A rows \in Seq(Service) : Cardinality(F(rows)) \in Nat
  <2> SUFFICES ASSUME NEW rows \in Seq(Service) PROVE Cardinality(F(rows)) \in Nat
    OBVIOUS
  <2>1. DOMAIN rows = 1..Len(rows) /\ Len(rows) \in Nat
    OBVIOUS
  <2>2. IsFiniteSet(1..Len(rows)) /\ F(rows) \subseteq 1..Len(rows)
    BY <2>1, FS_Interval
  <2> HIDE DEF F
  <2>3. IsFiniteSet(F(rows))
    BY <2>2, FS_Subset
  <2> QED BY <2>3, FS_CardinalityType
<1>3. ~(Cardinality(F(new)) > 1)
  <2>1. Fold[n] \in Names
    BY SnapshotAssumption
  <2> QED BY <1>1, <2>1 DEF DuplicateNames
<1>4. Held(n, old) = Cardinality(F(old)) /\ Held(n, new) = Cardinality(F(new))
  BY DEF Held
<1>5. Cardinality(F(old)) \in Nat /\ Cardinality(F(new)) \in Nat
  BY <1>1, <1>2
<1> HIDE DEF F
<1>6. Held(n, new) > Held(n, old) => Held(n, old) = 0
  BY <1>3, <1>4, <1>5
<1> QED BY <1>6 DEF old, new

\* The services branch of build_restore_plan, where the table names none twice.
THEOREM OneOfEachName ==
  ASSUME StartsApart
  PROVE  Spec => OneServicePerName
<1>1. Init => RestoreInv /\ NamesApart
  BY InitKnown, NamesApartAtFirst
<1>2. RestoreInv /\ NamesApart /\ [Next]_vars => RestoreInv' /\ NamesApart'
  BY StepKeeps, NamesApartKept
<1>3. RestoreInv /\ RestoreInv' /\ NamesApart' /\ [Next]_vars => [OneOfEach]_vars
  BY HeldOnce DEF OneOfEach
<1>4. Spec => [][OneOfEach]_vars
  BY <1>1, <1>2, <1>3, PTL DEF Spec
<1> QED BY <1>4, PTL DEF OneServicePerName, OneOfEach

-----------------------------------------------------------------------------
(* A save of a form                                                        *)

\* What a save is made of.
LEMMA SaveMade ==
  ASSUME NEW page \in FormPages, NEW dumped \in DumpedForm(page), NEW form \in Form(page),
         NEW step, step = SaveOf(dumped, form, page), NEW f \in Fields[page]
  PROVE  LET old == dumped.value[f]
             marks == IsMarker(old, dumped.text, f)
             differs == ~Agree(dumped, form, f) /\ old # Absent /\ f \in form.shows
         IN /\ differs /\ marks /\ f \in form.boxes => f \notin DOMAIN step.payload
            /\ differs /\ ~marks => /\ f \in DOMAIN step.payload /\ step.payload[f] = old
                                    /\ f \in step.fields
            /\ Agree(dumped, form, f) =>
                 IF f \in form.shows /\ Enabled(form, f) /\ (f \in form.boxes => form.value[f] = "on")
                 THEN f \in DOMAIN step.payload /\ step.payload[f] = form.value[f]
                 ELSE f \notin DOMAIN step.payload
<1> DEFINE applied == AppliedOf(dumped, form, page)
           off == OffOf(dumped, form, page)
           given == [g \in {c.field : c \in applied \ off} |->
                       (CHOOSE c \in applied : c.field = g).dump]
           base == BasePayload(form, page)
           omitted == {c.field : c \in off}
           old == dumped.value[f]
           marks == IsMarker(old, dumped.text, f)
<1>1. /\ step.payload = Overlay(base, given, omitted)
      /\ step.fields = {c.field : c \in applied}
  BY DEF SaveOf, SaveForm, Step
<1>2. \A c \in applied : c.field = f => c.dump = old /\ ~Agree(dumped, form, f)
  <2> SUFFICES ASSUME NEW c \in applied, c.field = f PROVE c.dump = old /\ ~Agree(dumped, form, f)
    OBVIOUS
  <2>1. c \in FieldDiffs(dumped, form, page)
    BY DEF AppliedOf, DumpedOf
  <2> QED BY <2>1, DifferencesTyped
<1>3. \A c \in off : c \in applied /\ (c.field = f => marks)
  BY <1>2 DEF OffOf
<1>4. DOMAIN step.payload = (DOMAIN base \cup DOMAIN given) \ omitted
      /\ \A g \in DOMAIN step.payload : step.payload[g] = IF g \in DOMAIN given THEN given[g] ELSE base[g]
  BY <1>1 DEF Overlay
<1>5. /\ f \in DOMAIN base <=>
           f \in form.shows /\ Enabled(form, f) /\ (f \in form.boxes => form.value[f] = "on")
      /\ f \in DOMAIN base => base[f] = form.value[f]
  BY DEF BasePayload
<1>6. ASSUME ~Agree(dumped, form, f), old # Absent, f \in form.shows
      PROVE  \E c \in DumpedOf(dumped, form, page) : c.field = f /\ c.dump = old
  <2> DEFINE c == [field |-> f, dump |-> old, live |-> FormValue(form, f),
                   disabled |-> f \in Disabled(form),
                   unrendered |-> form.shows # {} /\ f \notin form.shows]
  <2>1. c \in FieldDiffs(dumped, form, page)
    BY <1>6 DEF FieldDiffs
  <2>2. c \in DumpedOf(dumped, form, page) /\ c.field = f /\ c.dump = old
    BY <1>6, <2>1 DEF DumpedOf
  <2> QED BY <2>2
<1>7. ASSUME ~Agree(dumped, form, f), old # Absent, f \in form.shows, marks, f \in form.boxes
      PROVE  f \notin DOMAIN step.payload
  <2>1. PICK c \in DumpedOf(dumped, form, page) : c.field = f /\ c.dump = old
    BY <1>6, <1>7
  <2>2. c \in off
    BY <1>7, <2>1 DEF AppliedOf, OffOf
  <2>3. f \in omitted
    BY <2>1, <2>2
  <2> QED BY <1>4, <2>3
<1>8. ASSUME ~Agree(dumped, form, f), old # Absent, f \in form.shows, ~marks
      PROVE  f \in DOMAIN step.payload /\ step.payload[f] = old /\ f \in step.fields
  <2>1. PICK c \in DumpedOf(dumped, form, page) : c.field = f /\ c.dump = old
    BY <1>6, <1>8
  <2>2. c \in applied /\ c \notin off
    BY <1>8, <2>1 DEF AppliedOf, OffOf
  <2>3. f \in DOMAIN given /\ f \in step.fields
    BY <1>1, <2>1, <2>2
  <2>4. given[f] = old
    <3> DEFINE e == CHOOSE x \in applied : x.field = f
    <3>1. e \in applied /\ e.field = f
      BY <2>1, <2>2
    <3>2. given[f] = e.dump
      BY <2>3
    <3> HIDE DEF e, given
    <3> QED BY <1>2, <3>1, <3>2
  <2>5. f \notin omitted
    BY <1>3, <1>8
  <2> HIDE DEF given, omitted, base
  <2> QED BY <1>4, <2>3, <2>4, <2>5
<1>9. ASSUME Agree(dumped, form, f)
      PROVE  /\ f \notin DOMAIN given /\ f \notin omitted
  BY <1>2, <1>3, <1>9
<1> HIDE DEF given, omitted, base, applied, off
<1>10. ASSUME Agree(dumped, form, f)
       PROVE IF f \in form.shows /\ Enabled(form, f) /\ (f \in form.boxes => form.value[f] = "on")
             THEN f \in DOMAIN step.payload /\ step.payload[f] = form.value[f]
             ELSE f \notin DOMAIN step.payload
  BY <1>4, <1>5, <1>9, <1>10
<1> QED BY <1>7, <1>8, <1>10

\* _postcondition_matches of a saved form.
FormMatches(step, form) ==
  LET off == step.fields \ DOMAIN step.payload
  IN /\ \A f \in step.fields \ off :
          FormValue(form, f) \in {step.payload[f]}
            \cup (IF f \in Disabled(form) THEN {Absent} ELSE {})
     /\ \A f \in off : FormValue(form, f) \in {Unchecked, Absent}

\* A save that matches afterwards leaves each field as the dump has it.
LEMMA SaveHolds ==
  ASSUME NEW page \in FormPages, NEW dumped \in DumpedForm(page), NEW form \in Form(page),
         NEW step, step = SaveOf(dumped, form, page), step.payload \in Payloads,
         NEW new, new = Saved(form, step.payload), FormMatches(step, new),
         NEW f \in Fields[page]
  PROVE  Kept(dumped, new, f)
<1> DEFINE old == dumped.value[f]
           v == form.value[f]
           w == new.value[f]
           marks == IsMarker(old, dumped.text, f)
<1> SUFFICES ASSUME old # Absent, f \in new.shows, Enabled(new, f)
             PROVE  IF marks THEN f \in new.boxes => w = "off" ELSE w = old
  BY DEF Kept
<1>1. /\ new.shows = form.shows /\ new.boxes = form.boxes
      /\ w = SavedValue(form, step.payload, f)
  BY SavedFacts
<1>2. v \in Values /\ (f \in form.boxes => v \in {"on", "off"}) /\ v # Absent
  BY DEF Form, Values
<1>3. f \in form.shows
  BY <1>1
<1>4. CASE ~Agree(dumped, form, f)
  <2>1. CASE marks /\ f \notin form.boxes
    BY <1>1, <2>1
  <2>2. CASE marks /\ f \in form.boxes
    <3>1. f \notin DOMAIN step.payload
      BY <1>3, <1>4, <2>2, SaveMade
    <3>2. w = "off"
      BY <1>1, <1>3, <2>2, <3>1 DEF SavedValue
    <3> QED BY <2>2, <3>2
  <2>3. CASE ~marks
    <3>1. f \in DOMAIN step.payload /\ step.payload[f] = old /\ f \in step.fields
      BY <1>3, <1>4, <2>3, SaveMade
    <3>2. f \notin Disabled(new)
      BY DEF Disabled
    <3>3. FormValue(new, f) = old
      BY <3>1, <3>2 DEF FormMatches
    <3>4. FormValue(new, f) = IF f \in form.boxes /\ w = "off" THEN Unchecked ELSE w
      BY <1>1 DEF FormValue
    <3>5. w = IF f \in form.boxes THEN "on" ELSE old
      BY <1>1, <3>1 DEF SavedValue
    <3> QED BY <2>3, <3>3, <3>4, <3>5
  <2> QED BY <2>1, <2>2, <2>3
<1>5. CASE Agree(dumped, form, f)
  <2>1. IF Enabled(form, f) /\ (f \in form.boxes => v = "on")
        THEN f \in DOMAIN step.payload /\ step.payload[f] = v
        ELSE f \notin DOMAIN step.payload
    BY <1>3, <1>5, SaveMade
  <2>2. CASE Enabled(form, f)
    <3>1. IF marks THEN f \in form.boxes => v = "off" ELSE v = old
      BY <1>3, <1>5, <2>2, AgreedIsKept DEF Kept
    <3>2. w = v
      BY <1>1, <1>2, <1>3, <2>1, <2>2 DEF SavedValue
    <3> QED BY <1>1, <3>1, <3>2
  <2>3. CASE ~Enabled(form, f)
    <3>1. FormValue(form, f) = Absent
      BY <2>3 DEF FormValue
    <3>2. marks
      BY <1>5, <3>1 DEF Agree
    <3>3. f \notin DOMAIN step.payload
      BY <2>1, <2>3
    <3>4. f \in form.boxes => w = "off"
      BY <1>1, <1>3, <3>3 DEF SavedValue
    <3> QED BY <1>1, <3>2, <3>4
  <2> QED BY <2>2, <2>3
<1> QED BY <1>4, <1>5

\* A page has one save in a plan.
LEMMA OneFormOfAPage ==
  ASSUME TypeOK, PlanKnown, NEW i \in 1..Len(plan), NEW j \in 1..Len(plan),
         plan[i].kind = "form", plan[j].kind = "form", plan[i].page = plan[j].page
  PROVE  i = j
<1>1. PICK pages : PlanMade(plan, pages, job.dump, live, job.selected)
  BY PlanFitsAlways DEF PlanFits
<1> QED BY <1>1 DEF PlanMade

\* The same of the save that is sent.
LEMMA AppliedSaveHolds ==
  ASSUME RestoreInv, Posted, Current.kind = "form", Matches(Current, gw'),
         NEW page, page = Current.page, NEW f \in Fields[page]
  PROVE  FieldHeld(page, f)'
<1> DEFINE step == Current
<1>1. page = step.page
  OBVIOUS
<1>2. /\ TypeOK /\ PlanKnown /\ PagesStill /\ Executing /\ pc = "execute" /\ ~step.blocked
      /\ FormsAfter(step, gw') /\ gw' \in Pages /\ job' = job
  BY DEF RestoreInv, Posted, Posting, Executing
<1>3. /\ At \in 1..Len(plan) /\ step = plan[At] /\ DOMAIN results = 1..(At - 1)
      /\ StepMade(plan, At, job.dump, live, job.selected) /\ At \in Nat
  BY <1>2, CurrentMade
<1>4. OtherStep(step, job.dump, live, job.selected)
  BY <1>3 DEF StepMade, RowSteps, RowKinds
<1>5. PICK dumped, form : dumped = job.dump.forms[page] /\ form = live.forms[page]
  OBVIOUS
<1>6. /\ page \in FormPages /\ step = SaveOf(dumped, form, page) /\ step.payload \in Payloads
  BY <1>1, <1>2, <1>4, <1>5 DEF OtherStep, PlanSteps
<1>7. dumped \in DumpedForm(page) /\ form \in Form(page)
  BY <1>2, <1>5, <1>6, JobFields, DumpFields, PagesFields DEF TypeOK
<1>8. gw.forms[page] = form
  <2>1. ASSUME NEW i \in DOMAIN results, plan[i].kind = "form", plan[i].page = page
        PROVE  FALSE
    <3>1. Len(plan) \in Nat
      BY <1>2, ExecutingFacts
    <3>2. i \in 1..Len(plan) /\ i # At
      BY <1>3, <3>1
    <3> QED BY <1>1, <1>2, <1>3, <2>1, <3>2, OneFormOfAPage
  <2> QED BY <1>2, <1>5, <1>6, <2>1 DEF PagesStill
<1>9. PICK new : new = gw'.forms[page]
  OBVIOUS
<1>10. new = Saved(form, step.payload)
  BY <1>1, <1>6, <1>8, <1>2, <1>9 DEF FormsAfter
<1>11. FormMatches(step, new)
  BY <1>1, <1>9 DEF Matches, FormMatches
<1> HIDE DEF step
<1>13. Kept(dumped, new, f)
  BY <1>6, <1>7, <1>10, <1>11, SaveHolds
<1>14. FieldHeld(page, f)'
  BY <1>2, <1>5, <1>9, <1>13 DEF FieldHeld, Kept, Visible, Enabled, IsMarker
<1> QED BY <1>14

\* Nothing is told: what was saved stays.
LEMMA SavesStay ==
  ASSUME OneSaveRestoresForm, TablesKept, job' = job, plan' = plan, results' = results
  PROVE  OneSaveRestoresForm'
BY SMTT(20) DEF OneSaveRestoresForm, TablesKept, FieldHeld, Visible

\* A report is told of the step whose turn it was.
LEMMA SavesTold ==
  ASSUME RestoreInv, OneSaveRestoresForm, Executing, job' = job, plan' = plan,
         NEW r \in Report, results' = Append(results, r),
         TablesKept \/ Posted,
         r.status = "applied" => Posted /\ Matches(Current, gw')
  PROVE  OneSaveRestoresForm'
<1>1. /\ TypeOK /\ PlanKnown
  BY DEF RestoreInv
<1>2. /\ At \in 1..Len(plan) /\ Current = plan[At] /\ DOMAIN results = 1..(At - 1)
      /\ At \in Nat /\ Len(plan) \in Nat /\ StepFits(Current)
  BY <1>1, CurrentMade, ExecutingFacts
<1>3. /\ DOMAIN results' = 1..At /\ results'[At] = r
      /\ \A i \in 1..(At - 1) : results'[i] = results[i]
  <2>1. results \in Seq(Report) /\ Len(results) = At - 1
    BY <1>1, <1>2, ExecutingFacts DEF TypeOK, At
  <2> QED BY <1>2, <2>1
<1> SUFFICES ASSUME NEW i \in 1..At, plan[i].kind = "form", results'[i].status = "applied",
                    NEW f \in Fields[plan[i].page]
             PROVE  FieldHeld(plan[i].page, f)'
  BY <1>3 DEF OneSaveRestoresForm
<1>4. CASE i = At
  <2>1. PICK page : page = plan[i].page
    OBVIOUS
  <2>2. Current.kind = "form" /\ Current.page = page /\ r.status = "applied"
    BY <1>2, <1>3, <1>4, <2>1
  <2>3. FieldHeld(page, f)'
    BY <2>1, <2>2, AppliedSaveHolds
  <2> QED BY <2>1, <2>3
<1>5. CASE i # At
  <2>1. i \in 1..(At - 1) /\ i \in 1..Len(plan) /\ i \in DOMAIN results
    BY <1>2, <1>5
  <2>2. PICK page : page = plan[i].page
    OBVIOUS
  <2>3. FieldHeld(page, f)
    BY <1>3, <2>1, <2>2 DEF OneSaveRestoresForm
  <2>4. page \in FormPages
    BY <1>1, <2>1, <2>2, StepsFit DEF StepFits
  <2>5. gw'.forms[page] = gw.forms[page]
    <3>1. CASE TablesKept
      BY <3>1 DEF TablesKept
    <3>2. CASE Posted
      <4>1. ~(Current.kind = "form" /\ Current.page = page)
        BY <1>1, <1>2, <1>5, <2>1, <2>2, OneFormOfAPage
      <4> QED BY <2>4, <3>2, <4>1 DEF Posted, FormsAfter
    <3> QED BY <3>1, <3>2
  <2>6. FieldHeld(page, f)'
    BY <2>3, <2>5 DEF FieldHeld, Visible
  <2> QED BY <2>2, <2>6
<1> QED BY <1>4, <1>5

\* A step of which nothing is sent is reported as blocked.
LEMMA NothingIsBlocked == NothingSent = [NothingSent EXCEPT !.status = "blocked"]
BY DEF NothingSent

\* A step keeps OneSaveRestoresForm.
LEMMA OneSaveKept ==
  ASSUME RestoreInv, OneSaveRestoresForm, [Next]_vars
  PROVE  OneSaveRestoresForm'
<1>1. /\ TypeOK /\ PlanKnown /\ PhaseKnown
      /\ TablesKept \/ Posted
  BY PostedOrKept DEF RestoreInv
<1>2. CASE StepPosted
  <2> DEFINE r == IF Matches(Current, gw') THEN Applied(Current)
                  ELSE [Applied(Current) EXCEPT !.status = "failed"]
  <2>1. Executing /\ job' = job /\ plan' = plan /\ results' = Append(results, r)
    BY <1>2 DEF StepPosted, Posting, Tell
  <2>2. r \in Report /\ (r.status = "applied" => Matches(Current, gw'))
    <3> DEFINE failed == [Applied(Current) EXCEPT !.status = "failed"]
    <3>1. failed \in Report /\ failed.status = "failed"
      BY DEF NothingSent, Applied, Report, StepStatuses, Faults
    <3>2. Applied(Current) \in Report
      BY ReportsTyped
    <3> HIDE DEF failed
    <3>3. CASE Matches(Current, gw')
      BY <3>2, <3>3
    <3>4. CASE ~Matches(Current, gw')
      <4>1. r = failed
        BY <3>4 DEF failed
      <4> HIDE DEF r
      <4> QED BY <3>1, <4>1
    <3> QED BY <3>3, <3>4
  <2>3. Posted
    <3>1. gw' \in Effects(Resolved(Current)) /\ Posting /\ UNCHANGED <<job, pc, live, plan>>
      BY <1>2 DEF StepPosted
    <3> QED BY <1>1, <3>1, PostFacts DEF Posted
  <2> HIDE DEF r
  <2> QED BY <2>1, <2>2, <2>3, SavesTold
<1>3. CASE StepWithoutPost \/ StepMoves \/ StepRefused \/ StepFails
  <2>1. Executing /\ job' = job /\ plan' = plan
    BY <1>3 DEF StepWithoutPost, StepMoves, StepRefused, StepFails, Posting
  <2>2. PICK r \in Report : results' = Append(results, r) /\ r.status # "applied"
    <3>1. ASSUME NEW x \in Report, results' = Append(results, x), x.status # "applied"
          PROVE  \E r \in Report : results' = Append(results, r) /\ r.status # "applied"
      BY <3>1
    <3>2. CASE StepWithoutPost
      <4>1. PICK status \in {"not-run", "skipped", "blocked"} :
                results' = Append(results, [NothingSent EXCEPT !.status = status])
        BY <3>2, NothingIsBlocked DEF StepWithoutPost, Tell
      <4> DEFINE x == [NothingSent EXCEPT !.status = status]
      <4>2. x \in Report /\ x.status = status
        BY DEF NothingSent, Report, StepStatuses, Faults
      <4>3. results' = Append(results, x)
        BY <4>1
      <4> HIDE DEF x
      <4> QED BY <3>1, <4>2, <4>3
    <3>3. CASE StepMoves
      <4>1. PICK answered \in BOOLEAN :
                results' = Append(results,
                  [Applied(Current) EXCEPT !.status = "reconnect-required", !.moved = TRUE,
                     !.answered = answered, !.acked = FALSE, !.performed = "unknown"])
        BY <3>3 DEF StepMoves, Tell
      <4> DEFINE x == [Applied(Current) EXCEPT !.status = "reconnect-required", !.moved = TRUE,
                         !.answered = answered, !.acked = FALSE, !.performed = "unknown"]
      <4>2. x \in Report /\ x.status = "reconnect-required"
        BY DEF NothingSent, Applied, Report, StepStatuses, Faults
      <4>3. results' = Append(results, x)
        BY <4>1
      <4> HIDE DEF x
      <4> QED BY <3>1, <4>2, <4>3
    <3>4. CASE StepRefused
      <4> DEFINE x == [Applied(Current) EXCEPT !.status = "failed", !.performed = "no",
                         !.acked = FALSE, !.refusal = TRUE]
      <4>2. x \in Report /\ x.status = "failed"
        BY DEF NothingSent, Applied, Report, StepStatuses, Faults
      <4>3. results' = Append(results, x)
        BY <3>4 DEF StepRefused, Tell
      <4> HIDE DEF x
      <4> QED BY <3>1, <4>2, <4>3
    <3>5. CASE StepFails
      <4>1. PICK fault \in Faults \ {"none"}, sent \in BOOLEAN :
                results' = Append(results,
                  [NothingSent EXCEPT !.status = "failed", !.fault = fault, !.attempted = sent,
                     !.performed = IF sent THEN "unknown" ELSE "no"])
        BY <3>5 DEF StepFails, Tell
      <4> DEFINE x == [NothingSent EXCEPT !.status = "failed", !.fault = fault,
                         !.attempted = sent, !.performed = IF sent THEN "unknown" ELSE "no"]
      <4>2. x \in Report /\ x.status = "failed"
        BY DEF NothingSent, Report, StepStatuses, Faults
      <4>3. results' = Append(results, x)
        BY <4>1
      <4> HIDE DEF x
      <4> QED BY <3>1, <4>2, <4>3
    <3> QED BY <1>3, <3>2, <3>3, <3>4, <3>5
  <2> QED BY <1>1, <2>1, <2>2, SavesTold
<1>4. CASE StartRun
  <2>1. results' = <<>>
    BY <1>4 DEF StartRun
  <2> QED BY <2>1 DEF OneSaveRestoresForm
<1>5. CASE MakePlan
  <2>1. results = <<>> /\ results' = results
    BY <1>1, <1>5 DEF MakePlan, PhaseKnown, PlanKnown, TypeOK
  <2> QED BY <2>1 DEF OneSaveRestoresForm
<1>6. CASE \/ Fetch \/ FetchFails \/ PreflightPasses \/ PreflightEnds \/ Refetch
           \/ PreflightSteps \/ PreflightTime \/ PreflightFaults
           \/ StepsDone \/ Verify \/ VerifyFails \/ DeviceComesUp \/ UNCHANGED vars
  <2>1. job' = job /\ plan' = plan /\ results' = results
    BY <1>6 DEF Fetch, FetchFails, PreflightPasses, PreflightEnds, Refetch,
           PreflightSteps, PreflightTime, PreflightFaults, StepsDone, Verify, VerifyFails,
           DeviceComesUp, vars, runVars
  <2>2. ~Posted \/ TablesKept
    <3>1. CASE \/ PreflightSteps \/ PreflightTime \/ PreflightFaults
      BY <3>1, PreflightLeaves
    <3>2. CASE DeviceComesUp
      BY <3>2, DeviceLeaves
    <3>3. CASE \/ Fetch \/ FetchFails \/ PreflightPasses \/ PreflightEnds \/ Refetch
               \/ StepsDone \/ Verify \/ VerifyFails \/ UNCHANGED vars
      <4>1. gw' = gw
        BY <3>3 DEF Fetch, FetchFails, PreflightPasses, PreflightEnds, Refetch,
           StepsDone, Verify, VerifyFails, vars, preflightVars, Gateway
      <4> QED BY <4>1 DEF TablesKept, SameRows
    <3> QED BY <1>6, <3>1, <3>2, <3>3
  <2> QED BY <1>1, <2>1, <2>2, SavesStay
<1> QED BY <1>2, <1>3, <1>4, <1>5, <1>6 DEF Next, Run

\* cli._run_restore, _apply_form: a save that is told applied leaves every control
\* the page shows as the dump has it, those it turned on included, to the end of
\* the run.
THEOREM OneSaveRestores == Spec => []OneSaveRestoresForm
<1>1. Init => RestoreInv /\ OneSaveRestoresForm
  <2>1. Init => results = <<>>
    BY DEF Init
  <2>2. results = <<>> => OneSaveRestoresForm
    BY DEF OneSaveRestoresForm
  <2> QED BY <2>1, <2>2, InitKnown
<1>2. RestoreInv /\ OneSaveRestoresForm /\ [Next]_vars => RestoreInv' /\ OneSaveRestoresForm'
  BY StepKeeps, OneSaveKept
<1> QED BY <1>1, <1>2, PTL DEF Spec

\* A sequence of one element.
LEMMA OneMember ==
  ASSUME NEW S, NEW x \in S
  PROVE  ToSet(<<x>>) = {x}
<1> DEFINE t == <<x>>
<1>1. t \in Seq(S) /\ Len(t) = 1 /\ t[1] = x
  OBVIOUS
<1> HIDE DEF t
<1>2. ToSet(t) = {t[i] : i \in 1..Len(t)}
  BY <1>1, Members
<1>3. ToSet(t) = {x}
  BY <1>1, <1>2
<1> QED BY <1>3 DEF t

\* Passable is what the planner's lemma asks of the gateway.
LEMMA PassableIsInOrder ==
  ASSUME TypeOK, Passable
  PROVE  InOrder(job.dump, live)
<1> DEFINE dump == job.dump
<1>1. /\ dump.services \in Seq(Service) /\ live.services \in Seq(Service)
      /\ dump.forwards \in Seq(Forward) /\ live.forwards \in Seq(Forward)
      /\ dump \in Dumps /\ live \in Pages
  BY JobFields, DumpFields, PagesFields DEF TypeOK
<1>2. /\ DOMAIN live.services = 1..Len(live.services)
      /\ DOMAIN live.forwards = 1..Len(live.forwards)
  BY <1>1, Members
<1>3. live.menus /\ live.buttons
  BY DEF Passable
<1>4. /\ \A f \in ToSet(dump.forwards) :
           f.service \in Builtin \/ \E w \in ToSet(dump.services) : w.name = f.service
      /\ \A f, g \in ToSet(dump.forwards) : Fold[f.service] = Fold[g.service] => f = g
  BY DEF Passable, Meant
<1>5. /\ \A i, j \in 1..Len(live.services) : live.services[i].name = live.services[j].name => i = j
      /\ \A i, j \in 1..Len(live.forwards) : live.forwards[i] = live.forwards[j] => i = j
  BY <1>2 DEF Passable
<1>6. \A d \in Devices : d \in live.listed /\ MacsOf(live, d) = {d}
  BY DEF Passable
<1>7. ASSUME NEW f \in ToSet(live.forwards), NEW s \in ToSet(live.services),
             NEW g \in ToSet(dump.forwards), s.name = f.service, ForwardKey[f] = ForwardKey[g]
      PROVE  \E w \in ToSet(dump.services) : ServiceKey[s] = ServiceKey[w]
  <2>1. f \in Forward /\ g \in Forward /\ s \in Service
    BY <1>1, Members
  <2>2. Forwards(<<f>>) = {ForwardKey[f]} /\ Services(<<s>>) = {ServiceKey[s]}
    <3>1. ToSet(<<f>>) = {f} /\ ToSet(<<s>>) = {s}
      BY <2>1, OneMember
    <3>2. ForwardKey[f] = <<Fold[f.service], f.device>> /\ ServiceKey[s] = <<Fold[s.name], s.kind>>
      BY <2>1, ForwardKeys, ServiceKeys
    <3> QED BY <3>1, <3>2 DEF Forwards, Services
  <2>3. /\ Services(dump.services) = {ServiceKey[x] : x \in ToSet(dump.services)}
        /\ Forwards(dump.forwards) = {ForwardKey[x] : x \in ToSet(dump.forwards)}
    BY <1>1, ServicesOf, ForwardsOf
  <2>4. Forwards(<<f>>) \subseteq Forwards(dump.forwards)
    BY <1>7, <2>2, <2>3
  <2>5. Services(<<s>>) \subseteq Services(dump.services)
    BY <1>7, <2>4 DEF Passable
  <2> QED BY <2>2, <2>3, <2>5
<1>8. \A s \in ToSet(live.services), w \in ToSet(dump.services) :
        Fold[s.name] = Fold[w.name] => s.name = w.name
  BY DEF Passable
<1> QED BY <1>3, <1>4, <1>5, <1>6, <1>7, <1>8 DEF InOrder

\* With the lemma of the planner: a step of a plan that is not done goes out.
LEMMA OneGoesOut ==
  ASSUME RestoreInv
  PROVE  SomeStepGoesOut
<1> SUFFICES ASSUME pc = "execute", Passable, RowsDiffer
             PROVE  Planned(plan, RowKinds) # {}
  BY DEF SomeStepGoesOut, RowKinds
<1> DEFINE rows == RowsOf(job.dump, live, TRUE, job.selected)
<1>1. TypeOK /\ PlanKnown
  BY DEF RestoreInv
<1>2. job.dump \in Dumps /\ live \in Pages
  BY <1>1, JobFields DEF TypeOK
<1>3. InOrder(job.dump, live) /\ {"services", "apphosting"} \subseteq job.selected
  BY <1>1, PassableIsInOrder DEF Passable
<1>4. job.prune = TRUE
  BY <1>1 DEF Passable, TypeOK, Jobs
<1>5. plan = Plan(job.dump, live, TRUE, job.selected)
  BY <1>1, <1>4 DEF PlanKnown
<1>6. ~AllBlocked(rows)
  <2> SUFFICES ASSUME AllBlocked(rows) PROVE FALSE
    OBVIOUS
  <2>1. LET diff == Diff(job.dump, live, job.selected) IN
        /\ diff.missingServices = <<>> /\ diff.extraServices = <<>>
        /\ diff.missingForwards = <<>> /\ diff.extraForwards = <<>>
    BY <1>2, <1>3, NotAllBlocked
  <2> QED BY <2>1 DEF RowsDiffer
<1>7. Begins(plan, rows)
  BY <1>2, <1>5, PlanFromRows
<1>8. rows \in Seq(RowSteps)
  BY <1>2, PlanFromRows
<1>9. plan \in Seq(PlanSteps)
  BY <1>1, PlanFitsAlways DEF PlanFits, PlanMade
<1> HIDE DEF rows
<1>10. PICK k \in 1..Len(rows) : ~rows[k].blocked
  BY <1>6 DEF AllBlocked
<1>11. k \in DOMAIN plan /\ plan[k] = rows[k]
  BY <1>7, <1>8, <1>9 DEF Begins
<1>12. rows[k].kind \in RowKinds
  <2>1. rows[k] \in RowSteps
    BY <1>8, Members
  <2> QED BY <2>1 DEF RowSteps
<1> QED BY <1>10, <1>11, <1>12 DEF Planned

\* build_restore_plan: whatever rows differ, a run with --prune has a step for a
\* row that goes out, with nothing in the way.
THEOREM SomeGoesOut == Spec => []SomeStepGoesOut
<1>1. RestoreInv => SomeStepGoesOut
  BY OneGoesOut
<1> QED BY <1>1, RestoreInvariant, PTL
===============================================================================
