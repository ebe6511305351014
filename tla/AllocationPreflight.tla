------------------------- MODULE AllocationPreflight -------------------------
(***************************************************************************)
(* Before a restore writes a reservation it reads who owns the address      *)
(* (inspect_allocation_conflicts); when a stale entry of the device list is  *)
(* in the way it posts Clear and Rescan once and polls both ownership pages  *)
(* until the addresses are free or its time is over                         *)
(* (rescan_allocation_conflicts).  The devices come and go meanwhile.        *)
(***************************************************************************)
EXTENDS SnapshotDiff

VARIABLES
  gw,      \* gateway: its pages
  leases,  \* gateway: the addresses its devices hold, <<address, device>>
  pf,      \* the preflight
  since    \* for the properties: addresses taken since the last devices read

preflightVars == <<gw, leases, pf, since>>

Conflict == [ip : Ips, target : Devices, holder : Devices, fixed : BOOLEAN]

\* inspect: the first pair of reads; poll: those after the Clear.
Stages == {"idle", "devices", "allocations", "decide", "clear", "wait",
           "poll-devices", "poll-allocations", "verified", "failed"}

NoPreflight ==
  [stage |-> "idle", requests |-> {}, owners |-> {}, captured |-> FALSE,
   fixed |-> [d \in Devices |-> NoIp], conflicts |-> {}, clear |-> FALSE,
   late |-> FALSE, attempted |-> FALSE, accepted |-> FALSE, cleared |-> FALSE,
   error |-> "none"]

Fixed(f) == {o \in Ips \X Devices : f[o[2]] = o[1]}

\* The devices page leaves out an allocation of a device it does not know.
DeviceOwners == leases \cup {o \in Fixed(gw.fixed) : o[2] \in gw.listed}
AllocationOwners == leases \cup Fixed(gw.fixed)

-----------------------------------------------------------------------------

\* pending_allocation_requests
Pending(dump, live, selected) ==
  IF "ipalloc" \in selected
  THEN {d \in Devices : dump.fixed[d] \notin {NoIp, live.fixed[d]}}
  ELSE {}

\* _conflicts, of both pages together
Conflicts(wanted, owners, fixed) ==
  {c \in Conflict :
     /\ c.target \in pf.requests /\ c.ip = wanted[c.target]
     /\ c.holder # c.target /\ <<c.ip, c.holder>> \in owners
     /\ c.fixed = (fixed[c.holder] = c.ip)}

AnyFixed(conflicts) == \E c \in conflicts : c.fixed

\* Pool full, lost session, 401, 403; the rest are pages that prove nothing.
TerminalFaults == {"pool", "session", "forbidden"}
ReadFaults == TerminalFaults \cup {"connection", "http", "unreadable"}

Fail(error) == pf' = [pf EXCEPT !.stage = "failed", !.error = error]

Quiet == UNCHANGED <<gw, leases, since>>

-----------------------------------------------------------------------------
(* inspect_allocation_conflicts                                            *)

\* The allocation page of the snapshot just read may serve as the second read.
Inspect(requests) ==
  /\ pf.stage = "idle" /\ requests # {}
  /\ \E captured \in BOOLEAN :
       pf' = [NoPreflight EXCEPT !.stage = "devices", !.requests = requests,
                !.captured = captured, !.fixed = gw.fixed,
                !.owners = IF captured THEN AllocationOwners ELSE {}]
  /\ Quiet

\* Whether there is a Clear and Rescan button is seen on the first read.
ReadDevices ==
  /\ pf.stage = "devices"
  /\ \E clear \in BOOLEAN :
       pf' = [pf EXCEPT !.stage = IF pf.captured THEN "decide" ELSE "allocations",
                        !.owners = @ \cup DeviceOwners, !.clear = clear]
  /\ since' = {}
  /\ UNCHANGED <<gw, leases>>

ReadAllocations ==
  /\ pf.stage = "allocations"
  /\ pf' = [pf EXCEPT !.stage = "decide", !.fixed = gw.fixed,
                      !.owners = @ \cup AllocationOwners]
  /\ Quiet

InspectFails ==
  /\ pf.stage \in {"devices", "allocations"}
  /\ \E fault \in ReadFaults : Fail(fault)
  /\ Quiet

-----------------------------------------------------------------------------
(* rescan_allocation_conflicts                                             *)

\* No conflict: nothing to clear.  A fixed allocation of another device is
\* never cleared; without a button nothing can be.
Judge(wanted) ==
  LET found == Conflicts(wanted, pf.owners, pf.fixed) IN
  /\ pf.stage = "decide"
  /\ pf' = [pf EXCEPT
       !.conflicts = found,
       !.stage = IF found = {} THEN "verified"
                 ELSE IF AnyFixed(found) \/ ~pf.clear THEN "failed" ELSE "clear",
       !.error = IF AnyFixed(found) THEN "fixed"
                 ELSE IF found # {} /\ ~pf.clear THEN "no-button" ELSE "none"]
  /\ Quiet

\* The gateway forgets the devices it knows of; the allocations stay.
Clear ==
  /\ leases' = {} /\ since' = {}
  /\ gw' = [gw EXCEPT !.listed = {}]

\* The Clear is sent once, whatever becomes of it.
ClearAnswered ==
  /\ pf.stage = "clear"
  /\ Clear
  /\ pf' = [pf EXCEPT !.stage = "wait", !.attempted = TRUE, !.accepted = TRUE,
                      !.cleared = TRUE]

ClearUnsent ==
  /\ pf.stage = "clear"
  /\ \E fault \in ReadFaults : Fail(fault)
  /\ Quiet

\* An error, a banner or the Login page in answer, or none at all.
ClearFails ==
  /\ pf.stage = "clear"
  /\ \E fault \in ReadFaults, received \in BOOLEAN :
       /\ IF received THEN Clear ELSE Quiet
       /\ pf' = [pf EXCEPT !.stage = "failed", !.error = fault,
                           !.attempted = TRUE, !.cleared = received]

\* Mutant of BeginPoll: every poll has a deadline of its own.
BeginPollAnew ==
  /\ pf.stage = "wait"
  /\ pf' = [pf EXCEPT !.stage = "poll-devices", !.owners = {}, !.late = FALSE]
  /\ Quiet

\* Each poll begins with the devices page again, if there is time.
BeginPoll ==
  /\ pf.stage = "wait" /\ ~pf.late
  /\ pf' = [pf EXCEPT !.stage = "poll-devices", !.owners = {}]
  /\ Quiet

PollDevices ==
  /\ pf.stage = "poll-devices" /\ ~pf.late
  /\ pf' = [pf EXCEPT !.stage = "poll-allocations", !.owners = DeviceOwners]
  /\ since' = {}
  /\ UNCHANGED <<gw, leases>>

PollAllocations(wanted) ==
  LET found == Conflicts(wanted, pf.owners \cup AllocationOwners, gw.fixed) IN
  /\ pf.stage = "poll-allocations" /\ ~pf.late
  /\ pf' = [pf EXCEPT
       !.conflicts = found, !.error = IF AnyFixed(found) THEN "fixed" ELSE "none",
       !.stage = IF found = {} THEN "verified"
                 ELSE IF AnyFixed(found) THEN "failed" ELSE "wait"]
  /\ Quiet

\* A page that proves nothing is read again; the last conflicts stand.
PollFails ==
  /\ pf.stage \in {"poll-devices", "poll-allocations"}
  /\ \E fault \in ReadFaults :
       IF fault \in TerminalFaults THEN Fail(fault)
       ELSE pf' = [pf EXCEPT !.stage = "wait", !.error = fault]
  /\ Quiet

\* Mutant of RescanOver: when the time is over, the restore goes on.
RescanOverAnyway ==
  /\ pf.stage \in {"wait", "poll-devices", "poll-allocations"} /\ pf.late
  /\ pf' = [pf EXCEPT !.stage = "verified"]
  /\ Quiet

\* _RescanDeadlineReached, or the deadline between two polls
RescanOver ==
  /\ pf.stage \in {"wait", "poll-devices", "poll-allocations"} /\ pf.late
  /\ Fail(IF pf.error = "none" THEN "conflict" ELSE "unverifiable")
  /\ Quiet

RescanTime ==
  /\ pf.stage \in {"wait", "poll-devices", "poll-allocations"} /\ ~pf.late
  /\ pf' = [pf EXCEPT !.late = TRUE]
  /\ Quiet

-----------------------------------------------------------------------------

\* A device comes up and takes an address that nobody else was given.
DeviceAppears ==
  /\ \E d \in Devices, ip \in Ips :
       /\ ~ \E o \in leases \cup Fixed(gw.fixed) : o[1] = ip /\ o[2] # d
       /\ gw.fixed[d] \in {NoIp, ip} /\ <<ip, d>> \notin leases
       /\ leases' = {o \in leases : o[2] # d} \cup {<<ip, d>>}
       /\ since' = since \cup {<<ip, d>>}
       /\ gw' = [gw EXCEPT !.listed = @ \cup {d}]
  /\ UNCHANGED pf

Preflight(wanted) ==
  \/ ReadDevices \/ ReadAllocations \/ InspectFails
  \/ Judge(wanted)
  \/ ClearAnswered \/ ClearUnsent \/ ClearFails
  \/ BeginPoll \/ PollDevices \/ PollAllocations(wanted) \/ PollFails
  \/ RescanOver

-----------------------------------------------------------------------------

\* What the preflight let pass was so: no other device held an asked address
\* when it was verified, on either page, the offline fixed allocations
\* included; whoever holds it now came since (rescan_allocation_conflicts:
\* "prove requested addresses are available").
VerifiedIsFree(wanted) ==
  pf.stage = "verified" =>
    \A d \in pf.requests : \A h \in Devices \ {d} :
      <<wanted[d], h>> \in AllocationOwners => <<wanted[d], h>> \in since
=============================================================================
