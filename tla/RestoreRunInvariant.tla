------------------------- MODULE RestoreRunInvariant -------------------------
(***************************************************************************)
(* What holds of every state of RestoreRun, strong enough to follow from    *)
(* itself over every step.  ExitIsTrue and OneSaveRestoresForm are as       *)
(* strong beside it; DumpedRowsStay follows from it over each step.         *)
(***************************************************************************)
EXTENDS RestoreRun

Preflights ==
  [stage : Stages, requests : SUBSET Devices, owners : SUBSET (Ips \X Devices),
   captured : BOOLEAN, fixed : [Devices -> Ips \cup {NoIp}], conflicts : SUBSET Conflict,
   clear : BOOLEAN, late : BOOLEAN, attempted : BOOLEAN, accepted : BOOLEAN,
   cleared : BOOLEAN,
   error : ReadFaults \cup {"none", "fixed", "no-button", "conflict", "unverifiable"}]

TypeOK ==
  /\ job \in Jobs /\ commit \in BOOLEAN
  /\ gw \in Pages /\ live \in Pages
  /\ leases \subseteq Ips \X Devices /\ since \subseteq Ips \X Devices
  /\ pf \in Preflights
  /\ pc \in {"fetch", "preflight", "refetch", "plan", "execute", "verify", "done"}
  /\ results \in Seq(Report)
  /\ exit \in {NoExit, 0, 1, 2} /\ unknown \in BOOLEAN
  /\ faults \in 0..MaxFaults /\ moves \in 0..MaxMoves

\* What each point of the run is left with.
PhaseKnown ==
  /\ pc = "done" \/ exit = NoExit
  /\ pc = "fetch" => pf = NoPreflight
  /\ pc \in {"refetch", "plan", "execute", "verify"} => pf.stage \in {"idle", "verified"}
  /\ pc \in {"fetch", "preflight", "refetch", "plan"} => plan = <<>>
  /\ pc \in {"execute", "verify"} => commit

\* What the preflight has seen of the owners: the fixed allocations of the page
\* captured before, and of a devices page all but what came up since.
OwnersKnown ==
  /\ pf.stage = "devices" /\ pf.captured => Fixed(gw.fixed) \subseteq pf.owners
  /\ pf.stage \in {"allocations", "decide"} => leases \ since \subseteq pf.owners
  /\ pf.stage = "decide" => Fixed(gw.fixed) \subseteq pf.owners

\* The steps are those of the plan; one that is blocked holds nothing that could
\* be sent.
PlanKnown ==
  /\ plan = <<>> \/ plan = Plan(job.dump, live, job.prune, job.selected)
  /\ pc \in {"execute", "verify"} => plan = Plan(job.dump, live, job.prune, job.selected)
  /\ Len(results) <= Len(plan)
  /\ \A i \in DOMAIN plan : plan[i].blocked => plan[i].at = 0 /\ plan[i].payload = NoPayload

\* No step of the kinds was to be sent so far.
Untouched(kinds) == \A i \in DOMAIN results : plan[i].kind \in kinds => plan[i].blocked

\* Until its first step a table is as it was read, a form until its save; and
\* the names of the services are those read and those added.
PagesStill ==
  pc \in {"preflight", "refetch", "plan", "execute"} =>
    /\ Untouched({"add-service", "remove-service"}) => gw.services = live.services
    /\ Untouched({"add-forward", "remove-forward"}) => gw.forwards = live.forwards
    /\ \A page \in FormPages :
         (\A i \in DOMAIN results :
            plan[i].kind = "form" /\ plan[i].page = page => plan[i].blocked)
           => gw.forms[page] = live.forms[page]
    /\ NamesOf(gw.services) \subseteq
         NamesOf(live.services)
           \cup {Fold[plan[i].of.name] :
                   i \in {j \in DOMAIN results :
                            plan[j].kind = "add-service" /\ ~plan[j].blocked}}

\* A POST of unknown fate is seen in a report, and then in the exit code.
FateKnown ==
  unknown =>
    \/ pc = "done" /\ exit = 2
    \/ /\ pc \in {"execute", "verify"}
       /\ \E i \in DOMAIN results :
            \/ results[i].status = "reconnect-required"
            \/ results[i].status = "failed" /\ results[i].fault # "none"

\* What the preflight passes as free is free until the steps begin; every point
\* of a run is left with what the next one needs.
RestoreInv ==
  /\ TypeOK /\ PhaseKnown /\ OwnersKnown
  /\ results = <<>> => VerifiedIsFree(job.dump.fixed)
  /\ PlanKnown /\ PagesStill /\ FateKnown

\* With the names of the services apart at first, they stay apart; what is to
\* be replaced is gone when its replacement's turn has come.
NamesApart ==
  /\ DuplicateNames(gw.services) = {} /\ DuplicateNames(live.services) = {}
  /\ Executing /\ ~Stopped /\ At > 1 =>
       LET before == plan[At - 1] IN
       /\ Current.kind = "add-service" /\ ~Current.blocked
       /\ before.kind = "remove-service" /\ ~before.blocked
       => Fold[Current.of.name] \notin NamesOf(gw.services)
=============================================================================
