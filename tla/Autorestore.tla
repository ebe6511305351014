----------------------------- MODULE Autorestore -----------------------------
(***************************************************************************)
(* run_autorestore and the recovery intent it keeps between timer runs.    *)
(* A run reads the gateway, decides whether it was reset, prepares the     *)
(* intent on disk, sends restore writes in passes, reads the gateway again *)
(* and settles the intent.  Runs follow each other under the session lock, *)
(* so there is one at a time; a run may be killed between any two steps.   *)
(*                                                                         *)
(* The gateway is the set of dumped items it lacks.  A step's POST, with   *)
(* the polling that follows it, is one action with the outcomes that       *)
(* execute_restore reports.  The clock is the flag late: the run's own     *)
(* time limit has passed.                                                  *)
(***************************************************************************)
EXTENDS Naturals, Sequences, SequencesExt, StepOutcome

CONSTANTS
  Order,          \* the dumped items, in the order restore writes them
  Voting,         \* items of the sections that vote for a reset
  Reservations,   \* items that need their address to be free
  Lan,            \* items whose write moves the gateway's own address
  OnAnyDiff,      \* --on-any-diff
  MaxPasses       \* --max-passes

Items == ToSet(Order)

ASSUME AutorestoreAssumption ==
  /\ Order \in Seq(Items) /\ IsInjective(Order)
  /\ Voting \subseteq Items /\ Voting # {}
  /\ Reservations \subseteq Items /\ Lan \subseteq Items
  /\ OnAnyDiff \in BOOLEAN
  /\ MaxPasses \in Nat \ {0}

VARIABLES
  missing,   \* gateway: the dumped items it lacks
  holder,    \* gateway: who holds a wanted address: "free", "stale", "fixed"
  record,    \* disk: the recovery intent
  pc, run, late, status,   \* the run: its point, its locals, clock, outcome
  calm,      \* the environment has stopped making trouble
  log, streak  \* history: what really happened, for the properties only

vars == <<missing, holder, record, pc, run, late, status, calm, log, streak>>
world == <<missing, holder>>
history == <<log, streak>>

RETRY_LIMIT == 3

\* The fingerprint of a failure: its kind, the step, the open differences.
Shape(kind, item, open) == <<kind, item, open>>
NoItem == "-"

NoFailure == Shape("none", NoItem, {})

Failures == {"reconnect", "verification", "pre-send", "step",
             "not-converged", "allocation"}
              \X (Items \cup {NoItem}) \X SUBSET Items

INSTANCE RecoveryIntent WITH Shapes <- Failures, NoShape <- NoFailure

NoStreak == [shape |-> NoFailure, count |-> 0]

Statuses == {"no-reset", "restore-needed", "converged", "not-converged",
             "router-unreachable", "error", "killed"}

\* The statuses that exit 0, of which a timer says nothing.
Quiet == {"no-reset", "converged", "router-unreachable"}

NoRun == [commit |-> FALSE, recovering |-> FALSE, started |-> FALSE,
          possible |-> FALSE, sent |-> FALSE, seen |-> {}, acked |-> {},
          todo |-> {}, pass |-> 0, stop |-> "none", item |-> NoItem]

Init ==
  /\ missing \in SUBSET Items
  /\ holder \in {"free", "stale", "fixed"}
  /\ record \in {NoIntent, [NoIntent EXCEPT !.owner = "other"]}
  /\ pc = "idle" /\ run = NoRun /\ late = FALSE /\ status = "no-reset"
  /\ calm = FALSE
  /\ log = [wrote |-> FALSE, verified |-> FALSE, dirty |-> FALSE,
            reset |-> FALSE, posts |-> [i \in Items |-> 0]]
  /\ streak = NoStreak

Adverse == ~calm

-----------------------------------------------------------------------------
(* Ending a run                                                            *)

End(st) ==
  /\ pc' = "idle" /\ status' = st
  /\ run' = NoRun /\ late' = FALSE

Keep == UNCHANGED <<record, streak>>

\* checkpoint_action("finish"): a failing unlink leaves the record, a failing
\* directory sync has removed it; both end the run as an error.
FinishThen(then) ==
  \/ /\ record' = Finished(record)
     /\ streak' = IF Active(record) THEN NoStreak
                ELSE streak
     /\ then
  \/ /\ Adverse /\ Active(record)
     /\ record' \in {record, NoIntent}
     /\ streak' = IF record' = record THEN streak
                ELSE NoStreak
     /\ End("error")

\* Mutant of Unused: an intent is discarded whatever was sent.
UnusedWheneverStarted == run.started

Unused == run.started /\ ~run.possible

\* discard_unused_intent
DiscardThen(then) ==
  IF Unused THEN FinishThen(then) ELSE Keep /\ then

\* count_failure
Count(st, shape, structural) ==
  LET counts == Active(record) /\ (run.sent \/ structural)
      next == Failed(record, shape)
  IN \/ ~counts /\ Keep /\ End(st)
     \/ /\ counts
        /\ record' = next
        /\ streak' = [shape |-> shape,
                      count |-> IF streak.shape = shape
                                THEN streak.count + 1 ELSE 1]
        /\ End(IF next.count >= RETRY_LIMIT THEN "error" ELSE st)
     \/ /\ counts /\ Adverse
        /\ record' \in {record, next}
        /\ streak' = [shape |-> record'.shape, count |-> record'.count]
        /\ End("error")

\* stop_for_deadline: nothing was sent, or only the allocation Clear, which
\* the read after it has verified.
StopForDeadline ==
  IF ~run.sent THEN DiscardThen(End("not-converged"))
  ELSE IF run.seen = {} THEN FinishThen(End("converged"))
  ELSE Count("not-converged", Shape("not-converged", NoItem, run.seen), FALSE)

\* The end of the pass loop, by the last pass or by the time limit.
EndPasses ==
  IF run.started \/ run.recovering
  THEN Count("not-converged", Shape("not-converged", NoItem, run.seen), FALSE)
  ELSE Keep /\ End("not-converged")

-----------------------------------------------------------------------------
(* Reading and deciding                                                    *)

StartRun(commit) ==
  /\ pc = "idle"
  /\ pc' = "read"
  /\ run' = [NoRun EXCEPT !.commit = commit]
  /\ status' = "killed"      \* nothing else is known of it until it ends
  /\ log' = [log EXCEPT !.wrote = FALSE, !.verified = FALSE,
                        !.posts = [i \in Items |-> 0],
                        !.reset = log.reset /\ Active(record)]
  /\ UNCHANGED <<world, record, late, calm, streak>>

\* Every read of the pages notes what the gateway lacks.
Reads(next) ==
  /\ run' = [run EXCEPT !.seen = missing,
                        !.recovering = IF pc = "read" THEN Active(record)
                                       ELSE run.recovering,
                        !.possible = IF pc = "read" THEN Active(record)
                                     ELSE run.possible]
  /\ log' = IF missing = {}
            THEN [log EXCEPT !.verified = TRUE, !.dirty = FALSE]
            ELSE [log EXCEPT !.verified = FALSE]
  /\ pc' = next

InitialRead ==
  /\ pc = "read"
  /\ Reads("decide")
  /\ UNCHANGED <<world, record, late, status, calm, streak>>

\* No connection, or an HTTP error: the timer treats it as quiet.
InitialReadUnreachable ==
  /\ pc = "read" /\ Adverse
  /\ End("router-unreachable")
  /\ UNCHANGED <<world, record, calm, history>>

\* The login or a page is refused, or the answer is not the page.
InitialReadRefused ==
  /\ pc = "read" /\ Adverse
  /\ End("error")
  /\ UNCHANGED <<world, record, calm, history>>

\* Whether a recovery is unfinished cannot be told: no answer is not "no".
IntentUnreadable ==
  /\ pc = "decide" /\ Adverse
  /\ End("error")
  /\ UNCHANGED <<world, record, calm, history>>

\* Mutant of Detected: any difference counts as a reset.
DetectedOnDrift(seen) == seen # {}

\* detect_factory_reset: every entry of every section that votes is gone.
Detected(seen) == IF OnAnyDiff THEN seen # {} ELSE Voting \subseteq seen

Stopped == run.commit /\ run.recovering /\ record.count >= RETRY_LIMIT

Decide ==
  /\ pc = "decide"
  /\ \/ /\ ~run.recovering /\ ~Detected(run.seen)
        /\ Keep /\ End("no-reset")
     \/ /\ run.recovering /\ run.seen = {}
        /\ IF run.commit THEN FinishThen(End("converged"))
           ELSE Keep /\ End("restore-needed")
     \/ /\ run.recovering /\ run.seen # {} /\ Stopped
        /\ Keep /\ End("error")
  /\ UNCHANGED <<world, calm, log>>

\* Whether the read was reset-shaped is also noted in the history.
GoAhead ==
  /\ pc = "decide"
  /\ run.recovering \/ Detected(run.seen)
  /\ run.seen # {}
  /\ ~Stopped
  /\ pc' = "preflight"
  /\ log' = [log EXCEPT
       !.reset = log.reset \/ (run.commit /\ (OnAnyDiff \/ Voting \subseteq run.seen))]
  /\ UNCHANGED <<world, record, run, late, status, calm, streak>>

-----------------------------------------------------------------------------
(* Allocation preflight: addresses wanted by pending reservations          *)

Conflict == run.seen \cap Reservations # {} /\ holder # "free"

PreflightClear ==
  /\ pc = "preflight"
  /\ ~Conflict
  /\ pc' = "plan"
  /\ UNCHANGED <<world, record, run, late, status, calm, history>>

PreflightFails ==
  /\ pc = "preflight"
  /\ run.seen \cap Reservations # {}
  /\ Adverse
  /\ \E st \in {"router-unreachable", "error"} : End(st)
  /\ UNCHANGED <<world, record, calm, history>>

\* A fixed allocation is never cleared: it needs the operator.
PreflightConflict ==
  /\ pc = "preflight"
  /\ Conflict
  /\ IF holder = "fixed" THEN Keep /\ End("error")
     ELSE IF ~run.commit THEN Keep /\ End("restore-needed")
     ELSE IF late THEN StopForDeadline
     ELSE /\ pc' = "prepareClear"
          /\ Keep /\ UNCHANGED <<run, late, status>>
  /\ UNCHANGED <<world, calm, log>>

\* prepare_mutation: the intent is on disk, synced, before anything is sent.
Prepare ==
  /\ pc \in {"prepareClear", "preparePass"}
  /\ MayBegin(record)
  /\ record' = Begun(record)
  /\ run' = [run EXCEPT !.started = TRUE]
  /\ pc' = IF pc = "prepareClear" THEN "clear" ELSE "first"
  /\ UNCHANGED <<world, late, status, calm, history>>

\* The intent of another dump, or a storage fault, which may come after the
\* new record is in place; a new record is then removed, if that works.
PrepareFails ==
  /\ pc \in {"prepareClear", "preparePass"}
  /\ \/ ~MayBegin(record) /\ record' = record
     \/ MayBegin(record) /\ Adverse /\ record' \in {record, Begun(record)}
  /\ End("error")
  /\ UNCHANGED <<world, calm, history>>

ClearNoted == [log EXCEPT !.wrote = TRUE, !.dirty = TRUE, !.verified = FALSE]

\* The one Clear and Rescan of a run, with the polling after it.
Clear ==
  /\ pc = "clear" /\ ~late
  /\ holder' = "free"
  /\ run' = [run EXCEPT !.sent = TRUE, !.possible = TRUE]
  /\ pc' = "refresh"
  /\ log' = ClearNoted
  /\ UNCHANGED <<missing, record, late, status, calm, streak>>

\* It went out, or may have, and the conflict is not seen to go away.
ClearFails ==
  /\ pc = "clear" /\ ~late /\ Adverse
  /\ holder' \in {holder, "free"}
  /\ run' = [run EXCEPT !.sent = TRUE, !.possible = TRUE,
                        !.stop = "unresolved"]
  /\ pc' = "settle"
  /\ log' = ClearNoted
  /\ UNCHANGED <<missing, record, late, status, calm, streak>>

\* The page that carries its nonce cannot be read.
ClearUnsent ==
  /\ pc = "clear" /\ ~late /\ Adverse
  /\ \E kind \in {"transport", "lost", "refused"} :
       run' = [run EXCEPT !.stop = kind]
  /\ pc' = "settle"
  /\ UNCHANGED <<world, record, late, status, calm, history>>

ClearTooLate ==
  /\ pc = "clear"
  /\ late
  /\ StopForDeadline
  /\ UNCHANGED <<world, calm, log>>

Refresh ==
  /\ pc = "refresh"
  /\ Reads("plan")
  /\ UNCHANGED <<world, record, late, status, calm, streak>>

RefreshFails ==
  /\ pc = "refresh" /\ Adverse
  /\ run' = [run EXCEPT !.stop = "unresolved"]
  /\ pc' = "settle"
  /\ UNCHANGED <<world, record, late, status, calm, history>>

-----------------------------------------------------------------------------
(* Passes                                                                  *)

DryRun ==
  /\ pc = "plan" /\ ~run.commit
  /\ Keep /\ End("restore-needed")
  /\ UNCHANGED <<world, calm, log>>

PlanTooLate ==
  /\ pc = "plan" /\ run.commit /\ late
  /\ StopForDeadline
  /\ UNCHANGED <<world, calm, log>>

FirstPass ==
  /\ pc = "plan" /\ run.commit /\ ~late
  /\ run' = [run EXCEPT !.pass = 1]
  /\ pc' = "pass"
  /\ UNCHANGED <<world, record, late, status, calm, history>>

\* Mutant of Plannable: acknowledged writes are planned again.
PlannableAgain == run.seen

\* build_restore_plan on what was last read, less the writes that this run has
\* seen acknowledged (_without_reposts) and the steps that are blocked.
Plannable == run.seen \ run.acked

BeginPass ==
  /\ pc = "pass"
  /\ run.pass = 1 \/ ~late
  /\ \E todo \in SUBSET Plannable :
       /\ todo # Plannable => Adverse
       /\ run' = [run EXCEPT !.todo = todo, !.stop = "none", !.item = NoItem]
       /\ pc' = IF todo = {} THEN "settle"
                ELSE IF run.started THEN "first" ELSE "preparePass"
  /\ UNCHANGED <<world, record, late, status, calm, history>>

PassTooLate ==
  /\ pc = "pass"
  /\ run.pass > 1 /\ late
  /\ EndPasses
  /\ UNCHANGED <<world, calm, log>>

FirstStep ==
  /\ pc = "first"
  /\ IF late
     THEN IF ~run.sent \/ run.pass = 1 THEN StopForDeadline ELSE EndPasses
     ELSE /\ pc' = "step"
          /\ Keep /\ UNCHANGED <<run, late, status>>
  /\ UNCHANGED <<world, calm, log>>

\* Item i is the next to be written: the first one left, in dump order.
Due(i) ==
  /\ pc = "step"
  /\ i \in run.todo
  /\ \E k \in DOMAIN Order :
       /\ Order[k] = i
       /\ \A j \in 1..(k - 1) : Order[j] \notin run.todo

\* The time limit is looked at between two steps (record_step).
StepOver(i, r) ==
  /\ run' = [r EXCEPT !.todo = @ \ {i}]
  /\ pc' = IF run.todo = {i} \/ late THEN "settle" ELSE "step"

StopAt(i, r, kind) ==
  /\ run' = [r EXCEPT !.stop = kind, !.item = i, !.todo = {}]
  /\ pc' = "settle"

Posted(i) == [log EXCEPT !.wrote = TRUE, !.dirty = TRUE, !.verified = FALSE,
                         !.posts = [log.posts EXCEPT ![i] = @ + 1]]

\* Mutant of Writing: the run forgets that the gateway may have changed.
WritingForgotten == [run EXCEPT !.sent = TRUE]

Writing == [run EXCEPT !.sent = TRUE, !.possible = TRUE]

\* A step that finds itself blocked before its POST does not stop the pass.
StepBlocked(i) ==
  /\ Due(i) /\ Adverse
  /\ StepOver(i, run)
  /\ UNCHANGED <<world, record, late, status, calm, history>>

\* "applied", or "unchanged" when the gateway had the item all along.
StepApplied(i) ==
  /\ Due(i)
  /\ missing' = missing \ {i}
  /\ StepOver(i, [Writing EXCEPT !.acked = @ \cup {i}])
  /\ log' = Posted(i)
  /\ UNCHANGED <<holder, record, late, status, calm, streak>>

StepUnsent(i) ==
  /\ Due(i) /\ Adverse
  /\ \E kind \in Unsent : StopAt(i, run, kind)
  /\ UNCHANGED <<world, record, late, status, calm, history>>

\* The gateway said no or saved nothing, or said that it saved and does not
\* show it within the time of the step.
StepRejected(i) ==
  /\ Due(i) /\ Adverse
  /\ missing' \in {missing, missing \ {i}}
  /\ StopAt(i, Writing, "rejected")
  /\ log' = Posted(i)
  /\ UNCHANGED <<holder, record, late, status, calm, streak>>

\* The answer is lost: the write may or may not have been performed.
StepUnanswered(i) ==
  /\ Due(i) /\ Adverse
  /\ missing' \in {missing, missing \ {i}}
  /\ \E kind \in Unanswered :
       (kind = "movedSilent" => i \in Lan) /\ StopAt(i, Writing, kind)
  /\ log' = Posted(i)
  /\ UNCHANGED <<holder, record, late, status, calm, streak>>

\* The write is acknowledged and then the gateway cannot be read; what it saved
\* may not be what was asked.
StepUnverified(i) ==
  /\ Due(i) /\ Adverse
  /\ missing' \in {missing, missing \ {i}}
  /\ StopAt(i, Writing, "ackUnread")
  /\ log' = Posted(i)
  /\ UNCHANGED <<holder, record, late, status, calm, streak>>

\* The LAN write is answered and the gateway is expected at its new address.
\* The wait ends before any read, so an answer that announces a refusal on the
\* page it redirects to ends the step in the same way.
StepMoved(i) ==
  /\ Due(i)
  /\ i \in Lan
  /\ \/ missing' = missing \ {i}
     \/ Adverse /\ UNCHANGED missing
  /\ StopAt(i, Writing, "moved")
  /\ log' = Posted(i)
  /\ UNCHANGED <<holder, record, late, status, calm, streak>>

-----------------------------------------------------------------------------
(* Settling                                                                *)

\* discard_unused_intent, after the Clear failed or a pass ended.
Discard ==
  /\ pc = "settle" /\ Unused
  /\ FinishThen(/\ pc' = "judge"
                /\ run' = [run EXCEPT !.started = FALSE]
                /\ UNCHANGED <<late, status>>)
  /\ UNCHANGED <<world, calm, log>>

Settle ==
  /\ pc = "settle" /\ ~Unused
  /\ pc' = "judge"
  /\ UNCHANGED <<world, record, run, late, status, calm, history>>

\* The Clear (pass 0) failed, before or after it was sent.
JudgeClear ==
  /\ pc = "judge" /\ run.pass = 0
  /\ \/ run.stop = "transport" /\ Keep /\ End("router-unreachable")
     \/ run.stop = "lost" /\ Keep /\ End("error")
     \/ /\ run.stop \notin {"transport", "lost"}
        /\ Count("error", Shape("allocation", NoItem, {}),
                 run.stop = "refused")
  /\ UNCHANGED <<world, calm, log>>

\* Mutant of QuietFault: a lost connection is quiet even after a write.
QuietFaultAlways == run.stop = "transport"

QuietFault == run.stop = "transport" /\ ~run.sent
SentStop == \/ run.stop \in {"rejected", "silent", "silentLost"}
            \/ run.stop = "transport" /\ run.sent

\* The stops after which the pass ends the run without a closing read.
Abrupt == \/ run.stop \in {"moved", "movedSilent", "ackUnread", "lost",
                           "refused", "page"}
          \/ QuietFault

JudgePass ==
  /\ pc = "judge" /\ run.pass > 0 /\ Abrupt
  /\ \/ run.stop = "moved" /\ Keep /\ End("error")
     \/ QuietFault /\ Keep /\ End("router-unreachable")
     \/ /\ run.stop = "movedSilent"
        /\ Count("error", Shape("reconnect", run.item, {}), FALSE)
     \/ /\ run.stop = "ackUnread"
        /\ Count("error", Shape("verification", run.item, {}), FALSE)
     \/ /\ run.stop \in {"lost", "refused", "page"}
        /\ Count("error", Shape("pre-send", run.item, {}),
                 run.stop = "refused")
  /\ UNCHANGED <<world, calm, log>>

JudgeOn ==
  /\ pc = "judge" /\ run.pass > 0 /\ ~Abrupt
  /\ pc' = IF run.stop = "silentLost" THEN "verdict" ELSE "closing"
  /\ UNCHANGED <<world, record, run, late, status, calm, history>>

ClosingRead ==
  /\ pc = "closing"
  /\ Reads("verdict")
  /\ UNCHANGED <<world, record, late, status, calm, streak>>

ClosingReadFails ==
  /\ pc = "closing" /\ Adverse
  /\ \E structural \in BOOLEAN :
       Count("error", Shape("verification", run.item, {}), structural)
  /\ UNCHANGED <<world, calm, log>>

Converged == run.stop = "none" /\ run.seen = {}

\* A write that was sent without a good end stops the run; its shape includes
\* the open differences, which are unknown after a lost session.
VerdictStop ==
  /\ pc = "verdict" /\ SentStop
  /\ Count(IF run.stop \in Unanswered THEN "error" ELSE "not-converged",
           Shape("step", run.item,
                 IF run.stop = "silentLost" THEN {} ELSE run.seen),
           FALSE)
  /\ UNCHANGED <<world, calm, log>>

VerdictConverged ==
  /\ pc = "verdict" /\ Converged
  /\ FinishThen(End("converged"))
  /\ UNCHANGED <<world, calm, log>>

NextPass ==
  /\ pc = "verdict" /\ ~SentStop /\ ~Converged
  /\ run.pass < MaxPasses /\ ~late
  /\ run' = [run EXCEPT !.pass = @ + 1]
  /\ pc' = "pass"
  /\ UNCHANGED <<world, record, late, status, calm, history>>

\* The pause before the next pass may be what would exceed the limit.
NoNextPass ==
  /\ pc = "verdict" /\ ~SentStop /\ ~Converged
  /\ run.pass < MaxPasses => late \/ Adverse
  /\ EndPasses
  /\ UNCHANGED <<world, calm, log>>

-----------------------------------------------------------------------------
(* Environment                                                             *)

\* The process is killed: only the disk and the gateway remain.
Kill ==
  /\ pc # "idle" /\ Adverse
  /\ End("killed")
  /\ UNCHANGED <<world, record, calm, history>>

TimePasses ==
  /\ pc # "idle" /\ Adverse /\ ~late
  /\ late' = TRUE
  /\ UNCHANGED <<world, record, pc, run, status, calm, history>>

\* A factory reset, or somebody changing one setting.
GatewayChanges ==
  /\ Adverse
  /\ \/ missing' = Items
     \/ \E i \in Items : missing' = missing \cup {i}
  /\ missing' # missing
  /\ UNCHANGED <<holder, record, pc, run, late, status, calm, history>>

\* A device takes a wanted address, or lets go of it.
AddressChanges ==
  /\ Adverse
  /\ holder' \in {"free", "stale", "fixed"} \ {holder}
  /\ UNCHANGED <<missing, record, pc, run, late, status, calm, history>>

BecomeCalm ==
  /\ ~calm
  /\ calm' = TRUE
  /\ UNCHANGED <<world, record, pc, run, late, status, history>>

Progress ==
  \/ InitialRead \/ InitialReadUnreachable \/ InitialReadRefused
  \/ IntentUnreadable \/ Decide \/ GoAhead
  \/ PreflightClear \/ PreflightFails \/ PreflightConflict
  \/ Prepare \/ PrepareFails
  \/ Clear \/ ClearFails \/ ClearUnsent \/ ClearTooLate
  \/ Refresh \/ RefreshFails
  \/ DryRun \/ PlanTooLate \/ FirstPass
  \/ BeginPass \/ PassTooLate \/ FirstStep
  \/ \E i \in Items :
       \/ StepBlocked(i) \/ StepApplied(i) \/ StepUnsent(i)
       \/ StepRejected(i) \/ StepUnanswered(i)
       \/ StepUnverified(i) \/ StepMoved(i)
  \/ Discard \/ Settle \/ JudgeClear \/ JudgePass \/ JudgeOn
  \/ ClosingRead \/ ClosingReadFails
  \/ VerdictStop \/ VerdictConverged \/ NextPass \/ NoNextPass

Next ==
  \/ \E commit \in BOOLEAN : StartRun(commit)
  \/ Progress
  \/ Kill \/ TimePasses \/ GatewayChanges \/ AddressChanges \/ BecomeCalm

Spec == Init /\ [][Next]_vars

\* The timer keeps starting committed runs, also between runs by hand, and a
\* run that is not killed goes on to its end.
LiveSpec ==
  /\ Spec
  /\ WF_vars(Progress)
  /\ SF_vars(StartRun(TRUE))

-----------------------------------------------------------------------------
(* Properties                                                              *)

Ended == pc = "idle"

\* From the first write of a recovery until a read finds the gateway as
\* dumped, the intent is on disk, whatever fails and wherever a run is
\* killed: no later run takes a half-restored gateway for ordinary drift.
IntentCoversWrites == log.dirty => Active(record)

\* No dumped item is written twice in one run, in any of its passes.
PostedOncePerRun == \A i \in Items : log.posts[i] <= 1

\* A run that exits 0 after a write has read the restored configuration back.
QuietExitsAreVerified ==
  Ended /\ log.wrote /\ status \in Quiet => log.verified

\* A gateway is written to only if it looked reset, in this run or at the
\* start of the recovery that this run resumes: ordinary drift is left alone.
WritesNeedReset == log.wrote => log.reset

\* At most RETRY_LIMIT counted failures in a row are the same one against one
\* intent: the count survives begin(), and a stopped recovery sends nothing.
SameFailureBounded == streak.count <= RETRY_LIMIT

\* The intent of another dump is never replaced, counted against or removed.
OtherIntentKept == [][record.owner = "other" => record' = record]_vars

\* Once the environment is calm, a gateway that looks reset is restored and
\* the intent is removed, unless the recovery stopped at its limit, another
\* dump's intent is in the way, or an address is held for good.
ResetIsRestored ==
  calm /\ Voting \subseteq missing
    ~> \/ missing = {} /\ record = NoIntent
       \/ record.count >= RETRY_LIMIT
       \/ record.owner = "other"
       \/ holder = "fixed"

\* The comment at RETRY_LIMIT: "a timer must not re-post the same doomed writes
\* forever".  A run whose LAN write did not take effect is counted (the branch of
\* run_autorestore for reconnect-required steps).
FailedMovesAreCounted ==
  [][ /\ pc = "judge" /\ run.stop = "moved" /\ run.item \in missing
      /\ pc' = "idle" /\ status' = "error"
      => record' # record ]_vars
=============================================================================
