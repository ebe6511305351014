# bgwcli in TLA+

bgwcli is a command line for the AT&T BGW320 gateway. It scrapes the web pages
of the gateway, writes settings through their forms, and, from a systemd timer,
restores a dumped configuration after a factory reset (`autorestore`). The
gateway is a poor server: it has a small pool of web sessions, answers late or
not at all, answers a refused request with an ordinary page, and moves to
another address when its LAN settings are written. What is hard in this program
is therefore not its pages but its protocols: who uses the one session, what
happened to a write that got no answer, and what a killed run leaves for the
next one. This directory models those protocols, checks them, and proves what
keeps them safe.

Paths below are relative to `src/src/bgwcli/` unless they say otherwise.

## 1. Inventory

| component | state it keeps | operations | talks to |
|---|---|---|---|
| session lock (`session.py`) | marker `<hash>.lock`, guard file, kernel flocks, temporaries | acquire, reclaim, release | other processes, older versions, the file system |
| session coordinator (`session.py`) | session cache, pool-full cooldown | `with_router_session`, `record_pool_full_cooldown`, `clear_session_state`, `read_session_state` | the lock, the client, every command |
| HTTP client (`client.py`) | cookies, authenticated flag, counters | `get_cgi_page`, `post_form`, `login`, `probe_session_accepted`, `observe_post` | the gateway |
| recovery intent (`recovery_state.py`) | one JSON record | `begin`, `record_failure`, `finish`, `is_active` | autorestore, the file system |
| autorestore (`autorestore.py`) | locals of one run | read, detect, preflight, passes, settle | intent, client, restore engine, preflight |
| restore plan and diff (`restore.py`, `snapshot.py`, `snapshot_diff.py`) | none | `extract_snapshot`, `diff_snapshots`, `build_restore_plan` | restore command, autorestore |
| restore execution (`restore.py`, `mutations.py`, `write_outcome.py`) | the results so far | `execute_restore`, save confirmation | client |
| allocation preflight (`allocation_preflight.py`) | evidence of one Clear | inspect, Clear and Rescan with polling | client |
| save result and exit codes (`save_result.py`, `save_confirmation.py`, `exit_codes.py`) | none | pure decisions | restore engine, commands |
| write commands (`operations.py`, `actions.py`, `cli.py`) | none between calls | set, submit, action, diagnostics, restore | client, restore execution |
| dump files (`dumpfile.py`) | dump files | preflight of the target, write, load | dump, autorestore, restore |
| file publication (`filesystem.py`) | directories, pending markers | `ensure_directory`, `sync_directory` | intent, session cache |
| sweep (`sweep.py`, `fetch.py`, `status.py`, `devices.py`) | the walk's progress | read every page, with fallbacks | client, coordinator |
| parsing, formatting, redaction, diagnostics, audit | none | pure | commands |
| configuration, command line, deployment | none | settings, arguments, systemd units | all |

How they interact. A command of `cli.py` builds a client and runs inside
`with_router_session`, which holds the lock, applies the cooldown, imports the
cached session, calls the command, and decides from its outcome what to keep on
disk. Public reads (`sitemap`, coverage) run outside it and take the lock only
to record a full pool. `autorestore` is such a command; it reads the pages,
compares them with the dump, asks `detect_factory_reset`, and then owns the
recovery intent while the restore engine writes.

What is hard, and what makes each component correct:

* *Lock.* Any number of processes, each of which may stall, fail or die between
  any two system calls, and holders of older versions that follow a weaker
  protocol. Correct: exclusive; a live holder is never robbed however old its
  marker is; a dead one never blocks the others.
* *Client.* The pool fills and sessions end between any two requests; a POST may
  be performed and its answer lost; an answer may be the Login page under any
  status. Correct: a write is performed at most once; the evidence reported for
  it is honest; logins are bounded; the flag never vouches for a refused cookie.
* *Coordinator.* Commands end in many ways and storage may fail. Correct: what
  was refused is forgotten, what was opened is kept, a full pool is left alone.
* *Sweep.* A walk over 37 pages in which a failing page fails alone, through four
  layers that catch errors. Correct: what concerns the session as a whole passes
  through all of them, and nothing is sent after it.
* *Autorestore and its intent.* Runs are killed, run out of time, lose their
  session, meet a storage fault, and follow each other for days. Correct: the
  intent covers every write until a verifying read; ordinary drift is never
  overwritten; nothing is written twice in a run; repeated failures stop; quiet
  exits are true; recovery ends.
* *Restore execution, write commands.* A Save can be followed by a warning page,
  a Continue, a long silence or a move, and then by reads that fail in their own
  ways. Correct: an unknown write is never reported as done or as not done, the
  exit code follows one table on every path, and every command ends.
* *Restore plan, preflight.* Rows are known by name and removed by position; rules
  leave steps to a later run; devices take addresses while they are polled. Correct:
  nothing the dump holds is removed, no name is given twice, the rules never block
  everything, a free address is free.
* *Publication.* Processes create the same directories at once, are killed, and the
  power may fail between any two system calls. Correct: what was promised is there
  afterwards, whoever made the directory; a failed dump takes only its own.

The list of hazards with their lines is `hazards` in `PROJECT.json`.

## 2. Modules

```
SessionMutex            abstract: who may hold the session
SessionLock             the files and flocks of session.py; implements SessionMutex
  SessionLockProofs       theorems           MCSessionLock      runs
RecoveryIntent          the record of recovery_state.py, as operators
Autorestore             run_autorestore around the record and a gateway
  AutorestoreInvariant    the inductive invariant
  AutorestoreProofs       theorems           MCAutorestore      runs
StepOutcome             the report of a restore step and its classification
  StepExecution           execute_restore, one step after another
    StepExecutionProofs     theorems         MCStepExecution    run
  WriteCommand            a write from the command line, to its exit
    WriteCommandProofs      theorems         MCWriteCommand     run
  (used by Autorestore and RestoreRun)
RouterClient            client.py against the session pool   MCRouterClient        run
  SessionCoordinator      with_router_session around it      MCSessionCoordinator  run
    Sweep                   a walk over the pages inside it  MCSweep               run
      SessionProofs           theorems of all three
SnapshotDiff            what a dump records, how the live pages differ
  AllocationPreflight     who owns an address; Clear and Rescan
    RestorePlan             the steps a restore plans
      RestoreRun              bgw restore, run after run     MCRestoreRun  runs
        RestoreRunInvariant     the inductive invariant
        RestorePlanProofs       lemmas: what a plan may contain
        RestoreRunProofs        theorems
DirectoryPublication    ensure_directory and the intent file MCPublicationRace
  DumpPublication         write_dump_file beside it
    PublicationProofs       theorems         MCPublication      run
```

### SessionLock

One action per system call that matters: taking the guard, judging the marker,
rechecking it, unlinking it, creating the private record with its flock, the
exclusive link, adopting, and, on release, verifying, erasing and closing. A
*call* is one use of `_acquire_lock`; the file it links is named by the call.
`open` are the calls whose descriptor holds a flock; `Crash` and `Fault` drop
it as the kernel or the `except BaseException` branch (437-446) does. `Abandoned`
is the rule of `_remove_stale_lock`: a current marker is abandoned exactly when
nobody holds its flock, a legacy one when it is old and its PID dead or absent.
`Start` includes `_reap_stale_leftovers`, which can delete the temporary of a
live writer that stalls (`LinkLost`). Assumed of older versions: a live one
records its PID before its marker is older than `BGW_SESSION_LOCK_STALE`.

### RecoveryIntent and Autorestore

The gateway is the set `missing` of dumped items that it lacks, and `holder`,
who has the addresses that reservations want. `record` is the intent. A run goes
through the points of `run_autorestore`; `run` holds its locals under the names
of the code where it has them: `started` (intent_started), `possible`
(mutation_possible), `sent`, `acked` (acknowledged), `pass`. One step of a plan,
with the polling that follows its POST, is one action with the outcomes that
`execute_restore` reports (applied, blocked, not sent, rejected, unanswered,
acknowledged but unread, moved). `Discard`, `Judge*`, `Closing*` and `Verdict*`
are the code after a pass, in its order. `Count`, `StopForDeadline`,
`FinishThen` and `DiscardThen` are the inner functions count_failure,
stop_for_deadline, checkpoint_action("finish") and discard_unused_intent. `late`
is out_of_time(). `log` and `streak` are history, read by properties only:
what was really written, verified and counted. `calm` ends the trouble, for
the liveness property.

### StepOutcome and StepExecution

A plan is a sequence of forms (what requests a step makes); a step is its place in
the plan. `pc` is the next request of the step whose turn it is: Allocate and its
editor, the fresh page of a deferred forward, the write, the warning page, its
Continue, and the wait. `obs` is `_SaveEvidence`; `reports` are the results, as
far as anything is decided by them. How a POST may end is what RouterClient
allows: not sent, sent without an answer, turned away without being performed,
answered with an error, accepted. The gateway is external: it works on an accepted
save in its own time, and may perform it (saving what was asked or something else),
refuse it, see no change or drop it, with or without a notice; it holds a Wi-Fi
save until Continue; a notice is always about the last save it received; nobody
else changes the gateway during an execution. `late` is the wait's deadline.
`StopKind` is the classification in `run_autorestore` after a pass; the property
`AsAutorestoreAssumes` and the actions `Step*` of Autorestore are the two sides of
one contract, and writing it down changed Autorestore in three places: a save that
is acknowledged but shows another state, or is acknowledged and then unreadable,
need not have restored the item, and a refused LAN save is reported as a move when
its refusal stands on the page it redirects to, which is never read.

### RouterClient, SessionCoordinator and Sweep

One action is one request and its answer, so the gateway's pool changes between
any two. What the code looks at in an answer is whether it is the page, the
pool-full page, the Login page (or a redirect to it), an HTTP error or nothing.
Assumed of the gateway, because the client's code does: it serves a protected
page exactly to the cookie of a live session; a request without one gets the
pool-full page while all slots are taken and the Login page otherwise; a cookie
it has refused does not become a session again by itself; it performs no write
that it answers with the Login page or a 401/403; and a page-level 401/403 comes
only to an accepted session.

`SessionCoordinator` extends the client: commands follow each other
(`MutualExclusion` of SessionLock is the reason), each imports the cache, runs
some operations, may go on after a failed one, and ends by one of the branches of
`with_router_session`, each of which may meet a storage fault. A public reader
runs beside them. `excused` names the sessions that the code gives up knowingly:
lost with a killed process, a storage fault or a lost login answer, replaced by a
forced login, cleared by the user, expired, dropped with a full pool or an
authentication error after a new login, dropped by a public reader that records a
full pool it met earlier, or left in the cache by a page-level error whose
command had lost its session before.

`Sweep` adds a command with a plan of its own: the walk of `sweep_router`, page
after page and request by request, beside the other commands, which it leaves as
they are. `Walk` gives each page its number of fallback pages (the status views'
sections, the device list's IP Allocation page); `PageLevel` is what `fetch.py`,
`status.py`, `devices.py` and `_safe_sweep_page` agree to take for the failure of
one page, and `stop` is the flag or the exception with which the rest passes them.
What a served page holds is left open.

### WriteCommand

One `set`, `submit`, `action` or `diagnostic`, from the form page to the exit code.
A command's *route* is the protocol its page answers with (a plain POST, a Save
that is awaited, a Wi-Fi save with its warning page, a LAN save that cuts or moves
the connection). The polling is that of StepExecution, cut down to one save; what
is new is what `_report_save`, `_run_action` and `_run_diagnostic` make of it: the
taken-over acknowledged write (`Taken`), whether the page is read again
(`NeedsRead`), the reads with their relogins (`_verification_read`), the decision
of save_result (`Decide`) and the exit code. `Contract` states the table of
save_result once, as a function of what was observed; the actions follow the code's
routes, and `ExitIsHonest` says the two agree. The gateway is external, as in
StepExecution.

### SnapshotDiff, AllocationPreflight, RestorePlan and RestoreRun

The live pages are a record (`gw`): two ordered tables, the fixed allocations, the
known devices and their labels, and three form pages which stand for the kinds there
are: one with a control that depends on another and a checkbox, one that can lock
the operator out (the MAC filter), and one that can move the gateway. `FormValue`,
`LiteralText` and `SameText` are the conversions between a control and a dump's
string, where an unchecked box, a disabled control and a text that reads
`<unchecked>` meet. `Plan` is build_restore_plan: each section's steps in its order,
with the rules that block them. RestoreRun repeats `bgw restore`: the preflight of
AllocationPreflight read by read (devices come up between any two), the pages again,
the plan, the steps one by one with what the gateway makes of each POST, the closing
diff and the exit code. What a POST's requests are is StepExecution's matter; here a
step is one action with its outcomes. The gateway adds a row anywhere in a table, so
positions move, and keeps a service that has a forward.

Not followed: names that differ in case only are one service to the diff, but a
forward's dropdown is matched exactly, so a dump's forward to `mosh` stays blocked
while the gateway has `Mosh`; and a service that a wanted forward holds cannot be
replaced. Both are in the model and excluded from `SomeStepGoesOut` by `Passable`, and
so is, by `Meant`, a dump that no gateway could have shown: with a forward to a service
there is not, or with two forwards of one service.
Two custom services of one folded name are not among the starts (see section 6).

`Pages`, `Dumps` and `Jobs` are the types: tables of any length, and for each form
page the controls it shows, its checkboxes and a value for each field. A dump has no
name twice, which is what its loader checks (`_snapshot_problem`).

### DirectoryPublication and DumpPublication

One action is one system call or check. The state base and its ancestors are levels
1..Base, each published with a marker by ensure_directory (`stack` is its recursion);
the level below stands for the owned entries, which have none and are synchronized
every time; in it is an intent file for each process and one dump target for all. `synced`
is what is on stable storage: `PowerLoss` keeps or drops every entry that differs,
one by one, and what is below a dropped directory. A renamed file is kept whole
only if it had been flushed. `Strict` processes have a umask that takes access from
the owner, so that a fresh directory cannot be entered before its chmod.

DumpPublication adds write_dump_file, whose default target lies under the same base:
it makes missing directories without markers, and removes what it made when it fails.
ensure_directory does not look above a directory that exists without marker, "each
parent is published before a child is created"; that is not so for a level that a dump
made, or made again after a dump removed it. `foreign` records those levels and a
power loss that takes them ends the promise of what was below; everything else is kept
to its promise. The inductive invariant stands beside the properties: what the tree,
each call of the recursion and each process's next step can rely on. Marker creation
(exclusive open, mode, content, fsync) is one step; a temporary that a killed process
leaves is followed until that process starts again; a removed directory is taken to be
gone at once.

## 3. Runs

| run | bounds | states | what it shows |
|---|---|---|---|
| `lock` | 3 current calls, 1 legacy; symmetry of the current ones | 232,605 | LockInv, MutualExclusion, HolderKeepsMarker, OnlyAbandonedMarkersReclaimed, ImplementsMutex |
| `lock_live` | 3 current calls, no deadline expires | 128,990 | EveryCallEnds |
| `autorestore` | a voting reservation and the LAN settings; 2 passes, fair | 908,616 | RunInv, IntentCoversWrites, QuietExitsAreVerified, SameFailureBounded, WritesNeedReset, PostedOncePerRun, OtherIntentKept, ResetIsRestored |
| `client` | 2 slots, 5 cookies | 232,329 | PerformedAtMostOnce, EvidenceIsHonest, LoginsBounded, OutcomeMatchesSession |
| `execution` | every plan of 2 steps, fair | 77,576 | ExecutionInv, ReportsAreTrue, OneSaveAtATime, AsAutorestoreAssumes, ExecutionEnds |
| `coordinator` | 1 slot, 2 cookies, 2 operations per command; sweeps of 2 pages, one with 2 fallbacks | 793,232 | SweepInv (with CoordinatorInv), CacheIsWorthIt, NoOrphanedSlot, RefusalStopsAll (with PoolFullBacksOff) |
| `write` | every command and route, 3 verifying reads, fair | 38,519 | WriteInv, ExitIsHonest, WriteEnds |
| `restore` | 1 request that goes wrong, 1 device that comes up; the starts below | 391,927 | RestoreInv, ExitIsTrue, OneSaveRestoresForm, SomeStepGoesOut, DumpedRowsStay, OneServicePerName, PollingEnds |
| `publication` | 2 of 2 recording and 2 dumping processes, 2 base levels, 2 faults | 1,684,045 | PublicationInv, FilesSurvive, CleanupTakesOnlyItsOwn |
| `autorestore_moves`, `forgotten_copy`, `publication_race` | | | violated on purpose, see section 6 |

Why the bounds are enough. *Lock:* three calls give a holder, a reclaimer and a third
that links meanwhile, and the legacy call the mixed protocol; the theorems cover any
number. *Autorestore:* two items are the smallest plan in which a run stops between
two writes, the two kinds of item are those whose writes end differently (a conflict,
a move), two passes are the fewest in which something could be written again, and
RETRY_LIMIT has its real value, so runs follow each other until the limit; the
theorems cover any dump and any number of passes. *Client:* the pool of two has a
free, a half-full and a full state with the client inside or outside; a write uses at
most four logins, so five cookies let every login deal its own. *Coordinator:* one
slot is the tightest pool, two cookies are a session and its replacement. A refusal
can fall on a page, on its first or its last fallback, or on a page after it. MaxSids
and MaxOps are the only bounds on counters and both are in the guards. *Execution:*
the wait keeps a bounded summary of any number of polls, and two steps show what one
leaves for the next; Length is the only bound. *Write:* one command is the whole life
of the component; the reads have their real number. *Restore:* runs follow each other
without bound. The starts (`MCStarts`) are all meaningful combinations of six service
and five forward tables (empty, permuted, renamed in case, of another kind, with rows
of the gateway's own, with a forward that holds a service), with and without
`--prune`; every combination of who has and who is to have an address; the form pages
in every relevant state against three dumps; and one gateway that lacks everything.
MaxFaults and MaxMoves bound what goes wrong over all runs. *Publication:* two faults
are a kill and the power loss that follows, or a failure in the process that cleans up
after a killed one; two base levels are a parent and a child that are both missing;
one strict and one ordinary recording process meet each other and a dump.

Deadlock is checked in `restore` only, where runs follow each other. Elsewhere the
system may really stop: calls of the lock are one-shot, a command ends, cookies and
faults are bounded, and a calm system with a restored gateway has nothing to do.

Each property of a passing run has a mutant in `PROJECT.json`: a definition next
to the real one that changes it as a plausible bug would, under which the run
finds the property violated. Mutants are marked "Mutant of" and used nowhere. (For
FilesSurvive there are two, one for each half: the listed one breaks what begin()
promises, `DumpWriteUnflushed` the dump.)

## 4. Fairness

* `PatientSpec` (SessionLock): every process that lives takes its next step, and
  no deadline expires (there is no TimeOut in it), so the lock must be handed on
  by the protocol. Weak fairness of a call's own steps is the scheduler's. That a
  running command ends is justified by the timeout of every request. Crashes,
  faults and the passage of time are not fair.
* `LiveSpec` (Autorestore): a run goes on (WF of Progress) and the timer starts
  committed runs again and again, between runs by hand (SF of StartRun(TRUE)):
  deploy's timer unit. The property speaks of behaviours in which the trouble
  ends (`calm`); nothing forces it to.

* `FairSpec` (StepExecution, WriteCommand): the client goes on and the clock of its
  wait advances. Each request ends by its timeout; the gateway owes nothing.
* `FairSpec` (RestoreRun): the preflight goes on and its clock advances. Nothing
  obliges anyone to start another run.

## 5. What is proved

With TLAPS, for every value of the constants that satisfies the ASSUMEs:

*SessionLockProofs.* `LockInv` is inductive (`InitInv`, `StepInv`). On its own,
mutual exclusion is not: the proof needs that the guard belongs to the call inside
it (`GuardOwned`), that a flock is held exactly from the record's creation to
Close (`FlockOwned`), that the marker names a call that can still be named
(`MarkerOwned`), what a legacy marker shows (`LegacyHonest`), and that a marker
judged abandoned stays so until it is unlinked, because its call is over and
cannot take its flock again (`SeenAbandoned`). From it: `MarkerKept`, `Exclusion`
(two running calls would both be the marker), `ReclaimSafety` and `Refinement`
(each step moves the status of at most one call, lemma `StatusMoves`, and
granting while another holds contradicts the marker).

*AutorestoreProofs.* `RunInv` of AutorestoreInvariant is inductive; it relates the
point of the run to its flags (what `sent`, `possible` and `started` mean there),
the flags to the history (a write this run made is known to it), and the record to
both. From it: `IntentSafety`, `NoRepost`, `QuietSafety`, `DriftSafety`,
`RetryBound` and `OtherIntentSafety`.

*SessionProofs.* The three layers of a session, one above the other. None of the four
properties of the client is inductive; `ClientInv` is. It says whose session a cookie
in hand is (`SessionKnown`), which operation can be at which point and with which
locals (`OperationKnown`), how many sends and logins a write has behind it at each
point (`WriteKnown`: a second send comes only after an answer that performed nothing,
which is why `WritePerformedAtMostOnce` holds), and what the client's flag vouches for
(`FlagKnown`). From it: `WritePerformedAtMostOnce`, `EvidenceOfWriteIsHonest`,
`LoginsAreBounded`, `OutcomeAgreesWithSession`. Each part has a step lemma of its own
for any session the gateway ends unnoticed, because the layers above use them with a
weaker flag.

`CoordinatorInv` adds to the client's parts whose session the cache holds, which slots
are accounted for (`SlotsKnown`), and that a command keeps the session it imported
until it is refused or given up (`InitialKnown`). A step goes on inside a command
(`Working`), ends it with a disk that is `Settled`, or happens beside it (`Besides`);
one lemma for each shape, and one for each branch of `with_router_session`. `SweepInv`
adds where the walk is and why it stops. From both, for any walk, with any number of
fallbacks: `CacheOfSweepIsWorthIt`, `NoSlotOrphaned`, `RefusalStopsEverything`.
`SweepSpec` runs sweeps among all other commands, so its theorems cover the commands
without them.

*StepExecutionProofs.* `ExecutionInv` relates each report to what the gateway has
received, performed and still works on, for a plan of any length and any number of
polls. The step that carries the argument is `TellStep`: a report that is truthful
when it is made stays so, because the gateway works on the save of the step that waits
or of one that has stopped the plan. From it: `ReportsOfExecutionAreTrue`,
`OneSaveAtOnce` and `AutorestoreMayAssume`, the contract between the two modules.

*WriteCommandProofs.* `WriteInv` ties what a command has observed (`SentKnown`,
`ObservedKnown`, `SavedKnown`, `CheckKnown`) to what the gateway did
(`GatewayKnown`); the verdict is one function of that, so `ExitOfCommandIsHonest`
compares the code's routes with the table `Contract` case by case, for any number of
verifying reads.

*PublicationProofs.* For any depth, any number of recording and dumping processes,
and any umasks: a process goes on to a level only when what is above is published,
which nothing but a power loss takes away (`PublishedStays`); so a step of one process
leaves true what the others rely on (`StepKeeps`), and a power loss can take nothing
promised, because a promise needs the whole path published. That
`UnpublishedIsMarked`, which makes adoption of somebody else's half-made directory
safe, is part of it. From `PublicationInv`: `PromisesSurvive` and
`CleanupIsItsOwn`.

*RestorePlanProofs.* What a diff and a plan are made of, for tables of any length and
any names, kinds, devices and fields. Tables are filtered and plans put together by the
folds of SequencesExt, so this is induction over data; `NatInd` states it for a set of
numbers instead of an operator, from the well-foundedness of `<` on the naturals. With it
`OnlySelects` (a filter keeps the rows it should, in their order, each as often as it
was there) and `FlattenFacts` are proved, and from there everything else follows
the planner: `WithoutFacts` and the facts of the differences, one lemma for each helper
and each part of `build_restore_plan`, and `WholePlan`: each step of a plan is an add
of a row the dump has and the gateway lacks, to a name that is free or is removed by
the step before it; or a remove that presses the button of an extra row, with nothing
before it that could move the rows of its table; or a save made from the dumped and the
read form, one for each page at most; or sends nothing.
`NotAllBlocked` is the argument against a deadlock of the rules: a missing service whose
name is free is added; otherwise the first extra forward is removed; without any, an
extra service is one that no forward uses, so its remove goes out; and without
extra rows the first missing forward is added.

*RestoreRunProofs.* `RestoreInv` of RestoreRunInvariant is inductive (`StepKeeps`). Its
`OwnersKnown` and `VerifiedIsFree` are about the preflight: what was seen of the owners
is all there is but for devices that came up since. `PlanKnown` says whose plan the
steps are, and `PagesStill` what makes a plan worth anything once it is executed: until
its first step a table is as the planner read it, and a form until its save. From it:
`RestoreInvariant`; `ExitTrue` (`ConvergedMeansRestored`: a diff that counts nothing
means that the gateway is as the dump); `RowsOfTheDumpStay`, where a position pressed is
still that of an extra row; `OneOfEachName`, which needs `NamesApart` beside it (the
names stay apart, and what is replaced is gone when its replacement's turn has come) and
assumes `StartsApart`, for without it the property does not hold (section 6);
`OneSaveRestores`, where the control that a save turns on keeps what the save sent
for it; and `SomeGoesOut`, by `NotAllBlocked`.

Assumptions, all of them evaluated by TLC in the runs: `LockAssumption` (legacy calls
are calls, NoCall is none), `AutorestoreAssumption` (the order lists each item once,
voting items exist, the rest are subsets), `ClientAssumption` (at least one slot and
one cookie), `CoordinatorAssumption` (a command has at least one operation),
`SweepAssumption` (the walk is a sequence of numbers of fallbacks), `LengthAssumption`
and `ReadsAssumption` (at least one step, at least one read), `SnapshotAssumption`
(Fold is a function on the names, the built-in services are names),
`RestoreAssumption` (the starts are jobs and gateways of their types, the devices are
finitely many, NoIp is no address) and `PublicationAssumption` (the kinds of processes
are disjoint, there is a base level). What the gateway and the operating system are
taken to do is in the actions, as section 2 says.

Checked by TLC only:

* liveness (`EveryCallEnds`, `ResetIsRestored`, `ExecutionEnds`, `WriteEnds`,
  `PollingEnds`): fairness and ENABLED are out of the prover's reach. Every other
  property of a passing run is a theorem.

## 6. Disagreements found

By runs that are violated on purpose:

1. `forgotten_copy`: session.py:160-162 forgets "the cached copy is dead" when the
   client has lost its flag; a forced login (`auth`) clears the flag before its
   first request, so a connection fault there drops a session that is still live.
2. `autorestore_moves`: a LAN save that is answered is taken for a move and not
   counted (autorestore.py:801-804), though the wait leaves before it could see a
   refusal (restore.py:1693-1695); so a refused one is posted by every timer run,
   against the comment at autorestore.py:85-86. Each of these runs exits 2.
3. `publication_race`: of two processes that create the state base together, the one
   whose mkdir comes second does not restore owner access (filesystem.py:252) but
   removes the marker; if the maker, under a restrictive umask, is killed before its
   own chmod, a closed directory without marker remains, which docs/REFERENCE.md:509
   says a later invocation can repair.

By reading, while modelling:

* autorestore.py:369 calls everything before the first POST quiet; an answer that is
  not the page, or a 401/403, is an error with exit 2 (401-409). The code's own
  comment there says why, so it is the docstring that is wrong.
* client.py:605-608 promises that a cookie of login.ha is never kept; an interrupt
  during the probe after a wait leaves it, flagged, and the coordinator caches it.
* docs/REFERENCE.md:68 and restore.py:233-234 say that a restore never adds a service
  whose name is already on the router. If the gateway has two services whose names fold
  to one, a `--prune` run removes the first of them and adds the dump's behind it
  (restore.py:282-293), while the second stays for a later run. RestoreRun does the same
  from such a start; from gateways with no name twice the property is a theorem.
* filesystem.py:201 takes each parent of an unmarked directory to be published. That is
  not so where `bgw dump` made the parent (dumpfile.py:212): it makes no marker and
  synchronizes no parent. The model excuses these levels (`foreign`).

## 7. What could follow

1. A proof that an execution of Autorestore's step is one of StepExecution's.
2. An abstract recovery specification (absent, recorded, finished) that Autorestore
   refines, and DirectoryPublication's promise as its storage.
3. The fallback login of `bgw autorestore` (cli.py:1968-2085) in Autorestore.
4. The artifact files of sweep, with the symlinks and owners they refuse.

## 8. Not modelled

Parsing, formatting, redaction, audit, diagnostics' output, the sanitizer of fixtures,
configuration and argument parsing are text handling without state and are left to
unit tests. Of the sweep, the files it writes under `--out`, which nothing reads back,
the public sitemap and the content of the pages are left out. TLS, redirects, cookie
attributes, size limits and nonce selection appear only as their outcomes. In
Autorestore, the fallback access code and the report fields are left out, the storage
of the intent is atomic up to "old or new record" (DirectoryPublication shows what is
behind that), and a step's write is one action. In RestoreRun, HTML, secrets that a
dump hides, the warnings' wording and the radio, guest and advanced pages beyond the
three kinds of form are left out. In DirectoryPublication, symlinks, foreign owners
and unsafe markers end a call with an error like any failing system call, and the
session cache's private directory, which uses the same function, is not a second
instance.
