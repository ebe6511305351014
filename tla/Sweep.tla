-------------------------------- MODULE Sweep --------------------------------
(***************************************************************************)
(* The walk over the gateway's pages (sweep.py) behind sweep, scan,        *)
(* schema, audit, readiness and the capture of fixtures: one command of    *)
(* SessionCoordinator that reads page after page and goes on after most    *)
(* failures.  A page that cannot be used may be made up for from other     *)
(* pages (status.py, devices.py).  Each of these layers catches errors, so *)
(* each must let the ones pass that concern the session as a whole.        *)
(*                                                                         *)
(* What a page holds is left open.  The public sitemap is not in the Walk. *)
(* Commands that are no sweep run as SessionCoordinator has them.          *)
(***************************************************************************)
EXTENDS SessionCoordinator, Sequences

CONSTANT Walk   \* the pages of a sweep: the number of fallback pages of each

ASSUME SweepAssumption == Walk \in Seq(Nat)

VARIABLE sweep  \* the running sweep, if the command is one

sweepVars == <<allVars, sweep>>

NoSweep == [on |-> FALSE, raw |-> FALSE, at |-> 1, part |-> 0, got |-> FALSE,
            ok |-> FALSE, stop |-> "no"]

Sweeps == [on : BOOLEAN,
           raw : BOOLEAN,             \* raw pages are asked for: no fallbacks
           at : 1..Len(Walk) + 1,     \* the page the walk has reached
           part : Nat,                \* 0, or the fallback page of it
           got : BOOLEAN,             \* a fallback page of it was usable
           ok : BOOLEAN,              \* a page of the walk was ok
           stop : {"no", "full", "auth"}]  \* what ended the walk early

SweepTypeOK == sweep \in Sweeps

SweepInit == CoordinatorInit /\ sweep = NoSweep

-----------------------------------------------------------------------------
(* One page                                                                *)

WalkOver == sweep.at > Len(Walk) \/ sweep.stop # "no"

Fallbacks == IF sweep.raw THEN 0 ELSE Walk[sweep.at]

\* Mutant of PageLevel: the pages made up from others catch every error.
PageLevelOrAny(out) == sweep.part > 0 \/ out \in {"forbidden", "fault"}

\* What fetch_parsed_page, _fetch_soft, fetch_device_list and _safe_sweep_page
\* turn into the failure of one page.  The other errors pass through them all.
PageLevel(out) == out \in {"forbidden", "fault"}

PageDone(ok) ==
  sweep' = [sweep EXCEPT !.at = @ + 1, !.part = 0, !.got = FALSE,
                         !.ok = @ \/ ok]

\* The page did not do: all its fallback pages are read, and it is ok if one
\* of them can be used.
NextPart(got) ==
  IF sweep.part < Fallbacks
  THEN sweep' = [sweep EXCEPT !.part = @ + 1, !.got = got]
  ELSE PageDone(got)

Usable == IF sweep.part = 0 THEN PageDone(TRUE) ELSE NextPart(TRUE)

\* The device list and its only fallback, the status views and theirs.
Unusable == NextPart(sweep.got)

\* A served page can be usable, useless (a "Page not found", no data), or cut
\* by the parser's bounds, which fails a status page without fallback.
Served == Usable \/ Unusable \/ (sweep.part = 0 /\ PageDone(FALSE))

Settle(out) ==
  \/ out = "ok" /\ Served
  \/ out # "ok" /\ PageLevel(out) /\ Unusable
  \/ out # "ok" /\ ~PageLevel(out) /\ sweep' = [sweep EXCEPT !.stop = out]

-----------------------------------------------------------------------------
(* The command                                                             *)

BeginSweep ==
  /\ BeginCommand
  /\ sweep' \in {[NoSweep EXCEPT !.on = TRUE, !.raw = r] : r \in BOOLEAN}

\* As in Works, for one request of the walk.
SweepNoted ==
  /\ cmd' = [cmd EXCEPT !.met = IF pc' = "idle" THEN @ \cup {outcome'} ELSE @]
  /\ Excuse(IF auth' THEN {} ELSE {jar'} \cap gw'.live)
  /\ UNCHANGED <<disk, reader, backoff>>

ReadPage ==
  /\ sweep.on /\ ~WalkOver
  /\ BeginGet
  /\ SweepNoted
  /\ UNCHANGED sweep

ReadGoesOn ==
  /\ sweep.on
  /\ Request
  /\ SweepNoted
  /\ IF pc' = "idle" THEN Settle(outcome') ELSE UNCHANGED sweep

\* A flagged page makes the command raise the error again.
SweepPoolFull == sweep.stop = "full" /\ EndPoolFull

SweepAuthError == sweep.stop = "auth" /\ EndAuthError

\* All pages were visited: exit 0 if one of them was ok, else 2.
SweepOver == sweep.stop = "no" /\ WalkOver /\ EndNormally

\* An interrupt, or an output tree that cannot be written.
SweepBroken == EndOtherError \/ Killed

EndSweep ==
  /\ sweep.on
  /\ SweepPoolFull \/ SweepAuthError \/ SweepOver \/ SweepBroken
  /\ sweep' = NoSweep

OtherCommand ==
  /\ ~sweep.on
  /\ BeginCommand \/ Works \/ EndPoolFull \/ EndAuthError \/ EndForbidden
       \/ EndOtherError \/ EndNormally \/ Killed
  /\ UNCHANGED sweep

Beside ==
  /\ \/ ReaderMeetsFullPool \/ ReaderRecords \/ ReaderGivesUp
     \/ ClearSessionState \/ CacheExpires \/ CooldownExpires
     \/ Gateway /\ UNCHANGED coordination
  /\ UNCHANGED sweep

SweepNext ==
  \/ BeginSweep \/ ReadPage \/ ReadGoesOn \/ EndSweep
  \/ OtherCommand \/ Beside

SweepSpec == SweepInit /\ [][SweepNext]_sweepVars

-----------------------------------------------------------------------------
(* Properties                                                              *)

\* Once the gateway has refused the session as a whole, the program stops
\* asking.  A recorded full pool keeps every command away; and a sweep that
\* meets a full pool or a refused login, on whichever page and under whichever
\* fallback, sends nothing more, has neither read its pages nor failed them one
\* by one, and ends as what it met.  It calls itself answered (exit 0) only if
\* a page was served to it.
RefusalStopsAll ==
  /\ PoolFullBacksOff
  /\ sweep.on =>
       /\ cmd.met \cap {"full", "auth"} # {} => Over /\ sweep.stop \in cmd.met
       /\ sweep.ok => "ok" \in cmd.met

\* The inductive invariant behind these.
SweepKnown ==
  /\ sweep.on => cmd.on /\ cmd.ops = 0 /\ op.kind = "get"
  /\ ~sweep.on => sweep = NoSweep
  /\ sweep.on => sweep.stop \in {"no"} \cup cmd.met
  /\ sweep.on /\ sweep.stop = "no" => cmd.met \cap {"full", "auth"} = {}
  /\ sweep.on /\ (sweep.got \/ sweep.ok) => "ok" \in cmd.met
  /\ sweep.on /\ ~Over => ~WalkOver

SweepInv ==
  /\ CoordinatorInv
  /\ SweepTypeOK
  /\ SweepKnown
=============================================================================
