----------------------------- MODULE SessionLock -----------------------------
(***************************************************************************)
(* The inter-process lock of session.py.  A call of with_router_session    *)
(* owns the session of a gateway while the marker file <hash>.lock is its  *)
(* own file and the kernel flock on that file is held through its open     *)
(* descriptor.  Every change of the marker by a current writer happens     *)
(* under a flock on <hash>.lock.guard, whose file is never removed.        *)
(*                                                                         *)
(* A call is one use of the lock, from _acquire_lock to release, so it is  *)
(* also the ownership token, and the file that the call creates, links and *)
(* removes is named by the call: it never has two at once.  There may be   *)
(* any number of calls, in one process or in many.                         *)
(*                                                                         *)
(* LegacyCalls are holders from older versions: they reserve the marker    *)
(* with an exclusive create, write their record afterwards and take        *)
(* neither the guard nor a flock.                                          *)
(***************************************************************************)
CONSTANTS Calls, LegacyCalls, NoCall

ASSUME LockAssumption == LegacyCalls \subseteq Calls /\ NoCall \notin Calls

VARIABLES
  pc,       \* where each call is
  guard,    \* the call whose descriptor holds the guard's flock, or NoCall
  marker,   \* the call whose file is linked at <hash>.lock, or NoCall
  open,     \* the calls that hold the flock of their own file
  temps,    \* the calls whose .bgw-lock-* temporary name exists
  old,      \* the calls whose file is older than the stale window
  named,    \* the legacy calls whose record names their PID
  seen      \* the marker a call decided to reclaim

vars == <<pc, guard, marker, open, temps, old, named, seen>>

Guarded == {"inspect", "recheck", "reclaim", "create", "link", "adopt",
            "verify", "erase"}
Acquiring == {"ask", "waiting", "inspect", "recheck", "reclaim", "create",
              "link", "adopt"}
Releasing == {"release", "verify", "erase"}
Over == {"done", "refused", "dead"}
Holding == {"adopt", "run", "release", "verify", "erase"}
Points == {"idle", "reserved", "run", "close"} \cup Acquiring \cup Releasing
            \cup Over

Modern == Calls \ LegacyCalls

TypeOK ==
  /\ pc \in [Calls -> Points]
  /\ guard \in Calls \cup {NoCall}
  /\ marker \in Calls \cup {NoCall}
  /\ open \subseteq Modern
  /\ temps \subseteq Modern
  /\ old \subseteq Calls
  /\ named \subseteq LegacyCalls
  /\ seen \in [Calls -> Calls \cup {NoCall}]

Init ==
  /\ pc = [c \in Calls |-> "idle"]
  /\ guard = NoCall
  /\ marker = NoCall
  /\ open = {}
  /\ temps = {}
  /\ old = {}
  /\ named = {}
  /\ seen = [c \in Calls |-> NoCall]

Goto(c, p) == pc' = [pc EXCEPT ![c] = p]
FreeGuard(c) == guard' = IF guard = c THEN NoCall ELSE guard

-----------------------------------------------------------------------------
(* Acquisition                                                             *)

\* Preparing the cache directory also deletes temporaries that are stale,
\* including those of a live but slow writer.
Start(c) ==
  /\ pc[c] = "idle"
  /\ Goto(c, "ask")
  /\ temps' = temps \ old
  /\ UNCHANGED <<guard, marker, open, old, named, seen>>

\* Mutant of TakeGuard: the guard's flock is shared, not exclusive.
TakeGuardShared(c) ==
  /\ pc[c] \in {"ask", "waiting", "release"}
  /\ guard' = c
  /\ Goto(c, IF pc[c] = "release" THEN "verify" ELSE "inspect")
  /\ UNCHANGED <<marker, open, temps, old, named, seen>>

TakeGuard(c) ==
  /\ pc[c] \in {"ask", "waiting", "release"}
  /\ guard = NoCall
  /\ guard' = c
  /\ Goto(c, IF pc[c] = "release" THEN "verify" ELSE "inspect")
  /\ UNCHANGED <<marker, open, temps, old, named, seen>>

\* Mutants of Abandoned: age wins over the flock, or age is also required.
AbandonedByAge(m) ==
  m # NoCall /\ m \in old /\ (m \in LegacyCalls => m \notin named \/ pc[m] = "dead")
AbandonedOnlyWhenOld(m) == m # NoCall /\ m \notin open /\ m \in old

\* A protocol marker is abandoned as soon as nobody holds its flock.  A
\* legacy marker must be old, and its PID dead or absent.
Abandoned(m) ==
  /\ m # NoCall
  /\ IF m \in LegacyCalls
     THEN m \in old /\ (m \notin named \/ pc[m] = "dead")
     ELSE m \notin open

\* The PID of a dead legacy writer may belong to another process by now.
PidReused(m) == m \in named

Inspect(c) ==
  /\ pc[c] = "inspect"
  /\ \/ /\ Abandoned(marker)
        /\ seen' = [seen EXCEPT ![c] = marker]
        /\ Goto(c, "recheck")
     \/ /\ ~Abandoned(marker) \/ PidReused(marker)
        /\ Goto(c, "create")
        /\ UNCHANGED seen
  /\ UNCHANGED <<guard, marker, open, temps, old, named>>

Recheck(c) ==
  /\ pc[c] = "recheck"
  /\ Goto(c, IF marker = seen[c] THEN "reclaim" ELSE "create")
  /\ UNCHANGED <<guard, marker, open, temps, old, named, seen>>

Reclaim(c) ==
  /\ pc[c] = "reclaim"
  /\ marker' = NoCall
  /\ Goto(c, "create")
  /\ UNCHANGED <<guard, open, temps, old, named, seen>>

\* The complete ownership record is written and locked under a private name.
CreateRecord(c) ==
  /\ pc[c] = "create"
  /\ temps' = temps \cup {c}
  /\ open' = open \cup {c}
  /\ old' = old \ {c}
  /\ Goto(c, "link")
  /\ UNCHANGED <<guard, marker, named, seen>>

\* Mutant of Link: a rename, which replaces a marker that is in the way.
LinkReplacing(c) ==
  /\ pc[c] = "link"
  /\ c \in temps
  /\ marker' = c
  /\ Goto(c, "adopt")
  /\ UNCHANGED <<guard, open, temps, old, named, seen>>

\* The link is exclusive: it never replaces a marker.
Link(c) ==
  /\ pc[c] = "link"
  /\ c \in temps
  /\ marker = NoCall
  /\ marker' = c
  /\ Goto(c, "adopt")
  /\ UNCHANGED <<guard, open, temps, old, named, seen>>

\* A marker is in the way: the record is discarded and the call polls.
LinkRefused(c) ==
  /\ pc[c] = "link"
  /\ c \in temps
  /\ marker # NoCall
  /\ temps' = temps \ {c}
  /\ open' = open \ {c}
  /\ guard' = NoCall
  /\ Goto(c, "waiting")
  /\ UNCHANGED <<marker, old, named, seen>>

\* A stalled writer can lose its record to the cleanup of a later call.
LinkLost(c) ==
  /\ pc[c] = "link"
  /\ c \notin temps
  /\ open' = open \ {c}
  /\ guard' = NoCall
  /\ Goto(c, "refused")
  /\ UNCHANGED <<marker, temps, old, named, seen>>

Adopt(c) ==
  /\ pc[c] = "adopt"
  /\ temps' = temps \ {c}
  /\ guard' = NoCall
  /\ Goto(c, "run")
  /\ UNCHANGED <<marker, open, old, named, seen>>

\* The deadline is looked at only after an attempt that met a held guard or
\* a marker: a free lock is granted even when the timeout is zero.
TimeOut(c) ==
  /\ \/ pc[c] = "waiting"
     \/ pc[c] = "ask" /\ guard # NoCall
  /\ Goto(c, "refused")
  /\ UNCHANGED <<guard, marker, open, temps, old, named, seen>>

\* Mutant of Fault: the error path keeps the descriptor.
FaultLeavingDescriptor(c) ==
  /\ pc[c] \in Acquiring
  /\ FreeGuard(c)
  /\ temps' \in {temps, temps \ {c}}
  /\ Goto(c, "refused")
  /\ UNCHANGED <<marker, open, old, named, seen>>

\* An operating-system error ends the acquisition.  The descriptor is closed
\* in every case, the temporary may stay behind, and so may a published
\* marker.
Fault(c) ==
  /\ pc[c] \in Acquiring
  /\ FreeGuard(c)
  /\ open' = open \ {c}
  /\ temps' \in {temps, temps \ {c}}
  /\ Goto(c, "refused")
  /\ UNCHANGED <<marker, old, named, seen>>

-----------------------------------------------------------------------------
(* Release                                                                 *)

\* Mutant of Finish: release() closes the descriptor before its cleanup.
FinishClosingFirst(c) ==
  /\ pc[c] = "run"
  /\ c \in Modern
  /\ Goto(c, "release")
  /\ open' = open \ {c}
  /\ UNCHANGED <<guard, marker, temps, old, named, seen>>

\* The command is over, well or badly; release() runs in a finally clause.
Finish(c) ==
  /\ pc[c] = "run"
  /\ c \in Modern
  /\ Goto(c, "release")
  /\ UNCHANGED <<guard, marker, open, temps, old, named, seen>>

\* The guard is busy for a second, the directory was replaced, the marker is
\* another's, or an error was met: no cleanup by name, only the descriptor is
\* closed.
GiveUp(c) ==
  /\ pc[c] \in Releasing
  /\ FreeGuard(c)
  /\ Goto(c, "close")
  /\ UNCHANGED <<marker, open, temps, old, named, seen>>

OwnsMarker(c) == marker = c

Verify(c) ==
  /\ pc[c] = "verify"
  /\ OwnsMarker(c)
  /\ Goto(c, "erase")
  /\ UNCHANGED <<guard, marker, open, temps, old, named, seen>>

Erase(c) ==
  /\ pc[c] = "erase"
  /\ marker' = NoCall
  /\ guard' = NoCall
  /\ Goto(c, "close")
  /\ UNCHANGED <<open, temps, old, named, seen>>

Close(c) ==
  /\ pc[c] = "close"
  /\ open' = open \ {c}
  /\ Goto(c, "done")
  /\ UNCHANGED <<guard, marker, temps, old, named, seen>>

-----------------------------------------------------------------------------
(* Environment                                                             *)

\* The kernel drops the flocks of a process that dies; the names remain.
Crash(c) ==
  /\ pc[c] \notin Over \cup {"idle"}
  /\ FreeGuard(c)
  /\ open' = open \ {c}
  /\ Goto(c, "dead")
  /\ UNCHANGED <<marker, temps, old, named, seen>>

\* Assumed of legacy writers: a live one records its PID before its marker
\* is older than BGW_SESSION_LOCK_STALE.
Age(c) ==
  /\ c \notin old
  /\ marker = c \/ c \in temps
  /\ c \in LegacyCalls => c \in named \/ pc[c] = "dead"
  /\ old' = old \cup {c}
  /\ UNCHANGED <<pc, guard, marker, open, temps, named, seen>>

LegacyReserve(c) ==
  /\ c \in LegacyCalls
  /\ pc[c] = "idle"
  /\ marker = NoCall
  /\ marker' = c
  /\ Goto(c, "reserved")
  /\ UNCHANGED <<guard, open, temps, old, named, seen>>

LegacyRecord(c) ==
  /\ pc[c] = "reserved"
  /\ named' = named \cup {c}
  /\ Goto(c, "run")
  /\ UNCHANGED <<guard, marker, open, temps, old, seen>>

LegacyRelease(c) ==
  /\ c \in LegacyCalls
  /\ pc[c] = "run"
  /\ marker' = IF marker = c THEN NoCall ELSE marker
  /\ Goto(c, "done")
  /\ UNCHANGED <<guard, open, temps, old, named, seen>>

-----------------------------------------------------------------------------
Step(c) ==
  \/ TakeGuard(c) \/ Inspect(c) \/ Recheck(c) \/ Reclaim(c)
  \/ CreateRecord(c) \/ Link(c) \/ LinkRefused(c) \/ LinkLost(c)
  \/ Adopt(c)
  \/ Finish(c) \/ GiveUp(c) \/ Verify(c) \/ Erase(c) \/ Close(c)

Environment(c) ==
  \/ Crash(c) \/ Age(c)
  \/ LegacyReserve(c) \/ LegacyRecord(c) \/ LegacyRelease(c)

PatientNext ==
  \E c \in Calls :
    \/ c \in Modern /\ Start(c)
    \/ Step(c) \/ Fault(c) \/ Environment(c)

Next == PatientNext \/ \E c \in Calls : TimeOut(c)

Spec == Init /\ [][Next]_vars

\* Every process that lives takes its next step, a command that runs ends
\* (each request has a timeout) and no deadline expires: the lock has to be
\* handed on by the protocol, not by a refusal.  Nothing is assumed of age.
PatientSpec ==
  /\ Init /\ [][PatientNext]_vars
  /\ \A c \in Modern : WF_vars(Step(c))

-----------------------------------------------------------------------------
(* Properties                                                              *)

\* Two calls never use the session of one gateway at the same time, whatever
\* crashes, slow writers, reclaimed markers and abandoned cleanups occur.
MutualExclusion ==
  \A c, d \in Calls : pc[c] = "run" /\ pc[d] = "run" => c = d

\* From its publication until its own erase, the marker of a live call stays
\* in place and locked: nobody reclaims or replaces it, however old it is.
HolderKeepsMarker ==
  \A c \in Calls :
    pc[c] \in Holding =>
      /\ marker = c
      /\ c \in Modern => c \in open

\* A marker disappears only through its own call, or after that call has let
\* go of it: the descriptor is closed, or the legacy process is dead.
OnlyAbandonedMarkersReclaimed ==
  [][marker # NoCall /\ marker' # marker =>
       \/ pc[marker] = "erase" /\ pc'[marker] = "close"
       \/ pc[marker] \in Over
       \/ marker \in LegacyCalls /\ pc'[marker] = "done"]_vars

\* Without any deadline, every call that asks for the lock is served and ends
\* (or its process dies): a crashed holder, a leftover marker or a cleanup
\* that gave up cannot block the others for good.
EveryCallEnds ==
  \A c \in Modern : pc[c] = "ask" ~> pc[c] \in Over

\* The inductive invariant behind the safety properties.  Its parts: who is
\* inside the guard, whose flock is held, which call may be named by the
\* marker, what a legacy marker shows of its writer, and that what a call has
\* decided to reclaim was, and therefore stays, abandoned.
GuardOwned == \A c \in Calls : pc[c] \in Guarded <=> guard = c

FlockOwned ==
  \A c \in Modern : c \in open <=> pc[c] \in Holding \cup {"link", "close"}

MarkerOwned ==
  /\ HolderKeepsMarker
  /\ \A c \in Calls :
       /\ pc[c] = "reserved" => marker = c
       /\ marker = c =>
            pc[c] \in Holding \cup {"reserved", "close"} \cup Over

LegacyHonest ==
  \A c \in Calls :
    IF c \in LegacyCalls
    THEN /\ pc[c] \in {"idle", "reserved", "run", "done", "dead"}
         /\ c \in old => c \in named \/ pc[c] = "dead"
    ELSE pc[c] # "reserved"

SeenAbandoned ==
  \A c \in Calls :
    /\ pc[c] \in {"recheck", "reclaim"} =>
         seen[c] \in Calls /\ pc[seen[c]] \in Over
    /\ pc[c] = "reclaim" => marker = seen[c]

LockInv ==
  /\ TypeOK
  /\ GuardOwned
  /\ FlockOwned
  /\ MarkerOwned
  /\ LegacyHonest
  /\ SeenAbandoned

\* The files implement the promise of SessionMutex.
StatusAt(p) ==
  IF p = "idle" THEN "idle"
  ELSE IF p = "run" THEN "holding"
  ELSE IF p \in Acquiring \cup {"reserved"} THEN "waiting"
  ELSE "ended"

status == [c \in Calls |-> StatusAt(pc[c])]

Mutex == INSTANCE SessionMutex WITH Calls <- Calls, status <- status

ImplementsMutex == Mutex!Spec
=============================================================================
