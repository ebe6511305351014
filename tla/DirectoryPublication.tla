------------------------- MODULE DirectoryPublication -------------------------
(***************************************************************************)
(* How a recovery intent gets on disk and off it again: ensure_directory of *)
(* filesystem.py for the state base and the owned directory below it, then  *)
(* _publish and finish of recovery_state.py.                                *)
(*                                                                         *)
(* Levels 1..Base are the state base and its ancestors, as far as they may  *)
(* be missing; level Depth == Base + 1 stands for the owned entries.  What   *)
(* is above level 1 is established.  Each process restores another gateway,  *)
(* so it has an intent file of its own in the one directory (runs for the    *)
(* same gateway are kept apart by SessionLock).                             *)
(*                                                                         *)
(* One action is one system call or one check.  The machine may stop: what   *)
(* is not synchronized may then be lost or kept, entry by entry.            *)
(***************************************************************************)
EXTENDS Naturals, Sequences, SequencesExt

CONSTANTS
  Recoverers, \* processes that record an intent
  Dumpers,    \* processes that write a dump (DumpPublication)
  Base,       \* levels that are published with a marker
  Strict,     \* the processes whose umask takes access from the owner
  NoOne

ASSUME PublicationAssumption ==
  /\ Base \in Nat \ {0} /\ Strict \subseteq Recoverers \cup Dumpers
  /\ Recoverers \cap Dumpers = {} /\ NoOne \notin Recoverers \cup Dumpers

Procs == Recoverers \cup Dumpers

Depth == Base + 1
Levels == 1..Depth

\* The dumpers write to one target, the recoverers to a file each.
Names == Recoverers \cup {NoOne}
File(p) == IF p \in Dumpers THEN NoOne ELSE p

\* "loose" is what was replaced without a flush: the power takes it.
Contents == {"none", "whole", "loose", "torn"}

VARIABLES
  dirs,     \* the directories that exist, 1..n
  open,     \* those their owner may enter
  marks,    \* level -> who created its pending marker
  files,    \* files of the owned directory: each its intent, all one dump
  synced,   \* [dirs, marks, files]: what is on stable storage
  stack,    \* calls of ensure_directory, innermost last
  pc,       \* what a process does besides
  temp,     \* its temporary file: "none", "written" or "flushed"
  promised, \* history: what a process was told of its intent
  maker,    \* history: who made each directory
  foreign   \* history: base levels a dump has made, levels a dump has removed

disk == <<dirs, open, marks, files, synced>>
history == <<promised, maker, foreign>>
vars == <<disk, stack, pc, temp, history>>

Frame == [level : Levels,
          at : {"look", "lookAgain", "mark", "mkdir", "access", "repair",
                "publish", "unmark", "erase"},
          mark : Procs \cup {NoOne}]

Stable == [dirs : SUBSET Levels, marks : [Levels -> Procs \cup {NoOne}],
           files : [Names -> Contents]]

Steps == {"idle", "base", "own", "ownAccess", "ownSync", "write",
          "replace", "syncFile", "syncGone",
          "dumpMkdir", "dumpWrite", "dumpReplace", "cleanup"}

Init ==
  /\ \E n \in 0..Base : dirs = 1..n
  /\ open = dirs
  /\ marks = [l \in Levels |-> NoOne]
  /\ files = [f \in Names |-> "none"]
  /\ synced = [dirs |-> dirs, marks |-> marks, files |-> files]
  /\ stack = [p \in Procs |-> <<>>]
  /\ pc = [p \in Procs |-> "idle"]
  /\ temp = [p \in Procs |-> "none"]
  /\ promised = [p \in Recoverers |-> "unknown"]
  /\ maker = [l \in Levels |-> NoOne] /\ foreign = {}

-----------------------------------------------------------------------------
(* The file system                                                         *)

\* Path resolution stops at the first level that is missing or closed.
Reachable(l) == \A k \in 1..(l - 1) : k \in dirs /\ k \in open
Denied(l) == \E k \in 1..(l - 1) : k \in dirs /\ k \notin open

\* fsync of the directory above l: the entry of l and of its marker.  The mode
\* of an entry is taken to be stored with it.
Synchronize(l) ==
  synced' = [synced EXCEPT
    !.dirs = IF l \in dirs THEN @ \cup {l} ELSE @, !.marks[l] = marks[l]]

\* os.replace: what was not flushed may be found torn later.
Renamed(p) ==
  /\ files' = [files EXCEPT ![File(p)] = IF temp[p] = "flushed" THEN "whole" ELSE "loose"]
  /\ temp' = [temp EXCEPT ![p] = "none"]

SynchronizeFiles(p) == synced' = [synced EXCEPT !.files[File(p)] = files[File(p)]]

-----------------------------------------------------------------------------
(* ensure_directory, for the state base                                    *)

Top(p) == Last(stack[p])
In(p, at) == pc[p] = "base" /\ stack[p] # <<>> /\ Top(p).at = at
Level(p) == Top(p).level

Inner(p) == Len(stack[p])

Asked(l) == [level |-> l, at |-> "look", mark |-> NoOne]

Becomes(p, frame) == stack' = [stack EXCEPT ![p][Inner(p)] = frame]
GoTo(p, at) == Becomes(p, [Top(p) EXCEPT !.at = at])
GoWith(p, at, mark) == Becomes(p, [Top(p) EXCEPT !.at = at, !.mark = mark])

\* The call for the level above; this one goes on at a point after it.
Call(p, then) ==
  stack' = [stack EXCEPT ![p] =
    Append([@ EXCEPT ![Inner(p)] = [Top(p) EXCEPT !.at = then]],
           Asked(Level(p) - 1))]

\* The last return leads to the owned directory.
Return(p) ==
  /\ stack' = [stack EXCEPT ![p] = Front(@)]
  /\ pc' = [pc EXCEPT ![p] = IF Len(stack[p]) = 1 THEN "own" ELSE @]

\* The call ends with an OSError; its temporary file is removed.
Abort(p) ==
  /\ stack' = [stack EXCEPT ![p] = <<>>]
  /\ pc' = [pc EXCEPT ![p] = "idle"]
  /\ temp' = [temp EXCEPT ![p] = "none"]
  /\ UNCHANGED <<disk, history>>

\* What a killed run left as a temporary file is followed no further.
Begin(p) ==
  /\ pc[p] = "idle"
  /\ pc' = [pc EXCEPT ![p] = "base"]
  /\ stack' = [stack EXCEPT ![p] = <<Asked(Base)>>]
  /\ temp' = [temp EXCEPT ![p] = "none"]
  /\ UNCHANGED <<disk, history>>

\* An ancestor nobody may enter may be a crash's remnant: it is ensured first,
\* and if that does not help the entry is inaccessible.
LookDenied(p) ==
  /\ In(p, "look") /\ Denied(Level(p))
  /\ Call(p, "lookAgain")
  /\ UNCHANGED <<disk, pc, temp, history>>

\* An existing entry is pending if it has a marker; a missing one is published
\* after the one above it.
Look(p) ==
  LET l == Level(p) IN
  /\ In(p, "look") \/ In(p, "lookAgain")
  /\ ~Denied(l)
  /\ IF l \in dirs
     THEN IF marks[l] = NoOne
          THEN Return(p)
          ELSE GoWith(p, "repair", marks[l]) /\ UNCHANGED pc
     ELSE /\ IF l = 1 THEN GoTo(p, "mark") ELSE Call(p, "mark")
          /\ UNCHANGED pc
  /\ UNCHANGED <<disk, temp, history>>

\* restore_owner_access of a pending entry
Repair(p) ==
  /\ In(p, "repair") /\ Level(p) \in dirs
  /\ open' = open \cup {Level(p)}
  /\ GoTo(p, "publish")
  /\ UNCHANGED <<dirs, marks, files, synced, pc, temp, history>>

\* _create_publication_marker, or the adoption of one that is there.
Mark(p) ==
  LET l == Level(p)
      mark == IF marks[l] = NoOne THEN p ELSE marks[l]
  IN /\ In(p, "mark") /\ Reachable(l)
     /\ marks' = [marks EXCEPT ![l] = mark]
     /\ GoWith(p, "mkdir", mark)
     /\ UNCHANGED <<dirs, open, files, synced, pc, temp, history>>

\* Only who creates the entry restores the access its umask took.
Mkdir(p) ==
  LET l == Level(p) IN
  /\ In(p, "mkdir") /\ Reachable(l)
  /\ dirs' = dirs \cup {l}
  /\ open' = IF l \in dirs \/ p \in Strict THEN open ELSE open \cup {l}
  /\ maker' = IF l \in dirs THEN maker ELSE [maker EXCEPT ![l] = p]
  /\ GoTo(p, IF l \in dirs THEN "publish" ELSE "access")
  /\ UNCHANGED <<marks, files, synced, pc, temp, promised, foreign>>

Access(p) ==
  /\ In(p, "access") /\ Level(p) \in dirs
  /\ open' = open \cup {Level(p)}
  /\ GoTo(p, "publish")
  /\ UNCHANGED <<dirs, marks, files, synced, pc, temp, history>>

\* Mutant of Publish: the marker goes before the parent is synchronized.
PublishLater(p) ==
  /\ In(p, "publish") /\ Reachable(Level(p))
  /\ GoTo(p, "unmark")
  /\ UNCHANGED <<disk, pc, temp, history>>

\* sync_directory(directory.parent); a failure leaves the marker in place.
Publish(p) ==
  /\ In(p, "publish") /\ Reachable(Level(p))
  /\ Synchronize(Level(p))
  /\ GoTo(p, "unmark")
  /\ UNCHANGED <<dirs, open, marks, files, pc, temp, history>>

\* _remove_publication_marker: gone already, replaced, or the one it knows.
Unmark(p) ==
  LET l == Level(p) IN
  /\ In(p, "unmark")
  /\ IF marks[l] = NoOne THEN Return(p) /\ UNCHANGED <<disk, temp, history>>
     ELSE IF marks[l] # Top(p).mark THEN Abort(p)
     ELSE GoTo(p, "erase") /\ UNCHANGED <<disk, pc, temp, history>>

Erase(p) ==
  /\ In(p, "erase")
  /\ marks' = [marks EXCEPT ![Level(p)] = NoOne]
  /\ Return(p)
  /\ UNCHANGED <<dirs, open, files, synced, temp, history>>

-----------------------------------------------------------------------------
(* The owned directory, and the record in it                               *)

Doing(p, step) == pc[p] = step
Then(p, step) == pc' = [pc EXCEPT ![p] = step] /\ UNCHANGED stack

\* Mutant of OwnMkdir: an entry that is there already is trusted.
OwnMkdirIfMissing(p) ==
  /\ Doing(p, "own") /\ Reachable(Depth)
  /\ dirs' = dirs \cup {Depth}
  /\ open' = IF Depth \in dirs \/ p \in Strict THEN open ELSE open \cup {Depth}
  /\ maker' = IF Depth \in dirs THEN maker ELSE [maker EXCEPT ![Depth] = p]
  /\ Then(p, IF Depth \in dirs THEN "write" ELSE "ownAccess")
  /\ UNCHANGED <<marks, files, synced, temp, promised, foreign>>

OwnMkdir(p) ==
  /\ Doing(p, "own") /\ Reachable(Depth)
  /\ dirs' = dirs \cup {Depth}
  /\ open' = IF Depth \in dirs \/ p \in Strict THEN open ELSE open \cup {Depth}
  /\ maker' = IF Depth \in dirs THEN maker ELSE [maker EXCEPT ![Depth] = p]
  /\ Then(p, "ownAccess")
  /\ UNCHANGED <<marks, files, synced, temp, promised, foreign>>

OwnAccess(p) ==
  /\ Doing(p, "ownAccess") /\ Depth \in dirs
  /\ open' = open \cup {Depth}
  /\ Then(p, "ownSync")
  /\ UNCHANGED <<dirs, marks, files, synced, temp, history>>

\* It may remain from an interrupted mkdir: always synchronized.
OwnSync(p) ==
  /\ Doing(p, "ownSync")
  /\ Synchronize(Depth)
  /\ Then(p, "write")
  /\ UNCHANGED <<dirs, open, marks, files, temp, history>>

\* _publish: the temporary file, written and flushed.
Write(p) ==
  /\ Doing(p, "write") /\ Reachable(Depth) /\ Depth \in open
  /\ temp' = [temp EXCEPT ![p] = "flushed"]
  /\ Then(p, "replace")
  /\ UNCHANGED <<disk, history>>

Replace(p) ==
  /\ Doing(p, "replace")
  /\ Renamed(p)
  /\ promised' = [promised EXCEPT ![p] = IF @ = "absent" THEN "unknown" ELSE @]
  /\ Then(p, "syncFile")
  /\ UNCHANGED <<dirs, open, marks, synced, maker, foreign>>

\* The run goes on with its intent on disk.
SyncFile(p) ==
  /\ Doing(p, "syncFile")
  /\ SynchronizeFiles(p)
  /\ promised' = [promised EXCEPT ![p] = "present"]
  /\ Then(p, "idle")
  /\ UNCHANGED <<dirs, open, marks, files, temp, maker, foreign>>

\* finish(), by the run that recorded the intent or by a later one.
Unlink(p) ==
  /\ Doing(p, "idle") /\ Reachable(Depth) /\ Depth \in dirs \cap open
  /\ files[p] # "none"
  /\ files' = [files EXCEPT ![p] = "none"]
  /\ promised' = [promised EXCEPT ![p] = "unknown"]
  /\ Then(p, "syncGone")
  /\ UNCHANGED <<dirs, open, marks, synced, temp, maker, foreign>>

SyncGone(p) ==
  /\ Doing(p, "syncGone")
  /\ SynchronizeFiles(p)
  /\ promised' = [promised EXCEPT ![p] = "absent"]
  /\ Then(p, "idle")
  /\ UNCHANGED <<dirs, open, marks, files, temp, maker, foreign>>

-----------------------------------------------------------------------------

\* A call that meets a closed or a missing directory, or whose system call
\* fails, ends with an error.
Fails(p) == pc[p] # "idle" /\ Abort(p)

\* A killed process leaves its temporary file.
Killed(p) ==
  /\ pc[p] # "idle"
  /\ stack' = [stack EXCEPT ![p] = <<>>]
  /\ pc' = [pc EXCEPT ![p] = "idle"]
  /\ UNCHANGED <<disk, temp, history>>

\* The machine stops.  An entry that is not synchronized is there or not, and
\* what is below a lost one is lost.  ensure_directory trusts what it finds
\* unmarked, and does not look above it: where a dump has made a base level, or
\* its cleanup has taken a level away, the path is beyond what it promises.
PowerLoss ==
  /\ \E n \in {k \in 0..Depth : 1..k \subseteq dirs /\ k + 1 \notin synced.dirs} :
       /\ dirs' = 1..n
       /\ promised' = IF \E l \in foreign : l > n
                      THEN [p \in Recoverers |-> "unknown"] ELSE promised
  /\ open' = open \cap dirs' /\ foreign' = foreign \cap dirs'
  /\ maker' = [l \in Levels |-> IF l \in dirs' THEN maker[l] ELSE NoOne]
  /\ \E kept \in SUBSET {l \in Levels : marks[l] # synced.marks[l]} :
       marks' = [l \in Levels |-> IF l - 1 \notin dirs' \cup {0} THEN NoOne
                                  ELSE IF l \in kept THEN marks[l] ELSE synced.marks[l]]
  /\ files' \in [Names -> {"none", "whole", "torn"}]
  /\ \A f \in Names :
       files'[f] \in IF Depth \notin dirs' THEN {"none"}
                     ELSE UNION {IF c = "loose" THEN {"whole", "torn"} ELSE {c} :
                                   c \in {files[f], synced.files[f]}}
  /\ synced' = [dirs |-> dirs', marks |-> marks', files |-> files']
  /\ stack' = [p \in Procs |-> <<>>]
  /\ pc' = [p \in Procs |-> "idle"]
  /\ temp' = [p \in Procs |-> "none"]

EnsureBase(p) ==
  \/ Begin(p) \/ LookDenied(p) \/ Look(p) \/ Repair(p) \/ Mark(p) \/ Mkdir(p)
  \/ Access(p) \/ Publish(p) \/ Unmark(p) \/ Erase(p)

Record(p) ==
  \/ OwnMkdir(p) \/ OwnAccess(p) \/ OwnSync(p)
  \/ Write(p) \/ Replace(p) \/ SyncFile(p)
  \/ Unlink(p) \/ SyncGone(p)

Recovery(p) == EnsureBase(p) \/ Record(p)
Stops(p) == Fails(p) \/ Killed(p)

Next == (\E p \in Recoverers : Recovery(p) \/ Stops(p)) \/ PowerLoss

Spec == Init /\ [][Next]_vars

\* The machine keeps running: what a killed process alone leaves behind.
RunningSpec == Init /\ [][\E p \in Recoverers : Recovery(p) \/ Stops(p)]_vars

-----------------------------------------------------------------------------
(* Properties                                                              *)

TypeOK ==
  /\ dirs \subseteq Levels /\ open \subseteq dirs
  /\ marks \in [Levels -> Procs \cup {NoOne}]
  /\ files \in [Names -> Contents]
  /\ synced \in Stable /\ synced.dirs \subseteq dirs
  /\ stack \in [Procs -> Seq(Frame)]
  /\ pc \in [Procs -> Steps]
  /\ temp \in [Procs -> {"none", "written", "flushed"}]
  /\ promised \in [Recoverers -> {"unknown", "present", "absent"}]
  /\ maker \in [Levels -> Procs \cup {NoOne}] /\ foreign \subseteq Levels

\* A base directory that the power could still take has its marker: whoever
\* finds it there, after a crash or beside its maker, knows that it is not
\* published yet.
UnpublishedIsMarked ==
  \A l \in 1..Base :
    l \in dirs \ (synced.dirs \cup foreign) => marks[l] # NoOne

\* What begin() and finish() have returned for holds whatever is killed or
\* loses its power then, although a directory may have been made by another
\* process that was killed before it synchronized it.
SavedSurvives ==
  \A p \in Recoverers :
    /\ promised[p] = "present" => files[p] = "whole"
    /\ promised[p] = "absent" => files[p] = "none"

\* docs/REFERENCE.md, on pending markers: "a later invocation can finish
\* owner-access repair after a process dies immediately following mkdir,
\* including under restrictive umasks".  So a base directory that its owner
\* may not enter has a marker, or somebody is about to restore its access.
StoppedCreationIsRepairable ==
  \A l \in dirs \ open :
    l <= Base => \/ marks[l] # NoOne
                \/ \E p \in Recoverers :
                     (In(p, "access") \/ In(p, "repair")) /\ Level(p) = l

-----------------------------------------------------------------------------
(* The inductive invariant (DumpPublication adds what the dumpers know)     *)

\* The levels down to l are on stable storage, or beyond what is promised.
Published(l) ==
  \A k \in 1..l : k \in synced.dirs \/ \E m \in foreign : k <= m

\* Each parent is published before a child is created.
TreeKnown ==
  /\ \A l \in dirs : \A k \in 1..l : k \in dirs
  /\ \A l \in dirs : l <= Base => Published(l - 1)

\* What the innermost call of ensure_directory can rely on.
Reached(frame) ==
  LET l == frame.level IN
  /\ frame.at \in {"mark", "mkdir"} => Published(l - 1)
  /\ frame.at = "mkdir" => marks[l] # NoOne \/ l \in dirs \cup foreign
  /\ frame.at \in {"access", "repair", "publish"} => l \in dirs \cup foreign
  /\ frame.at \in {"unmark", "erase"} => l \in synced.dirs \cup foreign

\* The others wait for it, each for the level above its own.
CallKnown(p) ==
  /\ pc[p] = "base" <=> stack[p] # <<>>
  /\ \A i \in 1..Len(stack[p]) : stack[p][i].level = Base + 1 - i
  /\ \A i \in 1..(Len(stack[p]) - 1) : stack[p][i].at \in {"lookAgain", "mark"}
  /\ stack[p] # <<>> => Reached(Top(p))

CallsKnown == \A p \in Procs : CallKnown(p)

\* What a process has behind it when it comes to a step of its own.
StepKnown(p) ==
  /\ pc[p] \in {"own", "ownAccess", "ownSync"} => Published(Base)
  /\ pc[p] \in {"ownAccess", "ownSync"} => Depth \in dirs \cup foreign
  /\ pc[p] \in {"write", "replace", "syncFile"} => Published(Depth)
  /\ pc[p] = "replace" => temp[p] = "flushed"
  /\ pc[p] = "syncFile" => files[p] = "whole"
  /\ pc[p] = "syncGone" => files[p] = "none"

RecordKnown == \A p \in Recoverers : StepKnown(p)

\* Nothing torn is ever under a name, and no file is outside its directory.
FilesKnown ==
  /\ \A f \in Names : /\ files[f] \in {"none", "whole"}
                      /\ synced.files[f] \in {"none", "whole"}
  /\ (\E f \in Names : files[f] # "none") => Depth \in dirs
  /\ (\E p \in Procs : temp[p] # "none") => Depth \in dirs

\* What was promised is on stable storage, on a path that is.
PromiseKnown(p) ==
  /\ promised[p] = "present" =>
       files[p] = "whole" /\ synced.files[p] = "whole" /\ Published(Depth)
  /\ promised[p] = "absent" => files[p] = "none" /\ synced.files[p] = "none"

PromisesKnown == \A p \in Recoverers : PromiseKnown(p)
=============================================================================
