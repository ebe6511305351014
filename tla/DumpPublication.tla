--------------------------- MODULE DumpPublication ---------------------------
(***************************************************************************)
(* write_dump_file of dumpfile.py beside DirectoryPublication: by default   *)
(* the dumps go to a sibling of the recovery directory, so a dump makes and *)
(* cleans up directories on the path that ensure_directory publishes.  All  *)
(* dumpers are given the same target; the temporary names are their own.    *)
(***************************************************************************)
EXTENDS DirectoryPublication

VARIABLE
  chain     \* a dumper's missing components, and those it created itself

dumpVars == <<vars, chain>>

Chains == [todo : SUBSET Levels, created : SUBSET Levels]
NoChain == [todo |-> {}, created |-> {}]

DumpInit == Init /\ chain = [d \in Dumpers |-> NoChain]

GoOn(d, step) == pc' = [pc EXCEPT ![d] = step] /\ UNCHANGED stack

\* What it created is removed again, if it is empty.
CleanUp(d) ==
  /\ GoOn(d, IF chain[d].created = {} THEN "idle" ELSE "cleanup")
  /\ chain' = [chain EXCEPT ![d].todo = {}]

\* _missing_path_components, once the target has passed preflight_dump_target.
Scan(d) ==
  /\ Doing(d, "idle") /\ ~Denied(Depth)
  /\ GoOn(d, "dumpMkdir")
  /\ chain' = [chain EXCEPT ![d] = [todo |-> Levels \ dirs, created |-> {}]]
  /\ temp' = [temp EXCEPT ![d] = "none"]
  /\ UNCHANGED <<disk, history>>

\* Mutant of Component: a component that appeared meanwhile counts as created.
ComponentAnyway(d) ==
  /\ Doing(d, "dumpMkdir")
  /\ \E l \in chain[d].todo :
       /\ \A k \in chain[d].todo : l <= k
       /\ Reachable(l)
       /\ dirs' = dirs \cup {l}
       /\ open' = IF l \in dirs \/ d \in Strict THEN open ELSE open \cup {l}
       /\ maker' = IF l \in dirs THEN maker ELSE [maker EXCEPT ![l] = d]
       /\ foreign' = foreign \cup ({l} \ (dirs \cup {Depth}))
       /\ chain' = [chain EXCEPT ![d] =
            [todo |-> @.todo \ {l}, created |-> @.created \cup {l}]]
  /\ UNCHANGED <<marks, files, synced, stack, pc, temp, promised>>

\* One component's mkdir.  One that appeared since the scan is somebody else's.
Component(d) ==
  /\ Doing(d, "dumpMkdir")
  /\ \E l \in chain[d].todo :
       /\ \A k \in chain[d].todo : l <= k
       /\ Reachable(l)
       /\ dirs' = dirs \cup {l}
       /\ open' = IF l \in dirs \/ d \in Strict THEN open ELSE open \cup {l}
       /\ maker' = IF l \in dirs THEN maker ELSE [maker EXCEPT ![l] = d]
       /\ foreign' = foreign \cup ({l} \ (dirs \cup {Depth}))
       /\ chain' = [chain EXCEPT ![d] =
            [todo |-> @.todo \ {l}, created |-> @.created \cup ({l} \ dirs)]]
  /\ UNCHANGED <<marks, files, synced, stack, pc, temp, promised>>

\* chmod 0700 of what it created
Chmod(d) ==
  /\ Doing(d, "dumpMkdir") /\ chain[d].todo = {} /\ chain[d].created \subseteq dirs
  /\ open' = open \cup chain[d].created
  /\ GoOn(d, "dumpWrite")
  /\ UNCHANGED <<dirs, marks, files, synced, temp, history, chain>>

\* Mutant of DumpWrite: no fsync before the rename.
DumpWriteUnflushed(d) ==
  /\ Doing(d, "dumpWrite") /\ Reachable(Depth) /\ Depth \in dirs \cap open
  /\ temp' = [temp EXCEPT ![d] = "written"]
  /\ GoOn(d, "dumpReplace")
  /\ UNCHANGED <<disk, history, chain>>

DumpWrite(d) ==
  /\ Doing(d, "dumpWrite") /\ Reachable(Depth) /\ Depth \in dirs \cap open
  /\ temp' = [temp EXCEPT ![d] = "flushed"]
  /\ GoOn(d, "dumpReplace")
  /\ UNCHANGED <<disk, history, chain>>

\* The target is in place, even if its chmod fails and the rest is cleaned up.
DumpReplace(d) ==
  /\ Doing(d, "dumpReplace")
  /\ Renamed(d)
  /\ \/ GoOn(d, "idle") /\ chain' = [chain EXCEPT ![d] = NoChain]
     \/ CleanUp(d)
  /\ UNCHANGED <<dirs, open, marks, synced, history>>

\* Any error, or an interrupt.
DumpFails(d) ==
  /\ pc[d] \in {"dumpMkdir", "dumpWrite", "dumpReplace"}
  /\ temp' = [temp EXCEPT ![d] = "none"]
  /\ CleanUp(d)
  /\ UNCHANGED <<disk, history>>

\* rmdir refuses what is not empty.
Empty(l) ==
  /\ \A k \in dirs : k <= l
  /\ l < Depth => marks[l + 1] = NoOne
  /\ l = Depth => /\ \A f \in Names : files[f] = "none"
                  /\ \A p \in Procs : temp[p] = "none"

Removed(l) ==
  /\ dirs' = dirs \ {l} /\ open' = open \ {l}
  /\ maker' = [maker EXCEPT ![l] = NoOne] /\ foreign' = foreign \cup {l}
  /\ synced' = [synced EXCEPT
       !.dirs = @ \ {l},
       !.marks = [k \in Levels |-> IF k > l THEN NoOne ELSE @[k]],
       !.files = [f \in Names |-> "none"]]

\* Only what this call created, the deepest first.
Rmdir(d) ==
  /\ Doing(d, "cleanup")
  /\ \E l \in chain[d].created :
       /\ \A k \in chain[d].created : k <= l
       /\ chain' = [chain EXCEPT ![d].created = @ \ {l}]
       /\ GoOn(d, IF chain[d].created = {l} THEN "idle" ELSE "cleanup")
       /\ IF l \in dirs /\ Reachable(l) /\ Empty(l)
          THEN Removed(l) ELSE UNCHANGED <<dirs, open, maker, foreign, synced>>
  /\ UNCHANGED <<marks, files, temp, promised>>

DumpKilled(d) ==
  /\ pc[d] # "idle"
  /\ GoOn(d, "idle")
  /\ chain' = [chain EXCEPT ![d] = NoChain]
  /\ UNCHANGED <<disk, temp, history>>

Dump(d) ==
  \/ Scan(d) \/ Component(d) \/ Chmod(d)
  \/ DumpWrite(d) \/ DumpReplace(d) \/ Rmdir(d)

Works(p) ==
  \/ p \in Recoverers /\ Recovery(p) /\ UNCHANGED chain
  \/ p \in Dumpers /\ Dump(p)

Breaks(p) ==
  \/ p \in Recoverers /\ Stops(p) /\ UNCHANGED chain
  \/ p \in Dumpers /\ (DumpFails(p) \/ DumpKilled(p))

MachineStops == PowerLoss /\ chain' = [d \in Dumpers |-> NoChain]

DumpNext == (\E p \in Procs : Works(p) \/ Breaks(p)) \/ MachineStops

DumpSpec == DumpInit /\ [][DumpNext]_dumpVars

-----------------------------------------------------------------------------
(* Properties                                                              *)

\* Besides what begin() and finish() promise: whoever reads the target of a dump
\* finds a whole dump or none.  Both with several writers, kills and power losses
\* at any point.
FilesSurvive == SavedSurvives /\ files[NoOne] \in {"none", "whole"}

\* A failed dump takes away no directory but its own: one that another dump or
\* an ensure_directory made between its scan and its mkdir stays.
CleanupTakesOnlyItsOwn ==
  [][\A l \in dirs \ dirs' :
       PowerLoss \/ \E d \in Dumpers : pc[d] = "cleanup" /\ maker[l] = d]_dumpVars

\* A dumper has no call of ensure_directory, flushes before it renames, and
\* what it created is there and its own.
DumpKnown(d) ==
  /\ pc[d] \in {"idle", "dumpMkdir", "dumpWrite", "dumpReplace", "cleanup"}
  /\ pc[d] = "dumpReplace" => temp[d] = "flushed"
  /\ \A l \in chain[d].created : l \in dirs /\ maker[l] = d

DumpsKnown == chain \in [Dumpers -> Chains] /\ \A d \in Dumpers : DumpKnown(d)

\* The inductive invariant.
PublicationInv ==
  /\ TypeOK /\ UnpublishedIsMarked
  /\ TreeKnown /\ CallsKnown /\ RecordKnown
  /\ FilesKnown /\ PromisesKnown /\ DumpsKnown
=============================================================================
