-------------------------- MODULE SessionLockProofs --------------------------
(***************************************************************************)
(* Proofs about SessionLock for every set of calls, finite or not, modern  *)
(* or legacy.  LockInv is inductive; the safety properties and the         *)
(* refinement of SessionMutex follow from it.                              *)
(***************************************************************************)
EXTENDS SessionLock, TLAPS

\* The initial state satisfies the inductive invariant.
LEMMA InitInv == Init => LockInv
BY LockAssumption
   DEF Init, LockInv, TypeOK, GuardOwned, FlockOwned, MarkerOwned,
       HolderKeepsMarker, LegacyHonest, SeenAbandoned, Points, Guarded,
       Holding, Acquiring, Releasing, Over, Modern

\* Every step of a call or of its environment preserves the inductive
\* invariant.  The steps that matter are Reclaim, which must remove only an
\* abandoned marker (SeenAbandoned), and Link, which must find none.
LEMMA StepInv ==
  ASSUME LockInv, [Next]_vars
  PROVE  LockInv'
<1> USE LockAssumption
    DEF LockInv, TypeOK, GuardOwned, FlockOwned, MarkerOwned,
        HolderKeepsMarker, LegacyHonest, SeenAbandoned, Points, Guarded,
        Holding, Acquiring, Releasing, Over, Modern
<1>1. ASSUME NEW c \in Calls, c \in Modern, Start(c)
      PROVE  LockInv'
  BY <1>1 DEF Start, Goto
<1>2. ASSUME NEW c \in Calls, TakeGuard(c)
      PROVE  LockInv'
  BY <1>2 DEF TakeGuard, Goto
<1>3. ASSUME NEW c \in Calls, Inspect(c)
      PROVE  LockInv'
  BY <1>3 DEF Inspect, Goto, Abandoned, PidReused
<1>4. ASSUME NEW c \in Calls, Recheck(c)
      PROVE  LockInv'
  BY <1>4 DEF Recheck, Goto
<1>5. ASSUME NEW c \in Calls, Reclaim(c)
      PROVE  LockInv'
  BY <1>5 DEF Reclaim, Goto
<1>6. ASSUME NEW c \in Calls, CreateRecord(c)
      PROVE  LockInv'
  BY <1>6 DEF CreateRecord, Goto
<1>7. ASSUME NEW c \in Calls, Link(c)
      PROVE  LockInv'
  BY <1>7 DEF Link, Goto
<1>8. ASSUME NEW c \in Calls, LinkRefused(c)
      PROVE  LockInv'
  BY <1>8 DEF LinkRefused, Goto
<1>9. ASSUME NEW c \in Calls, LinkLost(c)
      PROVE  LockInv'
  BY <1>9 DEF LinkLost, Goto
<1>10. ASSUME NEW c \in Calls, Adopt(c)
       PROVE  LockInv'
  BY <1>10 DEF Adopt, Goto
<1>11. ASSUME NEW c \in Calls, Finish(c)
       PROVE  LockInv'
  BY <1>11 DEF Finish, Goto
<1>12. ASSUME NEW c \in Calls, GiveUp(c)
       PROVE  LockInv'
  BY <1>12 DEF GiveUp, Goto, FreeGuard
<1>13. ASSUME NEW c \in Calls, Verify(c)
       PROVE  LockInv'
  BY <1>13 DEF Verify, Goto, OwnsMarker
<1>14. ASSUME NEW c \in Calls, Erase(c)
       PROVE  LockInv'
  BY <1>14 DEF Erase, Goto
<1>15. ASSUME NEW c \in Calls, Close(c)
       PROVE  LockInv'
  BY <1>15 DEF Close, Goto
<1>16. ASSUME NEW c \in Calls, TimeOut(c)
       PROVE  LockInv'
  BY <1>16 DEF TimeOut, Goto
<1>17. ASSUME NEW c \in Calls, Fault(c)
       PROVE  LockInv'
  BY <1>17 DEF Fault, Goto, FreeGuard
<1>18. ASSUME NEW c \in Calls, Crash(c)
       PROVE  LockInv'
  BY <1>18 DEF Crash, Goto, FreeGuard
<1>19. ASSUME NEW c \in Calls, Age(c)
       PROVE  LockInv'
  BY <1>19 DEF Age
<1>20. ASSUME NEW c \in Calls, LegacyReserve(c)
       PROVE  LockInv'
  BY <1>20 DEF LegacyReserve, Goto
<1>21. ASSUME NEW c \in Calls, LegacyRecord(c)
       PROVE  LockInv'
  BY <1>21 DEF LegacyRecord, Goto
<1>22. ASSUME NEW c \in Calls, LegacyRelease(c)
       PROVE  LockInv'
  BY <1>22 DEF LegacyRelease, Goto
<1>23. CASE UNCHANGED vars
  BY <1>23 DEF vars
<1>q. QED
  BY <1>1, <1>2, <1>3, <1>4, <1>5, <1>6, <1>7, <1>8, <1>9, <1>10, <1>11,
     <1>12, <1>13, <1>14, <1>15, <1>16, <1>17, <1>18, <1>19, <1>20,
     <1>21, <1>22, <1>23
     DEF Next, PatientNext, Step, Environment

\* Every reachable state satisfies the inductive invariant.
THEOREM LockInvariant == Spec => []LockInv
<1>1. LockInv /\ [Next]_vars => LockInv'
  BY StepInv
<1>2. QED
  BY InitInv, <1>1, PTL DEF Spec

\* The variables keep their types.
THEOREM TypeCorrect == Spec => []TypeOK
<1>1. LockInv => TypeOK
  BY DEF LockInv
<1>2. QED
  BY LockInvariant, <1>1, PTL

\* The published marker of a live call stays in place, with its flock.
THEOREM MarkerKept == Spec => []HolderKeepsMarker
<1>1. LockInv => HolderKeepsMarker
  BY DEF LockInv, MarkerOwned
<1>2. QED
  BY LockInvariant, <1>1, PTL

\* Two calls never use the router session at once: both would be named by
\* the one marker.
THEOREM Exclusion == Spec => []MutualExclusion
<1>1. HolderKeepsMarker => MutualExclusion
  BY DEF HolderKeepsMarker, MutualExclusion, Holding
<1>2. QED
  BY MarkerKept, <1>1, PTL

\* A marker that disappears was erased by its own call or let go of by it.
THEOREM ReclaimSafety == Spec => OnlyAbandonedMarkersReclaimed
<1> DEFINE Removed ==
      marker # NoCall /\ marker' # marker =>
        \/ pc[marker] = "erase" /\ pc'[marker] = "close"
        \/ pc[marker] \in Over
        \/ marker \in LegacyCalls /\ pc'[marker] = "done"
<1>1. LockInv /\ [Next]_vars => [Removed]_vars
  <2> SUFFICES ASSUME LockInv, Next, marker # NoCall, marker' # marker
               PROVE  Removed
    BY DEF vars
  <2> USE DEF LockInv, TypeOK, MarkerOwned, HolderKeepsMarker, SeenAbandoned
  <2>1. PICK c \in Calls :
          \/ Reclaim(c)
          \/ Erase(c)
          \/ LegacyRelease(c)
    BY DEF Next, PatientNext, Step, Environment, Start, TakeGuard, Inspect,
           Recheck, CreateRecord, Link, LinkRefused, LinkLost, Adopt, Finish,
           GiveUp, Verify, Close, TimeOut, Fault, Crash, Age, LegacyReserve,
           LegacyRecord
  <2>2. CASE Reclaim(c)
    BY <2>2 DEF Reclaim
  <2>3. CASE Erase(c)
    BY <2>3 DEF Erase, Goto, Holding
  <2>4. CASE LegacyRelease(c)
    BY <2>4 DEF LegacyRelease, Goto
  <2>5. QED
    BY <2>1, <2>2, <2>3, <2>4
<1>2. QED
  BY LockInvariant, <1>1, PTL DEF Spec, OnlyAbandonedMarkersReclaimed

\* A step that moves one call changes the abstract status of that call only.
LEMMA StatusMoves ==
  ASSUME NEW c \in Calls, NEW p, pc \in [Calls -> Points],
         pc' = [pc EXCEPT ![c] = p]
  PROVE  status' = [status EXCEPT ![c] = StatusAt(p)]
BY DEF status

\* The lock files implement the abstract mutual exclusion.
THEOREM Refinement == Spec => ImplementsMutex
<1> USE LockAssumption
<1>1. Init => Mutex!Init
  BY DEF Init, Mutex!Init, status, StatusAt
<1>2. LockInv /\ LockInv' /\ [Next]_vars => [Mutex!Next]_status
  <2> SUFFICES ASSUME LockInv, LockInv', [Next]_vars, status' # status
               PROVE  Mutex!Next
    OBVIOUS
  <2>0. \A d \in Calls : status[d] = StatusAt(pc[d])
    BY DEF status
  <2>1. PICK c \in Calls :
          \/ Start(c) \/ LegacyReserve(c)
          \/ Adopt(c) \/ LegacyRecord(c)
          \/ Finish(c) \/ LegacyRelease(c) \/ LinkLost(c) \/ TimeOut(c)
          \/ Fault(c) \/ Crash(c)
    <3>1. ASSUME NEW d \in Calls, NEW p, pc' = [pc EXCEPT ![d] = p],
                 StatusAt(p) = StatusAt(pc[d])
          PROVE  FALSE
      <4>1. status' = [status EXCEPT ![d] = status[d]]
        BY <2>0, <3>1, StatusMoves DEF LockInv, TypeOK
      <4>2. QED
        BY <4>1 DEF status
    <3>2. pc' # pc
      BY DEF status
    <3>3. PICK d \in Calls : Step(d) \/ Fault(d) \/ Environment(d)
                             \/ Start(d) \/ TimeOut(d)
      BY <3>2 DEF Next, PatientNext, vars
    <3>4. QED
      BY <3>1, <3>2, <3>3
         DEF Step, Environment, TakeGuard, Inspect, Recheck, Reclaim,
             CreateRecord, Link, LinkRefused, GiveUp, Verify, Erase, Close,
             Age, Goto, StatusAt, Acquiring, Releasing
  <2> USE DEF LockInv, TypeOK, Goto, StatusAt, Acquiring, Over
  <2>2. CASE Start(c) \/ LegacyReserve(c)
    <3>1. status[c] = "idle"
      BY <2>0, <2>2 DEF Start, LegacyReserve
    <3>2. status' = [status EXCEPT ![c] = "waiting"]
      <4>1. PICK p \in {"ask", "reserved"} : pc' = [pc EXCEPT ![c] = p]
        BY <2>2 DEF Start, LegacyReserve
      <4>2. QED
        BY <4>1, StatusMoves
    <3>3. QED
      BY <3>1, <3>2 DEF Mutex!Next, Mutex!Request
  <2>3. CASE Adopt(c) \/ LegacyRecord(c)
    <3>1. \A d \in Calls : pc[d] # "run"
      BY <2>3 DEF MarkerOwned, HolderKeepsMarker, Adopt, LegacyRecord,
                  Holding
    <3>2. \A d \in Calls : status[d] # "holding"
      BY <2>0, <3>1
    <3>3. status[c] = "waiting"
      BY <2>0, <2>3 DEF Adopt, LegacyRecord
    <3>4. status' = [status EXCEPT ![c] = "holding"]
      BY <2>3, StatusMoves DEF Adopt, LegacyRecord
    <3>5. QED
      BY <3>2, <3>3, <3>4 DEF Mutex!Next, Mutex!Grant
  <2>4. CASE \/ Finish(c) \/ LegacyRelease(c) \/ LinkLost(c) \/ TimeOut(c)
             \/ Fault(c) \/ Crash(c)
    <3>1. PICK p \in {"release"} \cup Over : pc' = [pc EXCEPT ![c] = p]
      BY <2>4 DEF Finish, LegacyRelease, LinkLost, TimeOut, Fault, Crash
    <3>2. status' = [status EXCEPT ![c] = "ended"]
      BY <3>1, StatusMoves
    <3>3. status[c] # "idle"
      BY <2>0, <2>4 DEF Finish, LegacyRelease, LinkLost, TimeOut, Fault, Crash
    <3>4. status[c] # "ended"
      BY <3>2 DEF status
    <3>5. status[c] \in {"waiting", "holding"}
      BY <2>0, <3>3, <3>4
    <3>6. QED
      BY <3>2, <3>5 DEF Mutex!Next, Mutex!End
  <2>5. QED
    BY <2>1, <2>2, <2>3, <2>4
<1>3. QED
  BY LockInvariant, <1>1, <1>2, PTL DEF Spec, ImplementsMutex, Mutex!Spec
==============================================================================
