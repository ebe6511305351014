--------------------------- MODULE AutorestoreProofs ---------------------------
(***************************************************************************)
(* Proofs about Autorestore for every dump, every choice of voting and     *)
(* address-bound items and every number of passes.  RunInv is inductive;   *)
(* each of its parts is preserved by a lemma of its own, which goes        *)
(* through the actions of Next.                                            *)
(***************************************************************************)
EXTENDS AutorestoreInvariant, TLAPS

-----------------------------------------------------------------------------
(* Types                                                                   *)

\* A fingerprint of anything the run knows is one that a record may hold.
LEMMA ShapesTyped ==
  ASSUME TypeOK,
         NEW kind \in {"reconnect", "verification", "pre-send", "step",
                       "not-converged", "allocation"}
  PROVE  \A item \in {run.item, NoItem}, open \in {run.seen, {}} :
           Shape(kind, item, open) \in Failures
<1>1. run.item \in Items \cup {NoItem} /\ run.seen \in SUBSET Items
  BY DEF TypeOK, Runs
<1>2. QED
  BY <1>1 DEF Shape, Failures

\* The operations of recovery_state.py keep the record a record.
LEMMA RecordsTyped ==
  /\ NoIntent \in Records /\ NoStreak \in Streaks
  /\ \A r \in Records :
       /\ Begun(r) \in Records
       /\ Finished(r) \in Records
       /\ \A shape \in Failures :
            /\ Failed(r, shape) \in Records
            /\ Failed(r, shape).shape = shape
            /\ Failed(r, shape).count \in Nat
BY DEF NoIntent, Record, Records, Owners, Begun, Finished, Failed, Active,
       NoStreak, Streaks

\* What a step that may end the run assigns.
RunTyped ==
  /\ pc' \in Points /\ run' \in Runs
  /\ late' \in BOOLEAN /\ status' \in Statuses

IntentTyped == record' \in Records /\ streak' \in Streaks

\* A run that ends leaves a well-typed state behind.
LEMMA EndTyped ==
  ASSUME NEW st \in Statuses, End(st)
  PROVE  RunTyped
BY DEF RunTyped, End, Points, Runs, NoRun, Stops

\* So does counting its failure, whether or not that works.
LEMMA CountTyped ==
  ASSUME TypeOK, NEW st \in Statuses, NEW shape \in Failures,
         NEW structural \in BOOLEAN, Count(st, shape, structural)
  PROVE  IntentTyped /\ RunTyped
<1>1. "error" \in Statuses
  BY DEF Statuses
<1>2. Failed(record, shape) \in Records
  BY RecordsTyped DEF TypeOK
<1>3. \E s \in Statuses : End(s)
  BY <1>1 DEF Count
<1>4. record' \in Records
  BY <1>2 DEF Count, Keep, TypeOK
<1>5. streak' \in Streaks
  BY <1>2, RecordsTyped DEF Count, Keep, TypeOK, Streaks, Records
<1>6. QED
  BY <1>3, <1>4, <1>5, EndTyped DEF IntentTyped

\* Removing the intent, and then ending the run or going on.
LEMMA FinishTyped ==
  ASSUME TypeOK, NEW st \in Statuses, FinishThen(End(st))
  PROVE  IntentTyped /\ RunTyped
<1>1. "error" \in Statuses
  BY DEF Statuses
<1>2. RunTyped
  BY <1>1, EndTyped DEF FinishThen
<1>3. IntentTyped
  BY RecordsTyped DEF FinishThen, TypeOK, IntentTyped
<1>4. QED
  BY <1>2, <1>3

\* The two ways to stop at the time limit.
LEMMA DeadlineTyped ==
  ASSUME TypeOK, StopForDeadline \/ EndPasses
  PROVE  IntentTyped /\ RunTyped
<1>1. "not-converged" \in Statuses /\ "converged" \in Statuses
  BY DEF Statuses
<1>2. Shape("not-converged", NoItem, run.seen) \in Failures
  BY ShapesTyped
<1>3. ASSUME Keep, End("not-converged")
      PROVE  IntentTyped /\ RunTyped
  BY <1>1, <1>3, EndTyped DEF Keep, TypeOK, IntentTyped
<1>4. CASE StopForDeadline
  BY <1>1, <1>2, <1>3, <1>4, CountTyped, FinishTyped
     DEF StopForDeadline, DiscardThen
<1>5. CASE EndPasses
  BY <1>1, <1>2, <1>3, <1>5, CountTyped DEF EndPasses
<1>6. QED
  BY <1>4, <1>5

\* The bookkeeping of a step's outcome.
LEMMA StepTyped ==
  ASSUME TypeOK, NEW i \in Items
  PROVE  /\ Posted(i) \in Logs
         /\ Writing \in Runs
         /\ [Writing EXCEPT !.acked = @ \cup {i}] \in Runs
         /\ \A r \in Runs :
              /\ StepOver(i, r) => run' \in Runs /\ pc' \in Points
              /\ \A kind \in Stops :
                   StopAt(i, r, kind) => run' \in Runs /\ pc' \in Points
<1>1. Posted(i) \in Logs
  <2>1. [log.posts EXCEPT ![i] = @ + 1] \in [Items -> Nat]
    BY DEF TypeOK, Logs
  <2>2. QED
    BY <2>1 DEF Posted, TypeOK, Logs
<1>2. Writing \in Runs /\ [Writing EXCEPT !.acked = @ \cup {i}] \in Runs
  BY DEF Writing, TypeOK, Runs
<1>3. ASSUME NEW r \in Runs, StepOver(i, r)
      PROVE  run' \in Runs /\ pc' \in Points
  BY <1>3 DEF StepOver, Runs, Points, InPass, AfterPass
<1>4. ASSUME NEW r \in Runs, NEW kind \in Stops, StopAt(i, r, kind)
      PROVE  run' \in Runs /\ pc' \in Points
  BY <1>4 DEF StopAt, Runs, Points, AfterPass
<1>5. QED
  BY <1>1, <1>2, <1>3, <1>4

\* Every step keeps the types.
LEMMA TypeStep ==
  ASSUME RunInv, [Next]_vars
  PROVE  TypeOK'
<1> USE AutorestoreAssumption
    DEF RunInv, TypeOK, Points, BeforeWrites, InPass, AfterPass, Statuses,
        Stops, Unsent, Unanswered, RunTyped, IntentTyped, world, history
<1>1. ASSUME NEW commit \in BOOLEAN, StartRun(commit)
      PROVE  TypeOK'
  BY <1>1 DEF StartRun, Keep, Runs, NoRun, Logs
<1>2. ASSUME InitialRead
      PROVE  TypeOK'
  <2>1. Active(record) \in BOOLEAN
    BY DEF Active
  <2>2. run' \in Runs
    BY <1>2, <2>1 DEF InitialRead, Reads, Runs
  <2>3. log' \in Logs
    BY <1>2 DEF InitialRead, Reads, Logs
  <2>4. QED
    BY <1>2, <2>2, <2>3 DEF InitialRead, Reads
<1>3. ASSUME InitialReadUnreachable \/ InitialReadRefused \/ IntentUnreadable
               \/ PreflightFails \/ DryRun \/ Kill
      PROVE  TypeOK'
  BY <1>3, EndTyped
     DEF InitialReadUnreachable, InitialReadRefused, IntentUnreadable,
         PreflightFails, DryRun, Keep, Kill
<1>4. ASSUME Decide
      PROVE  TypeOK'
  BY <1>4, EndTyped, FinishTyped DEF Decide, Keep
<1>5. ASSUME GoAhead
      PROVE  TypeOK'
  <2>1. log' \in Logs
    BY <1>5 DEF GoAhead, Logs
  <2>2. QED
    BY <1>5, <2>1 DEF GoAhead
<1>6. ASSUME PreflightClear \/ FirstPass
      PROVE  TypeOK'
  BY <1>6 DEF PreflightClear, Runs, FirstPass
<1>7. ASSUME PreflightConflict
      PROVE  TypeOK'
  BY <1>7, DeadlineTyped, EndTyped DEF PreflightConflict, Conflict, Keep
<1>8. ASSUME Prepare
      PROVE  TypeOK'
  BY <1>8, RecordsTyped DEF Prepare, Runs
<1>9. ASSUME PrepareFails
      PROVE  TypeOK'
  BY <1>9, EndTyped, RecordsTyped DEF PrepareFails
<1>10. ASSUME Clear
       PROVE  TypeOK'
  BY <1>10 DEF Clear, ClearNoted, Runs, Logs
<1>11. ASSUME ClearFails
       PROVE  TypeOK'
  BY <1>11 DEF ClearFails, ClearNoted, Runs, Logs
<1>12. ASSUME ClearUnsent \/ RefreshFails
       PROVE  TypeOK'
  BY <1>12 DEF ClearUnsent, Runs, RefreshFails
<1>13. ASSUME ClearTooLate \/ PlanTooLate
       PROVE  TypeOK'
  BY <1>13, DeadlineTyped DEF ClearTooLate, PlanTooLate
<1>14. ASSUME Refresh
       PROVE  TypeOK'
  BY <1>14, ZenonT(30) DEF Refresh, Reads, Runs, Logs
<1>15. ASSUME ClosingRead
       PROVE  TypeOK'
  BY <1>15, ZenonT(30) DEF ClosingRead, Reads, Runs, Logs
<1>16. ASSUME BeginPass
       PROVE  TypeOK'
  <2>1. PICK todo \in SUBSET Plannable :
          /\ run' = [run EXCEPT !.todo = todo, !.stop = "none", !.item = NoItem]
          /\ pc' = IF todo = {} THEN "settle"
                   ELSE IF run.started THEN "first" ELSE "preparePass"
    BY <1>16 DEF BeginPass
  <2>2. run' \in Runs
    BY <2>1 DEF Plannable, Runs
  <2>3. QED
    BY <1>16, <2>1, <2>2 DEF BeginPass
<1>17. ASSUME PassTooLate \/ NoNextPass
       PROVE  TypeOK'
  BY <1>17, DeadlineTyped DEF PassTooLate, NoNextPass
<1>18. ASSUME FirstStep
       PROVE  TypeOK'
  BY <1>18, DeadlineTyped, EndTyped DEF FirstStep, Keep
<1>19. ASSUME NEW i \in Items, StepBlocked(i)
       PROVE  TypeOK'
  BY <1>19, StepTyped DEF StepBlocked, Due
<1>20. ASSUME NEW i \in Items, StepUnsent(i)
       PROVE  TypeOK'
  BY <1>20, StepTyped DEF StepUnsent, Due
<1>21. ASSUME NEW i \in Items, StepApplied(i)
       PROVE  TypeOK'
  BY <1>21, StepTyped DEF StepApplied, Due
<1>22. ASSUME NEW i \in Items, StepRejected(i)
       PROVE  TypeOK'
  BY <1>22, StepTyped DEF StepRejected, Due
<1>23. ASSUME NEW i \in Items, StepUnanswered(i)
       PROVE  TypeOK'
  BY <1>23, StepTyped DEF StepUnanswered, Due
<1>24. ASSUME NEW i \in Items, StepUnverified(i)
       PROVE  TypeOK'
  BY <1>24, StepTyped DEF StepUnverified, Due
<1>25. ASSUME NEW i \in Items, StepMoved(i)
       PROVE  TypeOK'
  BY <1>25, StepTyped DEF StepMoved, Due
<1>26. ASSUME Discard
       PROVE  TypeOK'
  <2>1. [run EXCEPT !.started = FALSE] \in Runs
    BY DEF Runs
  <2>2. IntentTyped
    BY <1>26, RecordsTyped DEF Discard, FinishThen
  <2>3. RunTyped
    BY <1>26, <2>1, EndTyped DEF Discard, FinishThen
  <2>4. QED
    BY <1>26, <2>2, <2>3 DEF Discard
<1>27. ASSUME Settle \/ JudgeOn
       PROVE  TypeOK'
  BY <1>27 DEF Settle, Runs, JudgeOn
<1>28. ASSUME JudgeClear \/ JudgePass \/ ClosingReadFails \/ VerdictStop
       PROVE  TypeOK'
  BY <1>28, EndTyped, CountTyped, ShapesTyped
     DEF JudgeClear, Keep, JudgePass, ClosingReadFails, VerdictStop, SentStop
<1>29. ASSUME VerdictConverged
       PROVE  TypeOK'
  BY <1>29, EndTyped, FinishTyped DEF VerdictConverged, Converged
<1>30. ASSUME NextPass
       PROVE  TypeOK'
  BY <1>30 DEF NextPass, Runs
<1>31. ASSUME TimePasses
       PROVE  TypeOK'
  BY <1>31 DEF TimePasses
<1>32. ASSUME GatewayChanges
       PROVE  TypeOK'
  BY <1>32 DEF GatewayChanges
<1>33. ASSUME AddressChanges \/ BecomeCalm
       PROVE  TypeOK'
  BY <1>33, ZenonT(30) DEF AddressChanges, BecomeCalm
<1>34. ASSUME UNCHANGED vars
       PROVE  TypeOK'
  BY <1>34 DEF vars
<1>35. QED
  BY <1>1, <1>2, <1>3, <1>4, <1>5, <1>6, <1>7, <1>8, <1>9, <1>10, <1>11, <1>12,
     <1>13, <1>14, <1>15, <1>16, <1>17, <1>18, <1>19, <1>20, <1>21, <1>22,
     <1>23, <1>24, <1>25, <1>26, <1>27, <1>28, <1>29, <1>30, <1>31, <1>32,
     <1>33, <1>34
     DEF Next, Progress

-----------------------------------------------------------------------------
(* The other parts of RunInv                                               *)

\* The intent outlives every write that is not known to be complete.
LEMMA IntentStep ==
  ASSUME RunInv, [Next]_vars
  PROVE  IntentHeld'
<1> USE AutorestoreAssumption
    DEF RunInv, TypeOK, Runs, Logs, IntentHeld, IntentCoversWrites, Active,
        Finished, Failed, Begun, MayBegin, NoIntent, Record, NoRun, world,
        history
<1>1. ASSUME NEW commit \in BOOLEAN, StartRun(commit)
      PROVE  IntentHeld'
  BY <1>1 DEF StartRun, Keep
<1>2. ASSUME InitialRead
      PROVE  IntentHeld'
  BY <1>2 DEF InitialRead, Reads, WritesKnown, BeforeWrites
<1>3. ASSUME InitialReadUnreachable \/ InitialReadRefused \/ IntentUnreadable
               \/ PreflightFails \/ DryRun \/ Kill
      PROVE  IntentHeld'
  BY <1>3
     DEF InitialReadUnreachable, End, InitialReadRefused, IntentUnreadable,
         PreflightFails, DryRun, Keep, Kill
<1>4. ASSUME Decide
      PROVE  IntentHeld'
  BY <1>4 DEF Decide, Keep, End, FinishThen, CleanReadHolds
<1>5. ASSUME GoAhead
      PROVE  IntentHeld'
  BY <1>5 DEF GoAhead
<1>6. ASSUME PreflightClear \/ FirstPass
      PROVE  IntentHeld'
  BY <1>6 DEF PreflightClear, FirstPass
<1>7. ASSUME PreflightConflict
      PROVE  IntentHeld'
  BY <1>7
     DEF PreflightConflict, Conflict, Keep, End, StopForDeadline, DiscardThen,
         FinishThen, Count, Unused, CleanReadHolds, WritesKnown,
         BeforeWrites
<1>8. ASSUME Prepare
      PROVE  IntentHeld'
  BY <1>8 DEF Prepare
<1>9. ASSUME PrepareFails
      PROVE  IntentHeld'
  BY <1>9 DEF PrepareFails, End
<1>10. ASSUME Clear
       PROVE  IntentHeld'
  BY <1>10 DEF Clear, ClearNoted
<1>11. ASSUME ClearFails
       PROVE  IntentHeld'
  BY <1>11 DEF ClearFails, ClearNoted
<1>12. ASSUME ClearUnsent \/ RefreshFails
       PROVE  IntentHeld'
  BY <1>12 DEF ClearUnsent, RefreshFails
<1>13. ASSUME ClearTooLate \/ PlanTooLate
       PROVE  IntentHeld'
  BY <1>13
     DEF ClearTooLate, Keep, End, StopForDeadline, DiscardThen, FinishThen,
         Count, Unused, CleanReadHolds, WritesKnown, BeforeWrites,
         PlanTooLate
<1>14. ASSUME Refresh
       PROVE  IntentHeld'
  BY <1>14 DEF Refresh, Reads
<1>15. ASSUME ClosingRead
       PROVE  IntentHeld'
  BY <1>15 DEF ClosingRead, Reads
<1>16. ASSUME BeginPass
       PROVE  IntentHeld'
  BY <1>16 DEF BeginPass, Plannable
<1>17. ASSUME PassTooLate \/ NoNextPass
       PROVE  IntentHeld'
  BY <1>17 DEF PassTooLate, EndPasses, Count, Keep, End, NoNextPass
<1>18. ASSUME FirstStep
       PROVE  IntentHeld'
  BY <1>18
     DEF FirstStep, EndPasses, Keep, End, StopForDeadline, DiscardThen,
         FinishThen, Count, Unused, CleanReadHolds
<1>19. ASSUME NEW i \in Items, StepBlocked(i)
       PROVE  IntentHeld'
  BY <1>19 DEF StepBlocked, Due, StepOver
<1>20. ASSUME NEW i \in Items, StepUnsent(i)
       PROVE  IntentHeld'
  BY <1>20 DEF StepUnsent, Due, StopAt
<1>21. ASSUME NEW i \in Items, StepApplied(i)
       PROVE  IntentHeld'
  BY <1>21 DEF StepApplied, Due, StepOver, Writing, Posted
<1>22. ASSUME NEW i \in Items, StepRejected(i)
       PROVE  IntentHeld'
  BY <1>22 DEF StepRejected, Due, StopAt, Writing, Posted
<1>23. ASSUME NEW i \in Items, StepUnanswered(i)
       PROVE  IntentHeld'
  BY <1>23 DEF StepUnanswered, Due, StopAt, Writing, Posted
<1>24. ASSUME NEW i \in Items, StepUnverified(i)
       PROVE  IntentHeld'
  BY <1>24 DEF StepUnverified, Due, StopAt, Writing, Posted
<1>25. ASSUME NEW i \in Items, StepMoved(i)
       PROVE  IntentHeld'
  BY <1>25 DEF StepMoved, Due, StopAt, Writing, Posted
<1>26. ASSUME Discard
       PROVE  IntentHeld'
  BY <1>26 DEF Discard, FinishThen, End, Unused
<1>27. ASSUME Settle \/ JudgeOn
       PROVE  IntentHeld'
  BY <1>27 DEF Settle, JudgeOn
<1>28. ASSUME JudgeClear \/ JudgePass \/ ClosingReadFails \/ VerdictStop
       PROVE  IntentHeld'
  BY <1>28
     DEF JudgeClear, Keep, End, Count, JudgePass, ClosingReadFails,
         VerdictStop, SentStop
<1>29. ASSUME VerdictConverged
       PROVE  IntentHeld'
  BY <1>29 DEF VerdictConverged, FinishThen, Converged, End, CleanReadHolds
<1>30. ASSUME NextPass
       PROVE  IntentHeld'
  BY <1>30 DEF NextPass
<1>31. ASSUME TimePasses
       PROVE  IntentHeld'
  BY <1>31 DEF TimePasses
<1>32. ASSUME GatewayChanges
       PROVE  IntentHeld'
  BY <1>32 DEF GatewayChanges
<1>33. ASSUME AddressChanges \/ BecomeCalm
       PROVE  IntentHeld'
  BY <1>33 DEF AddressChanges, BecomeCalm
<1>34. ASSUME UNCHANGED vars
       PROVE  IntentHeld'
  BY <1>34 DEF vars
<1>35. QED
  BY <1>1, <1>2, <1>3, <1>4, <1>5, <1>6, <1>7, <1>8, <1>9, <1>10, <1>11, <1>12,
     <1>13, <1>14, <1>15, <1>16, <1>17, <1>18, <1>19, <1>20, <1>21, <1>22,
     <1>23, <1>24, <1>25, <1>26, <1>27, <1>28, <1>29, <1>30, <1>31, <1>32,
     <1>33, <1>34
     DEF Next, Progress

\* A run that knows of no difference is right about its own writes.
LEMMA CleanReadStep ==
  ASSUME RunInv, [Next]_vars
  PROVE  CleanReadHolds'
<1> USE AutorestoreAssumption
    DEF RunInv, TypeOK, Runs, Logs, CleanReadHolds, NoRun, world, history
<1>1. ASSUME NEW commit \in BOOLEAN, StartRun(commit)
      PROVE  CleanReadHolds'
  BY <1>1 DEF StartRun, Keep
<1>2. ASSUME InitialRead
      PROVE  CleanReadHolds'
  BY <1>2 DEF InitialRead, Reads
<1>3. ASSUME InitialReadUnreachable \/ InitialReadRefused \/ IntentUnreadable
               \/ PreflightFails \/ DryRun \/ Kill
      PROVE  CleanReadHolds'
  BY <1>3
     DEF InitialReadUnreachable, End, InitialReadRefused, IntentUnreadable,
         PreflightFails, DryRun, Keep, Kill
<1>4. ASSUME Decide
      PROVE  CleanReadHolds'
  BY <1>4 DEF Decide, Keep, End, FinishThen
<1>5. ASSUME GoAhead
      PROVE  CleanReadHolds'
  BY <1>5 DEF GoAhead
<1>6. ASSUME PreflightClear \/ FirstPass
      PROVE  CleanReadHolds'
  BY <1>6 DEF PreflightClear, FirstPass
<1>7. ASSUME PreflightConflict
      PROVE  CleanReadHolds'
  BY <1>7
     DEF PreflightConflict, Conflict, Keep, End, StopForDeadline, DiscardThen,
         FinishThen, Count, Unused
<1>8. ASSUME Prepare
      PROVE  CleanReadHolds'
  BY <1>8 DEF Prepare
<1>9. ASSUME PrepareFails
      PROVE  CleanReadHolds'
  BY <1>9 DEF PrepareFails, End
<1>10. ASSUME Clear
       PROVE  CleanReadHolds'
  BY <1>10 DEF Clear, ClearNoted
<1>11. ASSUME ClearFails
       PROVE  CleanReadHolds'
  BY <1>11 DEF ClearFails, ClearNoted
<1>12. ASSUME ClearUnsent \/ RefreshFails
       PROVE  CleanReadHolds'
  BY <1>12 DEF ClearUnsent, RefreshFails
<1>13. ASSUME ClearTooLate \/ PlanTooLate
       PROVE  CleanReadHolds'
  BY <1>13
     DEF ClearTooLate, Keep, End, StopForDeadline, DiscardThen, FinishThen,
         Count, Unused, PlanTooLate
<1>14. ASSUME Refresh
       PROVE  CleanReadHolds'
  BY <1>14 DEF Refresh, Reads
<1>15. ASSUME ClosingRead
       PROVE  CleanReadHolds'
  BY <1>15 DEF ClosingRead, Reads
<1>16. ASSUME BeginPass
       PROVE  CleanReadHolds'
  BY <1>16 DEF BeginPass, Plannable
<1>17. ASSUME PassTooLate \/ NoNextPass
       PROVE  CleanReadHolds'
  BY <1>17 DEF PassTooLate, EndPasses, Count, Keep, End, NoNextPass
<1>18. ASSUME FirstStep
       PROVE  CleanReadHolds'
  BY <1>18
     DEF FirstStep, EndPasses, Keep, End, StopForDeadline, DiscardThen,
         FinishThen, Count, Unused
<1>19. ASSUME NEW i \in Items, StepBlocked(i)
       PROVE  CleanReadHolds'
  BY <1>19 DEF StepBlocked, Due, StepOver
<1>20. ASSUME NEW i \in Items, StepUnsent(i)
       PROVE  CleanReadHolds'
  BY <1>20 DEF StepUnsent, Due, StopAt
<1>21. ASSUME NEW i \in Items, StepApplied(i)
       PROVE  CleanReadHolds'
  BY <1>21 DEF StepApplied, Due, StepOver, Writing, Posted
<1>22. ASSUME NEW i \in Items, StepRejected(i)
       PROVE  CleanReadHolds'
  BY <1>22 DEF StepRejected, Due, StopAt, Writing, Posted
<1>23. ASSUME NEW i \in Items, StepUnanswered(i)
       PROVE  CleanReadHolds'
  BY <1>23 DEF StepUnanswered, Due, StopAt, Writing, Posted
<1>24. ASSUME NEW i \in Items, StepUnverified(i)
       PROVE  CleanReadHolds'
  BY <1>24 DEF StepUnverified, Due, StopAt, Writing, Posted
<1>25. ASSUME NEW i \in Items, StepMoved(i)
       PROVE  CleanReadHolds'
  BY <1>25 DEF StepMoved, Due, StopAt, Writing, Posted
<1>26. ASSUME Discard
       PROVE  CleanReadHolds'
  BY <1>26 DEF Discard, FinishThen, End, Unused
<1>27. ASSUME Settle \/ JudgeOn
       PROVE  CleanReadHolds'
  BY <1>27 DEF Settle, JudgeOn
<1>28. ASSUME JudgeClear \/ JudgePass \/ ClosingReadFails \/ VerdictStop
       PROVE  CleanReadHolds'
  BY <1>28
     DEF JudgeClear, Keep, End, Count, JudgePass, ClosingReadFails,
         VerdictStop, SentStop
<1>29. ASSUME VerdictConverged
       PROVE  CleanReadHolds'
  BY <1>29 DEF VerdictConverged, FinishThen, Converged, End
<1>30. ASSUME NextPass
       PROVE  CleanReadHolds'
  BY <1>30 DEF NextPass, Converged, SentStop, WritesKnown, Abrupt, QuietFault
<1>31. ASSUME TimePasses
       PROVE  CleanReadHolds'
  BY <1>31 DEF TimePasses
<1>32. ASSUME GatewayChanges
       PROVE  CleanReadHolds'
  BY <1>32 DEF GatewayChanges
<1>33. ASSUME AddressChanges \/ BecomeCalm
       PROVE  CleanReadHolds'
  BY <1>33 DEF AddressChanges, BecomeCalm
<1>34. ASSUME UNCHANGED vars
       PROVE  CleanReadHolds'
  BY <1>34 DEF vars
<1>35. QED
  BY <1>1, <1>2, <1>3, <1>4, <1>5, <1>6, <1>7, <1>8, <1>9, <1>10, <1>11, <1>12,
     <1>13, <1>14, <1>15, <1>16, <1>17, <1>18, <1>19, <1>20, <1>21, <1>22,
     <1>23, <1>24, <1>25, <1>26, <1>27, <1>28, <1>29, <1>30, <1>31, <1>32,
     <1>33, <1>34
     DEF Next, Progress

\* The run's own account of its writes stays the true one.
LEMMA WritesStep ==
  ASSUME RunInv, [Next]_vars
  PROVE  WritesKnown'
<1> USE AutorestoreAssumption
    DEF RunInv, TypeOK, Runs, Logs, Abrupt, QuietFault, WritesKnown,
        QuietExitsAreVerified, Ended, Quiet, NoRun, BeforeWrites, InPass,
        world, history
<1>1. ASSUME NEW commit \in BOOLEAN, StartRun(commit)
      PROVE  WritesKnown'
  BY <1>1 DEF StartRun, Keep
<1>2. ASSUME InitialRead
      PROVE  WritesKnown'
  BY <1>2 DEF InitialRead, Reads
<1>3. ASSUME InitialReadUnreachable \/ InitialReadRefused \/ IntentUnreadable
               \/ PreflightFails \/ DryRun \/ Kill
      PROVE  WritesKnown'
  BY <1>3
     DEF InitialReadUnreachable, End, InitialReadRefused, IntentUnreadable,
         PreflightFails, DryRun, Keep, Kill
<1>4. ASSUME Decide
      PROVE  WritesKnown'
  BY <1>4 DEF Decide, Keep, End, FinishThen
<1>5. ASSUME GoAhead
      PROVE  WritesKnown'
  BY <1>5 DEF GoAhead
<1>6. ASSUME PreflightClear \/ FirstPass
      PROVE  WritesKnown'
  BY <1>6 DEF PreflightClear, FirstPass
<1>7. ASSUME PreflightConflict
      PROVE  WritesKnown'
  BY <1>7
     DEF PreflightConflict, Conflict, Keep, End, StopForDeadline, DiscardThen,
         FinishThen, Count, Unused
<1>8. ASSUME Prepare
      PROVE  WritesKnown'
  BY <1>8 DEF Prepare
<1>9. ASSUME PrepareFails
      PROVE  WritesKnown'
  BY <1>9 DEF PrepareFails, End
<1>10. ASSUME Clear
       PROVE  WritesKnown'
  BY <1>10 DEF Clear, ClearNoted
<1>11. ASSUME ClearFails
       PROVE  WritesKnown'
  BY <1>11 DEF ClearFails, ClearNoted
<1>12. ASSUME ClearUnsent \/ RefreshFails
       PROVE  WritesKnown'
  BY <1>12 DEF ClearUnsent, RefreshFails
<1>13. ASSUME ClearTooLate \/ PlanTooLate
       PROVE  WritesKnown'
  BY <1>13
     DEF ClearTooLate, Keep, End, StopForDeadline, DiscardThen, FinishThen,
         Count, Unused, PlanTooLate, CleanReadHolds
<1>14. ASSUME Refresh
       PROVE  WritesKnown'
  BY <1>14 DEF Refresh, Reads
<1>15. ASSUME ClosingRead
       PROVE  WritesKnown'
  BY <1>15 DEF ClosingRead, Reads
<1>16. ASSUME BeginPass
       PROVE  WritesKnown'
  BY <1>16 DEF BeginPass, Plannable
<1>17. ASSUME PassTooLate \/ NoNextPass
       PROVE  WritesKnown'
  BY <1>17 DEF PassTooLate, EndPasses, Count, Keep, End, NoNextPass
<1>18. ASSUME FirstStep
       PROVE  WritesKnown'
  BY <1>18
     DEF FirstStep, EndPasses, Keep, End, StopForDeadline, DiscardThen,
         FinishThen, Count, Unused, CleanReadHolds
<1>19. ASSUME NEW i \in Items, StepBlocked(i)
       PROVE  WritesKnown'
  BY <1>19 DEF StepBlocked, Due, StepOver
<1>20. ASSUME NEW i \in Items, StepUnsent(i)
       PROVE  WritesKnown'
  BY <1>20 DEF StepUnsent, Due, StopAt
<1>21. ASSUME NEW i \in Items, StepApplied(i)
       PROVE  WritesKnown'
  BY <1>21 DEF StepApplied, Due, StepOver, Writing, Posted
<1>22. ASSUME NEW i \in Items, StepRejected(i)
       PROVE  WritesKnown'
  BY <1>22 DEF StepRejected, Due, StopAt, Writing, Posted
<1>23. ASSUME NEW i \in Items, StepUnanswered(i)
       PROVE  WritesKnown'
  BY <1>23 DEF StepUnanswered, Due, StopAt, Writing, Posted
<1>24. ASSUME NEW i \in Items, StepUnverified(i)
       PROVE  WritesKnown'
  BY <1>24 DEF StepUnverified, Due, StopAt, Writing, Posted
<1>25. ASSUME NEW i \in Items, StepMoved(i)
       PROVE  WritesKnown'
  BY <1>25 DEF StepMoved, Due, StopAt, Writing, Posted
<1>26. ASSUME Discard
       PROVE  WritesKnown'
  BY <1>26 DEF Discard, FinishThen, End, Unused
<1>27. ASSUME Settle \/ JudgeOn
       PROVE  WritesKnown'
  BY <1>27 DEF Settle, JudgeOn
<1>28. ASSUME JudgeClear \/ JudgePass \/ ClosingReadFails \/ VerdictStop
       PROVE  WritesKnown'
  BY <1>28
     DEF JudgeClear, Keep, End, Count, JudgePass, ClosingReadFails,
         VerdictStop, SentStop
<1>29. ASSUME VerdictConverged
       PROVE  WritesKnown'
  BY <1>29 DEF VerdictConverged, FinishThen, Converged, End, CleanReadHolds
<1>30. ASSUME NextPass
       PROVE  WritesKnown'
  BY <1>30 DEF NextPass
<1>31. ASSUME TimePasses
       PROVE  WritesKnown'
  BY <1>31 DEF TimePasses
<1>32. ASSUME GatewayChanges
       PROVE  WritesKnown'
  BY <1>32 DEF GatewayChanges
<1>33. ASSUME AddressChanges \/ BecomeCalm
       PROVE  WritesKnown'
  BY <1>33 DEF AddressChanges, BecomeCalm
<1>34. ASSUME UNCHANGED vars
       PROVE  WritesKnown'
  BY <1>34 DEF vars
<1>35. QED
  BY <1>1, <1>2, <1>3, <1>4, <1>5, <1>6, <1>7, <1>8, <1>9, <1>10, <1>11, <1>12,
     <1>13, <1>14, <1>15, <1>16, <1>17, <1>18, <1>19, <1>20, <1>21, <1>22,
     <1>23, <1>24, <1>25, <1>26, <1>27, <1>28, <1>29, <1>30, <1>31, <1>32,
     <1>33, <1>34
     DEF Next, Progress

\* A step that was posted is not due again in this run.
LEMMA PostsStep ==
  ASSUME RunInv, [Next]_vars
  PROVE  PostsKnown'
<1> USE AutorestoreAssumption
    DEF RunInv, TypeOK, Runs, Logs, PostsKnown, BeforeWrites, InPass,
        AfterPass, Unanswered, NoRun, world, history
<1>1. ASSUME NEW commit \in BOOLEAN, StartRun(commit)
      PROVE  PostsKnown'
  BY <1>1 DEF StartRun, Keep
<1>2. ASSUME InitialRead
      PROVE  PostsKnown'
  BY <1>2 DEF InitialRead, Reads
<1>3. ASSUME InitialReadUnreachable \/ InitialReadRefused \/ IntentUnreadable
               \/ PreflightFails \/ DryRun \/ Kill
      PROVE  PostsKnown'
  BY <1>3
     DEF InitialReadUnreachable, End, InitialReadRefused, IntentUnreadable,
         PreflightFails, DryRun, Keep, Kill
<1>4. ASSUME Decide
      PROVE  PostsKnown'
  BY <1>4 DEF Decide, Keep, End, FinishThen
<1>5. ASSUME GoAhead
      PROVE  PostsKnown'
  BY <1>5 DEF GoAhead
<1>6. ASSUME PreflightClear \/ FirstPass
      PROVE  PostsKnown'
  BY <1>6 DEF PreflightClear, FirstPass
<1>7. ASSUME PreflightConflict
      PROVE  PostsKnown'
  BY <1>7
     DEF PreflightConflict, Conflict, Keep, End, StopForDeadline, DiscardThen,
         FinishThen, Count, Unused
<1>8. ASSUME Prepare
      PROVE  PostsKnown'
  BY <1>8 DEF Prepare
<1>9. ASSUME PrepareFails
      PROVE  PostsKnown'
  BY <1>9 DEF PrepareFails, End
<1>10. ASSUME Clear
       PROVE  PostsKnown'
  BY <1>10 DEF Clear, ClearNoted
<1>11. ASSUME ClearFails
       PROVE  PostsKnown'
  BY <1>11 DEF ClearFails, ClearNoted
<1>12. ASSUME ClearUnsent \/ RefreshFails
       PROVE  PostsKnown'
  BY <1>12 DEF ClearUnsent, RefreshFails
<1>13. ASSUME ClearTooLate \/ PlanTooLate
       PROVE  PostsKnown'
  BY <1>13
     DEF ClearTooLate, Keep, End, StopForDeadline, DiscardThen, FinishThen,
         Count, Unused, PlanTooLate
<1>14. ASSUME Refresh
       PROVE  PostsKnown'
  BY <1>14 DEF Refresh, Reads
<1>15. ASSUME ClosingRead
       PROVE  PostsKnown'
  BY <1>15 DEF ClosingRead, Reads
<1>16. ASSUME BeginPass
       PROVE  PostsKnown'
  BY <1>16 DEF BeginPass, Plannable
<1>17. ASSUME PassTooLate \/ NoNextPass
       PROVE  PostsKnown'
  BY <1>17 DEF PassTooLate, EndPasses, Count, Keep, End, NoNextPass
<1>18. ASSUME FirstStep
       PROVE  PostsKnown'
  BY <1>18
     DEF FirstStep, EndPasses, Keep, End, StopForDeadline, DiscardThen,
         FinishThen, Count, Unused
<1>19. ASSUME NEW i \in Items, StepBlocked(i)
       PROVE  PostsKnown'
  BY <1>19 DEF StepBlocked, Due, StepOver
<1>20. ASSUME NEW i \in Items, StepUnsent(i)
       PROVE  PostsKnown'
  BY <1>20 DEF StepUnsent, Due, StopAt
<1>21. ASSUME NEW i \in Items, StepApplied(i)
       PROVE  PostsKnown'
  BY <1>21 DEF StepApplied, Due, StepOver, Writing, Posted
<1>22. ASSUME NEW i \in Items, StepRejected(i)
       PROVE  PostsKnown'
  BY <1>22 DEF StepRejected, Due, StopAt, Writing, Posted
<1>23. ASSUME NEW i \in Items, StepUnanswered(i)
       PROVE  PostsKnown'
  BY <1>23 DEF StepUnanswered, Due, StopAt, Writing, Posted
<1>24. ASSUME NEW i \in Items, StepUnverified(i)
       PROVE  PostsKnown'
  BY <1>24 DEF StepUnverified, Due, StopAt, Writing, Posted
<1>25. ASSUME NEW i \in Items, StepMoved(i)
       PROVE  PostsKnown'
  BY <1>25 DEF StepMoved, Due, StopAt, Writing, Posted
<1>26. ASSUME Discard
       PROVE  PostsKnown'
  BY <1>26 DEF Discard, FinishThen, End, Unused
<1>27. ASSUME Settle \/ JudgeOn
       PROVE  PostsKnown'
  BY <1>27 DEF Settle, JudgeOn
<1>28. ASSUME JudgeClear \/ JudgePass \/ ClosingReadFails \/ VerdictStop
       PROVE  PostsKnown'
  BY <1>28
     DEF JudgeClear, Keep, End, Count, JudgePass, ClosingReadFails,
         VerdictStop, SentStop
<1>29. ASSUME VerdictConverged
       PROVE  PostsKnown'
  BY <1>29 DEF VerdictConverged, FinishThen, Converged, End
<1>30. ASSUME NextPass
       PROVE  PostsKnown'
  BY <1>30 DEF NextPass, WritesKnown, SentStop, Converged, Abrupt, QuietFault
<1>31. ASSUME TimePasses
       PROVE  PostsKnown'
  BY <1>31 DEF TimePasses
<1>32. ASSUME GatewayChanges
       PROVE  PostsKnown'
  BY <1>32 DEF GatewayChanges
<1>33. ASSUME AddressChanges \/ BecomeCalm
       PROVE  PostsKnown'
  BY <1>33 DEF AddressChanges, BecomeCalm
<1>34. ASSUME UNCHANGED vars
       PROVE  PostsKnown'
  BY <1>34 DEF vars
<1>35. QED
  BY <1>1, <1>2, <1>3, <1>4, <1>5, <1>6, <1>7, <1>8, <1>9, <1>10, <1>11, <1>12,
     <1>13, <1>14, <1>15, <1>16, <1>17, <1>18, <1>19, <1>20, <1>21, <1>22,
     <1>23, <1>24, <1>25, <1>26, <1>27, <1>28, <1>29, <1>30, <1>31, <1>32,
     <1>33, <1>34
     DEF Next, Progress

\* A recovery goes back to a read that looked reset.
LEMMA ResetStep ==
  ASSUME RunInv, [Next]_vars
  PROVE  ResetKnown'
<1> USE AutorestoreAssumption
    DEF RunInv, TypeOK, Runs, Logs, ResetKnown, WritesNeedReset, Committed,
        InPass, AfterPass, NoRun, Active, Finished, Failed, Begun, MayBegin,
        NoIntent, Record, world, history
<1>1. ASSUME NEW commit \in BOOLEAN, StartRun(commit)
      PROVE  ResetKnown'
  BY <1>1 DEF StartRun, Keep
<1>2. ASSUME InitialRead
      PROVE  ResetKnown'
  BY <1>2 DEF InitialRead, Reads
<1>3. ASSUME InitialReadUnreachable \/ InitialReadRefused \/ IntentUnreadable
               \/ PreflightFails \/ DryRun \/ Kill
      PROVE  ResetKnown'
  BY <1>3
     DEF InitialReadUnreachable, End, InitialReadRefused, IntentUnreadable,
         PreflightFails, DryRun, Keep, Kill
<1>4. ASSUME Decide
      PROVE  ResetKnown'
  BY <1>4 DEF Decide, Keep, End, FinishThen
<1>5. ASSUME GoAhead
      PROVE  ResetKnown'
  BY <1>5 DEF GoAhead, IntentHeld, Detected
<1>6. ASSUME PreflightClear \/ FirstPass
      PROVE  ResetKnown'
  BY <1>6 DEF PreflightClear, FirstPass
<1>7. ASSUME PreflightConflict
      PROVE  ResetKnown'
  BY <1>7
     DEF PreflightConflict, Conflict, Keep, End, StopForDeadline, DiscardThen,
         FinishThen, Count, Unused
<1>8. ASSUME Prepare
      PROVE  ResetKnown'
  BY <1>8 DEF Prepare
<1>9. ASSUME PrepareFails
      PROVE  ResetKnown'
  BY <1>9 DEF PrepareFails, End
<1>10. ASSUME Clear
       PROVE  ResetKnown'
  BY <1>10 DEF Clear, ClearNoted
<1>11. ASSUME ClearFails
       PROVE  ResetKnown'
  BY <1>11 DEF ClearFails, ClearNoted
<1>12. ASSUME ClearUnsent \/ RefreshFails
       PROVE  ResetKnown'
  BY <1>12 DEF ClearUnsent, RefreshFails
<1>13. ASSUME ClearTooLate \/ PlanTooLate
       PROVE  ResetKnown'
  BY <1>13
     DEF ClearTooLate, Keep, End, StopForDeadline, DiscardThen, FinishThen,
         Count, Unused, PlanTooLate
<1>14. ASSUME Refresh
       PROVE  ResetKnown'
  BY <1>14 DEF Refresh, Reads
<1>15. ASSUME ClosingRead
       PROVE  ResetKnown'
  BY <1>15 DEF ClosingRead, Reads
<1>16. ASSUME BeginPass
       PROVE  ResetKnown'
  BY <1>16 DEF BeginPass, Plannable
<1>17. ASSUME PassTooLate \/ NoNextPass
       PROVE  ResetKnown'
  BY <1>17 DEF PassTooLate, EndPasses, Count, Keep, End, NoNextPass
<1>18. ASSUME FirstStep
       PROVE  ResetKnown'
  BY <1>18
     DEF FirstStep, EndPasses, Keep, End, StopForDeadline, DiscardThen,
         FinishThen, Count, Unused
<1>19. ASSUME NEW i \in Items, StepBlocked(i)
       PROVE  ResetKnown'
  BY <1>19 DEF StepBlocked, Due, StepOver
<1>20. ASSUME NEW i \in Items, StepUnsent(i)
       PROVE  ResetKnown'
  BY <1>20 DEF StepUnsent, Due, StopAt
<1>21. ASSUME NEW i \in Items, StepApplied(i)
       PROVE  ResetKnown'
  BY <1>21 DEF StepApplied, Due, StepOver, Writing, Posted
<1>22. ASSUME NEW i \in Items, StepRejected(i)
       PROVE  ResetKnown'
  BY <1>22 DEF StepRejected, Due, StopAt, Writing, Posted
<1>23. ASSUME NEW i \in Items, StepUnanswered(i)
       PROVE  ResetKnown'
  BY <1>23 DEF StepUnanswered, Due, StopAt, Writing, Posted
<1>24. ASSUME NEW i \in Items, StepUnverified(i)
       PROVE  ResetKnown'
  BY <1>24 DEF StepUnverified, Due, StopAt, Writing, Posted
<1>25. ASSUME NEW i \in Items, StepMoved(i)
       PROVE  ResetKnown'
  BY <1>25 DEF StepMoved, Due, StopAt, Writing, Posted
<1>26. ASSUME Discard
       PROVE  ResetKnown'
  BY <1>26 DEF Discard, FinishThen, End, Unused
<1>27. ASSUME Settle \/ JudgeOn
       PROVE  ResetKnown'
  BY <1>27 DEF Settle, JudgeOn
<1>28. ASSUME JudgeClear \/ JudgePass \/ ClosingReadFails \/ VerdictStop
       PROVE  ResetKnown'
  BY <1>28
     DEF JudgeClear, Keep, End, Count, JudgePass, ClosingReadFails,
         VerdictStop, SentStop
<1>29. ASSUME VerdictConverged
       PROVE  ResetKnown'
  BY <1>29 DEF VerdictConverged, FinishThen, Converged, End
<1>30. ASSUME NextPass
       PROVE  ResetKnown'
  BY <1>30 DEF NextPass
<1>31. ASSUME TimePasses
       PROVE  ResetKnown'
  BY <1>31 DEF TimePasses
<1>32. ASSUME GatewayChanges
       PROVE  ResetKnown'
  BY <1>32 DEF GatewayChanges
<1>33. ASSUME AddressChanges \/ BecomeCalm
       PROVE  ResetKnown'
  BY <1>33 DEF AddressChanges, BecomeCalm
<1>34. ASSUME UNCHANGED vars
       PROVE  ResetKnown'
  BY <1>34 DEF vars
<1>35. QED
  BY <1>1, <1>2, <1>3, <1>4, <1>5, <1>6, <1>7, <1>8, <1>9, <1>10, <1>11, <1>12,
     <1>13, <1>14, <1>15, <1>16, <1>17, <1>18, <1>19, <1>20, <1>21, <1>22,
     <1>23, <1>24, <1>25, <1>26, <1>27, <1>28, <1>29, <1>30, <1>31, <1>32,
     <1>33, <1>34
     DEF Next, Progress

\* The failure count follows the failures, and never passes the limit.
LEMMA CountStep ==
  ASSUME RunInv, [Next]_vars
  PROVE  CountKnown'
<1> USE AutorestoreAssumption
    DEF RunInv, TypeOK, Runs, Streaks, CountKnown, SameFailureBounded,
        Committed, InPass, AfterPass, NoRun, NoStreak, Active, Finished,
        Failed, Begun, MayBegin, NoIntent, Record, RETRY_LIMIT, world, history
<1>1. ASSUME NEW commit \in BOOLEAN, StartRun(commit)
      PROVE  CountKnown'
  BY <1>1 DEF StartRun, Keep
<1>2. ASSUME InitialRead
      PROVE  CountKnown'
  BY <1>2 DEF InitialRead, Reads
<1>3. ASSUME InitialReadUnreachable \/ InitialReadRefused \/ IntentUnreadable
               \/ PreflightFails \/ DryRun \/ Kill
      PROVE  CountKnown'
  BY <1>3
     DEF InitialReadUnreachable, End, InitialReadRefused, IntentUnreadable,
         PreflightFails, DryRun, Keep, Kill
<1>4. ASSUME Decide
      PROVE  CountKnown'
  BY <1>4 DEF Decide, Keep, End, FinishThen
<1>5. ASSUME GoAhead
      PROVE  CountKnown'
  BY <1>5 DEF GoAhead, Stopped, IntentHeld
<1>6. ASSUME PreflightClear \/ FirstPass
      PROVE  CountKnown'
  BY <1>6 DEF PreflightClear, FirstPass
<1>7. ASSUME PreflightConflict
      PROVE  CountKnown'
  BY <1>7
     DEF PreflightConflict, Conflict, Keep, End, StopForDeadline, DiscardThen,
         FinishThen, Count, Unused
<1>8. ASSUME Prepare
      PROVE  CountKnown'
  BY <1>8 DEF Prepare
<1>9. ASSUME PrepareFails
      PROVE  CountKnown'
  BY <1>9 DEF PrepareFails, End
<1>10. ASSUME Clear
       PROVE  CountKnown'
  BY <1>10 DEF Clear, ClearNoted
<1>11. ASSUME ClearFails
       PROVE  CountKnown'
  BY <1>11 DEF ClearFails, ClearNoted
<1>12. ASSUME ClearUnsent \/ RefreshFails
       PROVE  CountKnown'
  BY <1>12 DEF ClearUnsent, RefreshFails
<1>13. ASSUME ClearTooLate \/ PlanTooLate
       PROVE  CountKnown'
  BY <1>13
     DEF ClearTooLate, Keep, End, StopForDeadline, DiscardThen, FinishThen,
         Count, Unused, PlanTooLate
<1>14. ASSUME Refresh
       PROVE  CountKnown'
  BY <1>14 DEF Refresh, Reads
<1>15. ASSUME ClosingRead
       PROVE  CountKnown'
  BY <1>15 DEF ClosingRead, Reads
<1>16. ASSUME BeginPass
       PROVE  CountKnown'
  BY <1>16 DEF BeginPass, Plannable
<1>17. ASSUME PassTooLate \/ NoNextPass
       PROVE  CountKnown'
  BY <1>17 DEF PassTooLate, EndPasses, Count, Keep, End, NoNextPass
<1>18. ASSUME FirstStep
       PROVE  CountKnown'
  BY <1>18
     DEF FirstStep, EndPasses, Keep, End, StopForDeadline, DiscardThen,
         FinishThen, Count, Unused
<1>19. ASSUME NEW i \in Items, StepBlocked(i)
       PROVE  CountKnown'
  BY <1>19 DEF StepBlocked, Due, StepOver
<1>20. ASSUME NEW i \in Items, StepUnsent(i)
       PROVE  CountKnown'
  BY <1>20 DEF StepUnsent, Due, StopAt
<1>21. ASSUME NEW i \in Items, StepApplied(i)
       PROVE  CountKnown'
  BY <1>21 DEF StepApplied, Due, StepOver, Writing, Posted
<1>22. ASSUME NEW i \in Items, StepRejected(i)
       PROVE  CountKnown'
  BY <1>22 DEF StepRejected, Due, StopAt, Writing, Posted
<1>23. ASSUME NEW i \in Items, StepUnanswered(i)
       PROVE  CountKnown'
  BY <1>23 DEF StepUnanswered, Due, StopAt, Writing, Posted
<1>24. ASSUME NEW i \in Items, StepUnverified(i)
       PROVE  CountKnown'
  BY <1>24 DEF StepUnverified, Due, StopAt, Writing, Posted
<1>25. ASSUME NEW i \in Items, StepMoved(i)
       PROVE  CountKnown'
  BY <1>25 DEF StepMoved, Due, StopAt, Writing, Posted
<1>26. ASSUME Discard
       PROVE  CountKnown'
  BY <1>26 DEF Discard, FinishThen, End, Unused
<1>27. ASSUME Settle \/ JudgeOn
       PROVE  CountKnown'
  BY <1>27 DEF Settle, JudgeOn
<1>28. ASSUME JudgeClear \/ JudgePass \/ ClosingReadFails \/ VerdictStop
       PROVE  CountKnown'
  BY <1>28
     DEF JudgeClear, Keep, End, Count, JudgePass, ClosingReadFails,
         VerdictStop, SentStop
<1>29. ASSUME VerdictConverged
       PROVE  CountKnown'
  BY <1>29 DEF VerdictConverged, FinishThen, Converged, End
<1>30. ASSUME NextPass
       PROVE  CountKnown'
  BY <1>30 DEF NextPass
<1>31. ASSUME TimePasses
       PROVE  CountKnown'
  BY <1>31 DEF TimePasses
<1>32. ASSUME GatewayChanges
       PROVE  CountKnown'
  BY <1>32 DEF GatewayChanges
<1>33. ASSUME AddressChanges \/ BecomeCalm
       PROVE  CountKnown'
  BY <1>33 DEF AddressChanges, BecomeCalm
<1>34. ASSUME UNCHANGED vars
       PROVE  CountKnown'
  BY <1>34 DEF vars
<1>35. QED
  BY <1>1, <1>2, <1>3, <1>4, <1>5, <1>6, <1>7, <1>8, <1>9, <1>10, <1>11, <1>12,
     <1>13, <1>14, <1>15, <1>16, <1>17, <1>18, <1>19, <1>20, <1>21, <1>22,
     <1>23, <1>24, <1>25, <1>26, <1>27, <1>28, <1>29, <1>30, <1>31, <1>32,
     <1>33, <1>34
     DEF Next, Progress

\* Nothing touches the intent of another dump.
LEMMA OtherStep ==
  ASSUME RunInv, [Next]_vars, record.owner = "other"
  PROVE  record' = record
<1> USE AutorestoreAssumption
    DEF RunInv, IntentHeld, Active, Finished, Failed, Begun, MayBegin, world,
        history
<1>1. ASSUME NEW commit \in BOOLEAN, StartRun(commit)
      PROVE  record' = record
  BY <1>1 DEF StartRun, Keep
<1>2. ASSUME InitialRead
      PROVE  record' = record
  BY <1>2 DEF InitialRead, Reads
<1>3. ASSUME InitialReadUnreachable \/ InitialReadRefused \/ IntentUnreadable
               \/ PreflightFails \/ DryRun \/ Kill
      PROVE  record' = record
  BY <1>3
     DEF InitialReadUnreachable, End, InitialReadRefused, IntentUnreadable,
         PreflightFails, DryRun, Keep, Kill
<1>4. ASSUME Decide
      PROVE  record' = record
  BY <1>4 DEF Decide, Keep, End, FinishThen
<1>5. ASSUME GoAhead
      PROVE  record' = record
  BY <1>5 DEF GoAhead
<1>6. ASSUME PreflightClear \/ FirstPass
      PROVE  record' = record
  BY <1>6 DEF PreflightClear, FirstPass
<1>7. ASSUME PreflightConflict
      PROVE  record' = record
  BY <1>7
     DEF PreflightConflict, Conflict, Keep, End, StopForDeadline, DiscardThen,
         FinishThen, Count, Unused
<1>8. ASSUME Prepare
      PROVE  record' = record
  BY <1>8 DEF Prepare
<1>9. ASSUME PrepareFails
      PROVE  record' = record
  BY <1>9 DEF PrepareFails, End
<1>10. ASSUME Clear
       PROVE  record' = record
  BY <1>10 DEF Clear, ClearNoted
<1>11. ASSUME ClearFails
       PROVE  record' = record
  BY <1>11 DEF ClearFails, ClearNoted
<1>12. ASSUME ClearUnsent \/ RefreshFails
       PROVE  record' = record
  BY <1>12 DEF ClearUnsent, RefreshFails
<1>13. ASSUME ClearTooLate \/ PlanTooLate
       PROVE  record' = record
  BY <1>13
     DEF ClearTooLate, Keep, End, StopForDeadline, DiscardThen, FinishThen,
         Count, Unused, PlanTooLate
<1>14. ASSUME Refresh
       PROVE  record' = record
  BY <1>14 DEF Refresh, Reads
<1>15. ASSUME ClosingRead
       PROVE  record' = record
  BY <1>15 DEF ClosingRead, Reads
<1>16. ASSUME BeginPass
       PROVE  record' = record
  BY <1>16 DEF BeginPass, Plannable
<1>17. ASSUME PassTooLate \/ NoNextPass
       PROVE  record' = record
  BY <1>17 DEF PassTooLate, EndPasses, Count, Keep, End, NoNextPass
<1>18. ASSUME FirstStep
       PROVE  record' = record
  BY <1>18
     DEF FirstStep, EndPasses, Keep, End, StopForDeadline, DiscardThen,
         FinishThen, Count, Unused
<1>19. ASSUME NEW i \in Items, StepBlocked(i)
       PROVE  record' = record
  BY <1>19 DEF StepBlocked, Due, StepOver
<1>20. ASSUME NEW i \in Items, StepUnsent(i)
       PROVE  record' = record
  BY <1>20 DEF StepUnsent, Due, StopAt
<1>21. ASSUME NEW i \in Items, StepApplied(i)
       PROVE  record' = record
  BY <1>21 DEF StepApplied, Due, StepOver, Writing, Posted
<1>22. ASSUME NEW i \in Items, StepRejected(i)
       PROVE  record' = record
  BY <1>22 DEF StepRejected, Due, StopAt, Writing, Posted
<1>23. ASSUME NEW i \in Items, StepUnanswered(i)
       PROVE  record' = record
  BY <1>23 DEF StepUnanswered, Due, StopAt, Writing, Posted
<1>24. ASSUME NEW i \in Items, StepUnverified(i)
       PROVE  record' = record
  BY <1>24 DEF StepUnverified, Due, StopAt, Writing, Posted
<1>25. ASSUME NEW i \in Items, StepMoved(i)
       PROVE  record' = record
  BY <1>25 DEF StepMoved, Due, StopAt, Writing, Posted
<1>26. ASSUME Discard
       PROVE  record' = record
  BY <1>26 DEF Discard, FinishThen, End, Unused
<1>27. ASSUME Settle \/ JudgeOn
       PROVE  record' = record
  BY <1>27 DEF Settle, JudgeOn
<1>28. ASSUME JudgeClear \/ JudgePass \/ ClosingReadFails \/ VerdictStop
       PROVE  record' = record
  BY <1>28
     DEF JudgeClear, Keep, End, Count, JudgePass, ClosingReadFails,
         VerdictStop, SentStop
<1>29. ASSUME VerdictConverged
       PROVE  record' = record
  BY <1>29 DEF VerdictConverged, FinishThen, Converged, End
<1>30. ASSUME NextPass
       PROVE  record' = record
  BY <1>30 DEF NextPass
<1>31. ASSUME TimePasses
       PROVE  record' = record
  BY <1>31 DEF TimePasses
<1>32. ASSUME GatewayChanges
       PROVE  record' = record
  BY <1>32 DEF GatewayChanges
<1>33. ASSUME AddressChanges \/ BecomeCalm
       PROVE  record' = record
  BY <1>33 DEF AddressChanges, BecomeCalm
<1>34. ASSUME UNCHANGED vars
       PROVE  record' = record
  BY <1>34 DEF vars
<1>35. QED
  BY <1>1, <1>2, <1>3, <1>4, <1>5, <1>6, <1>7, <1>8, <1>9, <1>10, <1>11, <1>12,
     <1>13, <1>14, <1>15, <1>16, <1>17, <1>18, <1>19, <1>20, <1>21, <1>22,
     <1>23, <1>24, <1>25, <1>26, <1>27, <1>28, <1>29, <1>30, <1>31, <1>32,
     <1>33, <1>34
     DEF Next, Progress

-----------------------------------------------------------------------------
(* The theorems                                                            *)

\* The initial state satisfies the inductive invariant.
LEMMA InitInv == Init => RunInv
<1> USE AutorestoreAssumption
    DEF Init, RunInv, NoRun, NoIntent, Record, NoStreak
<1>1. ASSUME Init
      PROVE  TypeOK
  <2>1. run \in Runs
    BY <1>1 DEF Runs, Stops
  <2>2. log \in Logs
    BY <1>1 DEF Logs
  <2>3. record \in Records /\ streak \in Streaks
    BY <1>1 DEF Records, Owners, Streaks
  <2>4. QED
    BY <1>1, <2>1, <2>2, <2>3 DEF TypeOK, Points, Statuses
<1>2. Init => IntentHeld
  BY DEF IntentHeld, IntentCoversWrites
<1>3. Init => CleanReadHolds
  BY DEF CleanReadHolds
<1>4. Init => WritesKnown
  BY DEF WritesKnown, QuietExitsAreVerified, BeforeWrites, InPass
<1>5. Init => PostsKnown
  BY DEF PostsKnown, BeforeWrites, InPass, AfterPass
<1>6. Init => ResetKnown
  BY DEF ResetKnown, WritesNeedReset, Active, Committed, InPass, AfterPass
<1>7. Init => CountKnown
  BY DEF CountKnown, SameFailureBounded, Active, Committed, InPass,
         AfterPass, RETRY_LIMIT
<1>8. QED
  BY <1>1, <1>2, <1>3, <1>4, <1>5, <1>6, <1>7

\* RunInv holds throughout, for every dump and every number of passes.
THEOREM RunInvariant == Spec => []RunInv
<1>1. RunInv /\ [Next]_vars => RunInv'
  BY TypeStep, IntentStep, CleanReadStep, WritesStep, PostsStep, ResetStep,
     CountStep
     DEF RunInv
<1>2. QED
  BY InitInv, <1>1, PTL DEF Spec

\* The model is well typed.
THEOREM TypeCorrect == Spec => []TypeOK
<1>1. RunInv => TypeOK
  BY DEF RunInv
<1>2. QED
  BY RunInvariant, <1>1, PTL

\* A half-restored gateway always has its intent on disk: no kill, fault or
\* time limit leaves writes of a recovery that the next run would not resume.
THEOREM IntentSafety == Spec => []IntentCoversWrites
<1>1. RunInv => IntentCoversWrites
  BY DEF RunInv, IntentHeld
<1>2. QED
  BY RunInvariant, <1>1, PTL

\* No run writes an item twice, however many passes it makes.
THEOREM NoRepost == Spec => []PostedOncePerRun
<1>1. RunInv => PostedOncePerRun
  BY DEF RunInv, PostsKnown, PostedOncePerRun
<1>2. QED
  BY RunInvariant, <1>1, PTL

\* A run that wrote and exits 0 has read back the restored configuration.
THEOREM QuietSafety == Spec => []QuietExitsAreVerified
<1>1. RunInv => QuietExitsAreVerified
  BY DEF RunInv, WritesKnown
<1>2. QED
  BY RunInvariant, <1>1, PTL

\* Ordinary drift is never written over.
THEOREM DriftSafety == Spec => []WritesNeedReset
<1>1. RunInv => WritesNeedReset
  BY DEF RunInv, ResetKnown
<1>2. QED
  BY RunInvariant, <1>1, PTL

\* The same failure is counted at most RETRY_LIMIT times in a row.
THEOREM RetryBound == Spec => []SameFailureBounded
<1>1. RunInv => SameFailureBounded
  BY DEF RunInv, CountKnown
<1>2. QED
  BY RunInvariant, <1>1, PTL

\* The intent of another dump is left alone by every step.
THEOREM OtherIntentSafety == Spec => OtherIntentKept
<1>1. RunInv /\ [Next]_vars => [record.owner = "other" => record' = record]_vars
  BY OtherStep
<1>2. QED
  BY RunInvariant, <1>1, PTL DEF Spec, OtherIntentKept
=============================================================================
