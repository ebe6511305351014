\* Every plan of two steps and every outcome of every request.
SPECIFICATION FairSpec
CONSTANT Length = 2
INVARIANTS ExecutionInv ReportsAreTrue AsAutorestoreAssumes
PROPERTIES OneSaveAtATime ExecutionEnds
CHECK_DEADLOCK FALSE
