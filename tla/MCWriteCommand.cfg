CONSTANT Reads = 3
SPECIFICATION FairSpec
INVARIANTS WriteInv ExitIsHonest
PROPERTIES WriteEnds
CHECK_DEADLOCK FALSE
