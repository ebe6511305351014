CONSTANTS
  Slots = 1
  MaxSids = 2
  MaxOps = 2
  Walk <- MCWalk
SPECIFICATION SweepSpec
INVARIANTS SweepInv CacheIsWorthIt NoOrphanedSlot RefusalStopsAll
CHECK_DEADLOCK FALSE
