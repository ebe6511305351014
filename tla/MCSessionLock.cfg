CONSTANTS
  c1 = c1
  c2 = c2
  c3 = c3
  old1 = old1
  Calls = {c1, c2, c3, old1}
  LegacyCalls = {old1}
  NoCall = NoCall
SPECIFICATION Spec
SYMMETRY ModernSymmetry
INVARIANTS LockInv MutualExclusion HolderKeepsMarker
PROPERTIES OnlyAbandonedMarkersReclaimed ImplementsMutex
CHECK_DEADLOCK FALSE
