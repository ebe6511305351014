CONSTANTS
  Recoverers = {"r1", "r2"}
  Dumpers = {}
  Base = 1
  Strict = {"r1"}
  NoOne = "nobody"
SPECIFICATION RunningSpec
INVARIANTS StoppedCreationIsRepairable
CHECK_DEADLOCK FALSE
