CONSTANTS
  Recoverers = {"r1", "r2"}
  Dumpers = {"d1", "d2"}
  Base = 2
  Strict = {"r1"}
  Parties <- MCParties
  MaxFaults = 2
  NoOne = "nobody"
SPECIFICATION MCSpec
INVARIANTS PublicationInv FilesSurvive
PROPERTIES CleanupTakesOnlyItsOwn
CHECK_DEADLOCK FALSE
