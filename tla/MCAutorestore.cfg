CONSTANTS
  Order <- LanOrder
  Voting = {"reservation"}
  Reservations = {"reservation"}
  Lan = {"lan"}
  OnAnyDiff = FALSE
  MaxPasses = 2
SPECIFICATION LiveSpec
INVARIANTS RunInv IntentCoversWrites QuietExitsAreVerified SameFailureBounded WritesNeedReset PostedOncePerRun
PROPERTIES OtherIntentKept ResetIsRestored
CHECK_DEADLOCK FALSE
