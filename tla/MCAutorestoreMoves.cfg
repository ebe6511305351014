CONSTANTS
  Order <- LanOrder
  Voting = {"reservation"}
  Reservations = {"reservation"}
  Lan = {"lan"}
  OnAnyDiff = FALSE
  MaxPasses = 2
SPECIFICATION Spec
PROPERTIES FailedMovesAreCounted
CHECK_DEADLOCK FALSE
