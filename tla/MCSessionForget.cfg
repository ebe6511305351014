CONSTANTS
  Slots = 1
  MaxSids = 2
  MaxOps = 1
SPECIFICATION CoordinatorSpec
PROPERTIES ForgottenCopyIsDead
CHECK_DEADLOCK FALSE
