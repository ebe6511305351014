CONSTANTS
  Slots = 2
  MaxSids = 5
SPECIFICATION Spec
INVARIANTS PerformedAtMostOnce EvidenceIsHonest LoginsBounded OutcomeMatchesSession
CHECK_DEADLOCK FALSE
