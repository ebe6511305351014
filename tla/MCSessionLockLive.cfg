CONSTANTS
  c1 = c1
  c2 = c2
  c3 = c3
  Calls = {c1, c2, c3}
  LegacyCalls = {}
  NoCall = NoCall
SPECIFICATION PatientSpec
PROPERTIES EveryCallEnds
CHECK_DEADLOCK FALSE
