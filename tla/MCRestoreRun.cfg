SPECIFICATION FairSpec
CONSTANTS
  Names <- MCNames
  Builtin = {"http"}
  Fold <- MCFold
  Kinds = {"tcp", "udp"}
  Devices = {"d1", "d2"}
  Ips = {"ip1", "ip2"}
  Labels = {"d1", "d2"}
  Starts <- MCStarts
  MaxFaults = 1
  MaxMoves = 1
INVARIANTS RestoreInv ExitIsTrue OneSaveRestoresForm SomeStepGoesOut
PROPERTIES DumpedRowsStay OneServicePerName PollingEnds
