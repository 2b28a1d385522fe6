SPECIFICATION FairSpec
CONSTANTS
  WMM = "TSO"
  Thread = {1, 2}
  Addr = {"x", "y", "z"}
  Globals = {"x", "y", "z"}
  Val = {0, 1}
  Fn = {"main", "w", "f", "g", "h"}
  Main = "main"
  Recorded = {"f", "g"}
  Programs <- WaitingClients
  RecordLimit = 0
PROPERTY EveryBufferDrains
CHECK_DEADLOCK FALSE
