SPECIFICATION Spec
CONSTANTS
  WMM = "TSO"
  Thread = {1, 2}
  Addr = {"x", "y", "z"}
  Globals = {"x", "y"}
  Val = {0, 1, 2}
  Fn = {"main", "w", "f", "g", "h"}
  Main = "main"
  Recorded = {"f", "g"}
  Programs <- AllClients
  RecordLimit = 0
INVARIANT EndsFlushed
CHECK_DEADLOCK FALSE
