SPECIFICATION SSpec
CONSTANTS
  WMM = "TSO"
  Thread = {1, 2}
  Addr = {"x", "y", "z"}
  Globals = {"x", "y", "z"}
  Val = {0, 1, 2, 3}
  Fn = {"main", "w", "linkset_add", "linkset_contains"}
  Main = "main"
  Recorded = {"linkset_add", "linkset_contains"}
  Programs <- StoreBuffering
  RecordLimit = 9
  RetryTime = 1
  programToCheck = "LINKSET"
  Asked = {"SC"}
INVARIANT AssertionsHold
CHECK_DEADLOCK FALSE
