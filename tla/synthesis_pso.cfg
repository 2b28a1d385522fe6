SPECIFICATION SSpec
CONSTANTS
  WMM = "PSO"
  Thread = {1, 2}
  Addr = {"x", "y", "z"}
  Globals = {"x", "y", "z"}
  Val = {0, 1, 2, 3}
  Fn = {"main", "w", "linkset_add", "linkset_contains"}
  Main = "main"
  Recorded = {"linkset_add", "linkset_contains"}
  Programs <- Exchange
  RecordLimit = 11
  RetryTime = 2
  programToCheck = "LINKSET"
  Asked = {"SC", "LIN"}
INVARIANT LiteralsAreDelays NoDelayNoBug FencedStoresAreNotBlamed
  FencedStoresAreNotOvertaken
PROPERTY DelayFreeStepsAreSC
CHECK_DEADLOCK FALSE
