SPECIFICATION Spec
CONSTANTS
  Thread = {1, 2, 3}
  Task = {1, 2}
  Checked = {"WSQ_CHASE", "WSQ_LIFO", "WSQ_FIFO", "QUEUE", "LINKSET", "LF_MALLOC"}
  Asked = {"SC", "LIN"}
  Callers <- TwoOrThree
  MaxCalls = 3
INVARIANT TypeOK VerdictIsRight TasksComeFromPuts FirstInFirstOut
PROPERTY PermutationsAdvance
CHECK_DEADLOCK FALSE
