SPECIFICATION FairSpec
CONSTANTS
  NumJobs = 4
  Concurrency = 2
INVARIANTS
  IInv
PROPERTIES
  RunReturns
  ImplementsPool
CHECK_DEADLOCK FALSE
