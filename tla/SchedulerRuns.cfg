SPECIFICATION FairSpec
CONSTANTS
  Targets = {"t1"}
  Schedules = {"s1", "s2"}
  Creds = {"c1"}
  Requests = {"r1"}
  Interval <- MCInterval
  BadTargets = {}
  SilentTargets = {"t1"}
  CanStop = TRUE
INVARIANTS
  IInv
PROPERTIES
  OnlyWhenDue
  ShutdownStartsNoScan
  RecurringScans
  DeletedRetires
