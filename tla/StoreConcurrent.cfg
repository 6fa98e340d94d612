SPECIFICATION FairSpec
CONSTANTS
  Workers <- TwoWorkers
  Machines <- MCMachines
  Values <- MCValues
  Macs <- MCMacs
  RandomMacs <- MCRandomMacs
  ReportsOf <- Concurrent
  LowerOf <- MCLowerOf
  None = ""
  NoOS = "nil"
  MaxUpserts = 6
INVARIANTS
  IInv
  RowsAreMachines
PROPERTIES
  UpsertsEnd
  NothingForgotten
