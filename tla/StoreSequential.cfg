SPECIFICATION RSpec
CONSTANTS
  Workers <- OneWorker
  Machines <- MCMachines
  Values <- MCValues
  Macs <- MCMacs
  RandomMacs <- MCRandomMacs
  ReportsOf <- Sequential
  LowerOf <- MCLowerOf
  None = ""
  NoOS = "nil"
  MaxUpserts = 6
  PageLimit = 1
INVARIANTS
  RowsAreMachines
  TimelineMatchesRow
  InventoryNotBehindRow
  PageNotShort
PROPERTIES
  RescanIsStable
