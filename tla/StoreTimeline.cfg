SPECIFICATION Spec
CONSTANTS
  Workers <- TwoWorkers
  Machines <- MCMachines
  Values <- MCValues
  Macs <- MCMacs
  RandomMacs <- MCRandomMacs
  ReportsOf <- TwoAddresses
  LowerOf <- MCLowerOf
  None = ""
  NoOS = "nil"
  MaxUpserts = 3
INVARIANTS
  TimelineMatchesRow
