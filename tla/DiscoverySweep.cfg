SPECIFICATION FairSpec
CONSTANTS
  AllJobs <- Address
  Width = 2
  Top = 3
  SpecLists <- MCSpecLists
  Alive <- MCAlive
  PerSec = 2
INVARIANTS
  IInv
  ExpandExact
  SweepComplete
PROPERTIES
  SweepEnds
