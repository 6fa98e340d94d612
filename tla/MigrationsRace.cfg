SPECIFICATION FairSpec
CONSTANTS
  Procs = {"old", "new1", "new2"}
  Release <- MCRelease
  MaxFaults = 2
  Last = 3
INVARIANTS
  IInv
PROPERTIES
  AllServe
