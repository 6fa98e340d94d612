SPECIFICATION FairSpec
CONSTANTS
  Users = {"alice"}
  Browsers = {"b1"}
  Requests = {"r1", "r2"}
  TTL = 2
  SecretIsKept = TRUE
  MaxFaults = 1
INVARIANTS
  IInv
PROPERTIES
  RoleBound
  DemotedRetires
