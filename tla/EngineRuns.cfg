SPECIFICATION MFairSpec
CONSTANTS
  AllJobs = {"h1", "h2", "h3"}
  Width = 2
  VMs = {"v1"}
  Hypervisors = {"h1"}
  NumCollectors <- MCNumCollectors
  Unresponsive = {"h2"}
  CanCancel = TRUE
  CanCrash = TRUE
  MaxFaults = 1
  EventLimit = 2
INVARIANTS
  MInv
  OkMeansComplete
  FinalViewComplete
PROPERTIES
  NothingAfterFinish
  SettlesUndisturbed
  PageSettles
