SPECIFICATION Spec
CONSTANTS
  Credentials <- MCCredentials
  Machines <- MCMachines
  MaxEdits = 3
INVARIANTS
  IInv
  OneLogin
  OutcomeExplained
  WorkingCredentialSuffices
  RescanAgrees
