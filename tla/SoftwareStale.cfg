SPECIFICATION ListSpec
CONSTANTS
  Titles = {1, 2, 3, 4}
  Terms <- MCTerms
  Tables <- MCTables
  Page = 2
  MaxChanges = 1
  MaxCommits = 0
  MaxFailures = 0
INVARIANTS
  RowsBelongToTerm
CHECK_DEADLOCK FALSE
