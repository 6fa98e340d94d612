SPECIFICATION ListFairSpec
CONSTANTS
  Titles = {1, 2, 3, 4}
  Terms <- MCTerms
  Tables <- MCTables
  Page = 2
  MaxChanges = 2
  MaxCommits = 1
  MaxFailures = 2
INVARIANTS
  ListInv
  ListExact
PROPERTIES
  ScrollingEnds
CHECK_DEADLOCK FALSE
