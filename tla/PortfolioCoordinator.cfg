SPECIFICATION Spec
CONSTANTS
  MaxLoads = 2
  MaxDay = 1
  None = None
INVARIANTS
  IssuesMatchData
PROPERTIES
  ImplementsSeries

