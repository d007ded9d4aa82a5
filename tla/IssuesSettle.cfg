SPECIFICATION FairSpec
CONSTANTS
  MaxLoads = 1
  MaxDay = 1
  None = None
PROPERTY
  IssuesSettle
