SPECIFICATION FairSpec
CONSTANTS
  r1 = r1
  r2 = r2
  r3 = r3
  i1 = i1
  i2 = i2
  None = None
  Rows <- MCRows
  Ids = {i1, i2}
  IdOf <- MCIdOf
  Alike <- MCAlike
  Files <- MCFiles
  FirstLogs <- MCLogs
  Calls = {1, 2, 3}
  MaxRestarts = 1
INVARIANTS
  UnreadableOnlyIfBlamed
  StaleOnlyWithReason
PROPERTIES
  ReportNeverLost
  SecondWriteIsNoticed
  AppliedIsReviewed
  ImplementsReview
  CatchesUp
