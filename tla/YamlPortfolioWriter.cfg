SPECIFICATION Spec
CONSTANTS
  a = a
  b = b
  c = c
  None = None
  Writers = {w1, w2, w3}
  Entries = {a, b, c}
  Batches <- MCBatches
  MayOverlap = FALSE
  MaxCrashes = 2
CHECK_DEADLOCK FALSE
INVARIANTS
  NeverHalfWritten
PROPERTIES
  ImplementsPortfolioFile
  OutcomeMatchesFile
