SPECIFICATION Spec
CONSTANTS
  a = a
  b = b
  c = c
  None = None
  Writers = {w1, w2}
  Entries = {a, b, c}
  Batches <- MCBatches
  MayOverlap = TRUE
  MaxCrashes = 0
CHECK_DEADLOCK FALSE
PROPERTY
  AppendOnly
