SPECIFICATION Spec
CONSTANTS
  a = a
  a2 = a2
  b = b
  A = A
  B = B
  e1 = e1
  e2 = e2
  f1 = f1
  m1 = m1
  m2 = m2
  None = None
  Paths = {a, a2, b}
  Folders = {A, B}
  FolderOf <- FolderTyped
  Ids = {1}
  Minutes = {m1, m2}
  Entries = {e1, e2}
  Flows = {f1}
  Used = {e1}
  MaxEdits = 2
  Lasting = {B}
  MaxBusy = 1
SYMMETRY Symmetry
INVARIANTS
  ServicesWhileLoaded
  SameFolderOnlyWithReason
  CurrentUnlessPending
  WrittenWhereMeant
  IntervalIsTheLastEntered
PROPERTIES
  GuidedIsTracked
CHECK_DEADLOCK FALSE
