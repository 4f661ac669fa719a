CONSTANTS
  p1 = p1
  p2 = p2
  n1 = n1
  Procs = {p1, p2}
  Nodes = {n1}
  Sizes = {1, 2, 3}
  Missing <- NoFile
  Buffer = 2
  MayFail = TRUE
  MayLose = FALSE
  MayEdit = TRUE
SPECIFICATION Spec
INVARIANTS TypeOK CopyExact ErrorLeavesOldOrEmpty OnlyInitFailureLeaks BytesInPlace
