CONSTANTS
  p1 = p1
  p2 = p2
  n1 = n1
  Procs = {p1}
  Nodes = {n1}
  Sizes = {0, 2, 5}
  Missing <- NoFile
  Buffer = 2
  MayFail = FALSE
  MayLose = TRUE
  MayEdit = FALSE
SPECIFICATION Spec
INVARIANT SuccessMeansCopied
