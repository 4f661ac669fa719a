CONSTANTS
  p1 = p1
  p2 = p2
  n1 = n1
  Procs = {p1, p2}
  Lines <- LinesOf
  Host <- HostOf
  Number <- NumberOf
  Nodes = {n1}
  NodeIds = {1, 2}
  MaxOutput = 0
  UintValues = 4
  Sizes = {1}
  Missing <- NoFile
  Buffer = 1
  MayFail = TRUE
  MayLose = TRUE
SPECIFICATION FairSpec
INVARIANTS ResetOutcome LinesTrue EveryAddressHandled
CHECK_DEADLOCK FALSE
PROPERTY RunEnds
