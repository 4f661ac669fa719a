CONSTANTS
  c1 = c1
  c2 = c2
  Clients = {c1, c2}
  NodeIds = {1}
  Nodes = {1}
  LocalNode = 1
  VoteArgs = {0, 2}
  Calls <- VoteWriters
  InitialExpected = 1
  Modulus = 4
  MayFail = TRUE
SPECIFICATION Spec
INVARIANTS AdjustExact FailedAdjustFootprint
SYMMETRY Symmetry
