CONSTANTS
  c1 = c1
  c2 = c2
  n1 = n1
  Clients = {c1, c2}
  Nodes = {n1}
  Commands <- AndAMeddler
  Addresses = {"ring", "alt"}
  MaxOutput = 0
  UintValues = 4
  MayFail = TRUE
  MayLose = TRUE
SPECIFICATION Spec
INVARIANTS TypeOK OnlyAuthFailureLeaks CodeTellsNode
PROPERTY KeepsPromise
