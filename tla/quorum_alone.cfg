CONSTANTS
  c1 = c1
  c2 = c2
  Clients = {c1}
  NodeIds = {1, 2, 3}
  Nodes = {1, 2}
  LocalNode = 2
  VoteArgs = {0, 1, 3}
  Calls <- AllCalls
  InitialExpected = 2
  Modulus = 4
  MayFail = TRUE
SPECIFICATION FairSpec
INVARIANTS TypeOK NoHandleLeak
PROPERTIES LedgerSpec CallsReturn
