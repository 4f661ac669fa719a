CONSTANTS
  Self = 1
  NodeLists <- Lists
  Modulus = 3
  TableSize = 3
  MaxConnects = 2
  LastShow = 1
  MayFail = TRUE
  Others = {2}
SPECIFICATION Spec
INVARIANTS TypeOK SaidIsTrue LostByReconnect OneDispatcherEach ShowsEveryNode
