CONSTANTS
  N = 2
  LocalNode = 1
  MayFail = TRUE
SPECIFICATION FairSpec
INVARIANTS TypeOK NoHandleLeak OverrunOnlyByGrowth PrintsMembers PrintsAllMembers
PROPERTY PrintReturns
