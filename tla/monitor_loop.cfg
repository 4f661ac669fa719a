CONSTANTS
  MaxRing = 4
  MayFail = TRUE
SPECIFICATION FairSpec
INVARIANTS TypeOK NothingLeftOpen NeverWaitsUntracked ShownIsCurrent
PROPERTY ChangeIsShown
