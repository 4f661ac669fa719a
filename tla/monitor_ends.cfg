CONSTANTS
  MaxRing = 2
  MayFail = FALSE
SPECIFICATION Spec
INVARIANT RunsUntilStopped
