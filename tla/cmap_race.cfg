CONSTANTS
  p1 = p1
  p2 = p2
  d1 = d1
  d2 = d2
  Procs = {p1, p2}
  Keys = {"k"}
  ValidTypes <- Types
  Data = {d1, d2}
  Width <- Widths
  MayFail = TRUE
SPECIFICATION Spec
INVARIANTS TypeOK NoHandleLeak ShapeFollowsType
PROPERTIES RegistersSpec QuietDeleteReturnsVictim
