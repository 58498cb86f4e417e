SPECIFICATION Spec
CONSTANTS
  r1 = r1
  r2 = r2
  Requests = {r1, r2}
  Options <- MCOptions
  MaxPauses = 1
SYMMETRY Symmetry
INVARIANTS
  FloorMaintained
  PhysicalWithinMaxLive
CHECK_DEADLOCK FALSE
