SPECIFICATION Spec
CONSTANTS
  x = x
  y = y
  z = z
  None = None
  Slots = {x, y, z}
  Programs <- Behind
INVARIANTS PlanKeepsCalls
CHECK_DEADLOCK FALSE
