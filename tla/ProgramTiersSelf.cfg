SPECIFICATION Spec
CONSTANTS
  x = x
  y = y
  z = z
  None = None
  Slots = {x, y, z}
  Programs <- Self
INVARIANTS TiersAgree
CHECK_DEADLOCK FALSE
