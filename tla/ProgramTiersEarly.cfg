SPECIFICATION Spec
CONSTANTS
  x = x
  y = y
  z = z
  None = None
  Slots = {x, y, z}
  Programs <- Early
INVARIANTS TiersAgree
CHECK_DEADLOCK FALSE
