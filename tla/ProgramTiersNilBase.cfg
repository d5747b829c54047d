SPECIFICATION Spec
CONSTANTS
  x = x
  y = y
  z = z
  None = None
  Slots = {x, y, z}
  Programs <- NilPointer
INVARIANTS TiersAgree
CHECK_DEADLOCK FALSE
