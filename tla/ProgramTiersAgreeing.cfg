SPECIFICATION Spec
CONSTANTS
  x = x
  y = y
  z = z
  None = None
  Slots = {x, y, z}
  Programs <- Agreeing
INVARIANTS PlanKeepsCalls PlanKeepsReads TiersAgree
CHECK_DEADLOCK FALSE
