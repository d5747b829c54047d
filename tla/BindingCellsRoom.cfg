SPECIFICATION SpecCells
CONSTANTS
  x = x y = y p = p kept = kept
  Runs = {r1, r2}
  Names = {x, y}
  Bound <- MCBound
  Pointers = {p}
  Pointee <- MCPointee
  Types = {}
  Accepts = {}
  Programs <- AppendAndRead
  MaxOps = 2
  None = None
  Zero = Zero
  Room <- SomeRoom
  Slack = 0
INVARIANT RunsSeeNoOther
CHECK_DEADLOCK FALSE
