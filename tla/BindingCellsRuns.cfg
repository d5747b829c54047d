SPECIFICATION SpecCells
CONSTANTS
  x = x y = y p = p kept = kept
  Runs = {r1, r2}
  Names = {x, y}
  Bound <- MCBound
  Pointers = {p}
  Pointee <- MCPointee
  Types = {A, B}
  Accepts = {A}
  Programs <- ThreeOps
  MaxOps = 3
  None = None
  Zero = Zero
  Room <- NoRoom
  Slack = 1
SYMMETRY Symmetric
INVARIANTS
  TypeOK
  HostKeepsItsValues
  AnswersFitTheType
PROPERTIES
  NamesArePrivate
CHECK_DEADLOCK FALSE
