CONSTANTS
  s1 = s1
  s2 = s2
  t1 = t1
  t2 = t2
  None = None
  Zero = Zero
  Execs = {e1, e2}
  Frames = {f1, f2}
  Blocks = {b1, b2, b3, b4}
  Slots = {s1, s2}
  Sites = {t1, t2}
  RetSlot = s2
  Prog <- PooledProg
SPECIFICATION Spec
INVARIANTS TypeOK FramesUnshared BlocksUnshared PooledBlocksCleared
PROPERTIES FinishReturnsEverything RunsAreIsolated
SYMMETRY MemorySymmetry
CHECK_DEADLOCK FALSE
