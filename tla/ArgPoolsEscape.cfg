CONSTANTS
  s1 = s1
  s2 = s2
  t1 = t1
  t2 = t2
  None = None
  Zero = Zero
  Execs = {e1, e2}
  Frames = {f1, f2}
  Blocks = {b1, b2}
  Slots = {s1, s2}
  Sites = {t1}
  RetSlot = s1
  Prog <- AliasProg
SPECIFICATION FairSpec
INVARIANTS FramesUnshared
PROPERTIES RunsAreIsolated EveryRunEnds
CHECK_DEADLOCK FALSE
