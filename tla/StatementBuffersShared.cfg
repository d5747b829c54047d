SPECIFICATION SpecBuffers
CONSTANTS
  Calls = {c1, c2, c3}
  Bufs = {b1, b2}
  Arity = 3
  Slots <- MCSlots
  Literal <- MCLiteral
  Text = Text
  Zero = Zero
  None = None
  Invalid = Invalid
SYMMETRY Symmetric
INVARIANTS
  TypeOK
  BuffersUnshared
  PooledBuffersClean
PROPERTIES
  BuffersComeBack
  ActsLikeDirectCalls
CHECK_DEADLOCK FALSE
