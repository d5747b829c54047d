SPECIFICATION Spec
CONSTANTS
  Calls <- ComputedCalls
  Programs <- Computed
INVARIANT ArgumentsAlwaysArrive
CHECK_DEADLOCK FALSE
