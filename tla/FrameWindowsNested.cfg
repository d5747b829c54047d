SPECIFICATION Spec
CONSTANTS
  Calls <- MainCalls
  Programs <- Family
INVARIANTS TypeOK WindowsAreDisjoint ArgumentsArrive NoCallIsOutside
CHECK_DEADLOCK FALSE
