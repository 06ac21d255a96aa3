SPECIFICATION Spec
CONSTANTS
  Operators = {o1}
INVARIANT OwnerFreed
CHECK_DEADLOCK FALSE
