SPECIFICATION Spec
CONSTANTS
  Operators = {o1}
PROPERTY ClaimKept
CHECK_DEADLOCK FALSE
