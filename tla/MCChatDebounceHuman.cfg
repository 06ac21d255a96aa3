SPECIFICATION Spec
CONSTANTS
  Messages = {m1, m2}
  Operators = {o1}
  MaxBubbles = 2
PROPERTY HumanSilencesAI
CHECK_DEADLOCK FALSE
