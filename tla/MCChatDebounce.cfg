SPECIFICATION Spec
CONSTANTS
  Messages = {m1, m2}
  Operators = {o1}
  MaxBubbles = 2
INVARIANTS TypeOK NothingAnsweredTwice BufferedHasTimer
PROPERTY AnsweredUnlessHuman
CHECK_DEADLOCK FALSE
