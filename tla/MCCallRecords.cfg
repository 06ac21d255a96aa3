SPECIFICATION Spec
CONSTANTS
  Operators = {o1}
INVARIANTS
  TypeOK
  OneAnswers
  LiveCallListed
  RecordingListed
  RecordingStored
PROPERTY EndedCallArchived
CHECK_DEADLOCK FALSE
