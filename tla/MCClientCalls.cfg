SPECIFICATION Spec
CONSTANTS
  c1 = c1
  s1 = s1
  Calls = {c1, s1}
  Inbound = {c1}
  ChannelSize = 3
  None = None
INVARIANTS TypeOK MicsAccounted RingingIsLive
CHECK_DEADLOCK FALSE
