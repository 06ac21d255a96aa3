SPECIFICATION Spec
CONSTANTS
  i1 = i1
  o1 = o1
  Inbound = {i1}
  Outbound = {o1}
  None = None
  MaxOpening = 2
  MaxOrphans = 1
INVARIANTS TypeOK RingsForSomebody StreamDue MicsAccounted NothingLeftBehind
