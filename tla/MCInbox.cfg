SPECIFICATION Spec
CONSTANTS
  k1 = k1
  k2 = k2
  w1 = w1
  Convs = {k1, k2}
  Workspaces = {w1}
  Of <- MCOf
  None = None
  MaxLog = 2
  MaxFetches = 2
  MaxSockets = 2
INVARIANTS TypeOK NoDuplicates PageListens
PROPERTY StaysTrue
