SPECIFICATION Spec
CONSTANTS
  w1 = w1
  w2 = w2
  s1 = s1
  s2 = s2
  c1 = c1
  c2 = c2
  d1 = d1
  d2 = d2
  Workspaces = {w1, w2}
  Sessions = {s1, s2}
  Contacts = {c1, c2}
  Documents = {d1, d2}
  Home <- MCHome
  Fresh = {w2, s2, c2, d2}
  None = None
  MaxWrites = 1
  MaxReads = 1
  MaxChanged = 1
INVARIANTS TypeOK RecordsKeepTheirs
CHECK_DEADLOCK FALSE
