SPECIFICATION Spec
CONSTANTS
  v1 = v1
  v2 = v2
  k1 = k1
  k2 = k2
  l1 = l1
  l2 = l2
  Specialists = {v1, v2}
  ChatAgents = {k1, k2}
  None = None
  Slots = {l1, l2}
  MaxUnderWay = 2
  MaxGone = 1
INVARIANTS TypeOK SpecialistsKeepText ChatAgentsKeepText
SYMMETRY Symmetry
