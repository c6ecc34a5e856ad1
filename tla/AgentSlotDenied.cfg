SPECIFICATION Spec
CONSTANTS
  Agents = {a1, a2}
  Slots = {s1}
  None = None
  THRESHOLD = 1
  TRIES = 2
  MaxTime = 5
  MaxRequests = 2
  MaxLateBinds = 1
  DatabaseFails = FALSE
  a1 = a1
  a2 = a2
  s1 = s1
SYMMETRY Symmetry
INVARIANTS
  DeniedOnlyIfLost
