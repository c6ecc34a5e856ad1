SPECIFICATION LiveSpec
CONSTANTS
  Agents = {a1, a2}
  Slots = {s1}
  None = None
  THRESHOLD = 1
  TRIES = 2
  MaxTime = 4
  MaxRequests = 1
  MaxLateBinds = 1
  DatabaseFails = TRUE
  a1 = a1
  a2 = a2
  s1 = s1
INVARIANTS
  TypeOK
  Fencing
  LeaseHonoured
PROPERTIES
  StaleAgentStops
  ImplementsLease
