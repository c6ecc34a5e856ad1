SPECIFICATION LiveSpec
CONSTANTS
  Clients = {c1, c2}
  Bids = {b1}
  Agents = {a1, a2}
  Slots = {s1, s2}
  Steady = {s1}
  None = None
  User = 1
  ROUTE_TRIES = 2
  DatabaseFails = TRUE
  Lingering = {s1}
  c1 = c1
  c2 = c2
  b1 = b1
  a1 = a1
  a2 = a2
  s1 = s1
  s2 = s2
INVARIANTS
  TypeOK
  OneAgentPerBid
  ServedIsMapped
PROPERTIES
  RoutingEnds
\* All clients are served and all slots are removed in the end.
CHECK_DEADLOCK FALSE
