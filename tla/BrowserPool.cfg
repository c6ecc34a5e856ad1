SPECIFICATION LiveSpec
CONSTANTS
  Conns = {c1, c2, c3}
  Bids = {b1, b2}
  Browsers = {br1, br2, br3}
  None = None
  BROWSER_PER_AGENT = 1
  AGENT_REQUEST_QUEUE_LENGTH = 1
  GET_BROWSER_TRIES = 1
  CLOSE_TRIES = 2
  SharedBids = TRUE
  c1 = c1
  c2 = c2
  c3 = c3
  b1 = b1
  b2 = b2
  br1 = br1
  br2 = br2
  br3 = br3
INVARIANTS
  TypeOK
  ClientCountExact
  NoAbandonedBrowser
  NoPermitLeak
  TrackedHoldPermit
PROPERTIES
  PermitsComeBack
  QueueDrains
CHECK_DEADLOCK FALSE
