SPECIFICATION CleanerSpec
CONSTANTS
  Conns = {c1, c2}
  Bids = {b1, b2}
  Browsers = {br1, br2}
  None = None
  BROWSER_PER_AGENT = 1
  AGENT_REQUEST_QUEUE_LENGTH = 1
  GET_BROWSER_TRIES = 1
  CLOSE_TRIES = 1
  SharedBids = FALSE
  SlowLaunch = TRUE
  c1 = c1
  c2 = c2
  b1 = b1
  b2 = b2
  br1 = br1
  br2 = br2
PROPERTIES
  KillsOnlyOutOfControl
CHECK_DEADLOCK FALSE
