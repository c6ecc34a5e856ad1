SPECIFICATION Spec
CONSTANTS
  Conns = {c1, c2, c3, c4}
  Bids = {b1}
  Browsers = {br1, br2, br3, br4, br5, br6}
  None = None
  BROWSER_PER_AGENT = 1
  AGENT_REQUEST_QUEUE_LENGTH = 1
  GET_BROWSER_TRIES = 2
  CLOSE_TRIES = 2
  SharedBids = TRUE
  c1 = c1
  c2 = c2
  c3 = c3
  c4 = c4
  b1 = b1
  br1 = br1
  br2 = br2
  br3 = br3
  br4 = br4
  br5 = br5
  br6 = br6
SYMMETRY Symmetry
INVARIANTS
  CapacityRespected
CHECK_DEADLOCK FALSE
