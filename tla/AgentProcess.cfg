SPECIFICATION LiveSpec
CONSTANTS
  Requests = {hb, other}
  HB = hb
  Token = token
  AgentIds = {slot}
  Slot = slot
  TTL = 2
  DELAY = 0
  MaxTime = 3
  TRIES = 2
INVARIANTS ProcessTypeOK InterruptReachesChild
PROPERTIES WithdrawnExpires AskedChildEnds RemovedAgentStops
CHECK_DEADLOCK FALSE
