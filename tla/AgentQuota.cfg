SPECIFICATION LiveSpec
CONSTANTS
  Requests = {r1, r2, r3}
  Binds = {b1}
  Ids = {i1, i2, i3}
  Add = Add
  None = None
  MAX = 2
  POOL = 3
INVARIANTS TypeOK AccountsBalance LimitHolds RemovableWhileCounted
PROPERTIES RequestsEnd
CHECK_DEADLOCK FALSE
