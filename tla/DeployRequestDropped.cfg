SPECIFICATION Spec
CONSTANTS
  r1 = r1
  r2 = r2
  p1 = p1
  Requests = {r1, r2}
  NoRequest = NoRequest
  Processes = {p1}
  Lease = 4
  Safety = 3
  Writes = 2
  MaxCall = 1
PROPERTY ClaimedIsRun
CHECK_DEADLOCK FALSE
