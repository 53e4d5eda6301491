SPECIFICATION Spec
CONSTANTS
  r1 = r1
  r2 = r2
  p1 = p1
  p2 = p2
  Requests = {r1, r2}
  NoRequest = NoRequest
  Processes = {p1, p2}
  Lease = 4
  Safety = 3
  Writes = 2
  MaxCall = 1
INVARIANTS TypeOK RunAtMostOnce WritesWithinLease AnnouncementsAgree
PROPERTIES VerdictIsFinal KeepsDeployContract
CHECK_DEADLOCK FALSE
