SPECIFICATION Spec
CONSTANTS
  s1 = s1
  s2 = s2
  Sessions = {s1, s2}
  NoSession = NoSession
  TTL = 18
  HeartbeatPeriod = 4
  LossDeadline = 14
  MaxDelay = 1
INVARIANTS TypeOK OneActiveRuntime GatewayWithinLease
CHECK_DEADLOCK FALSE
