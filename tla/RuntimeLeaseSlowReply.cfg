SPECIFICATION Spec
CONSTANTS
  s1 = s1
  s2 = s2
  Sessions = {s1, s2}
  NoSession = NoSession
  TTL = 18
  HeartbeatPeriod = 4
  LossDeadline = 14
  MaxDelay = 3
INVARIANT OneActiveRuntime
CHECK_DEADLOCK FALSE
