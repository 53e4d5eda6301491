SPECIFICATION FairSpec
CONSTANTS
  o1 = o1
  o2 = o2
  f = f
  w1 = w1
  w2 = w2
  Orders = {o1, o2}
  Licensed = {o1}
  Expirable = {o1}
  Target = o1
  Refunds = {f}
  Workers = {w1, w2}
  Replayed = {o1, f}
  MaxFaults = 1
INVARIANTS TypeOK OneLiveAccess RefundedHasNothing MoneyCountedOnce
  AckedCaptureNotLost
PROPERTIES RefundTakesEffect CaptureSettles
CHECK_DEADLOCK FALSE
