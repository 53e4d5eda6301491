SPECIFICATION FairSpec
CONSTANTS
  g1 = g1
  w1 = w1
  w2 = w2
  Actions = {g1}
  Receipts = {}
  Relinks = {g1}
  Workers = {w1, w2}
  NoJob = NoJob
  HandlerMaxRetries = 1
  MaxRetries = 2
  MaxDefers = 2
  MaxReopens = 2
  MaxFaults = 2
INVARIANT RetryBudget
PROPERTIES VerdictIsFinal EventuallySettled
CHECK_DEADLOCK FALSE
