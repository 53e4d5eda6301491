SPECIFICATION Spec
CONSTANTS
  r1 = r1
  r2 = r2
  w1 = w1
  w2 = w2
  Actions = {r1, r2}
  Receipts = {r1, r2}
  Relinks = {}
  Workers = {w1, w2}
  NoJob = NoJob
  HandlerMaxRetries = 1
  MaxRetries = 2
  MaxDefers = 0
  MaxReopens = 0
  MaxFaults = 2
SYMMETRY InterchangeableIds
INVARIANT FailureIsVisible
PROPERTIES KeepsReceiptContract
CHECK_DEADLOCK FALSE
