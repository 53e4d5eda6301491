SPECIFICATION FairSpec
CONSTANTS
  r1 = r1
  g1 = g1
  w1 = w1
  w2 = w2
  Actions = {r1, g1}
  Receipts = {r1}
  Relinks = {g1}
  Workers = {w1, w2}
  NoJob = NoJob
  HandlerMaxRetries = 1
  MaxRetries = 1
  MaxDefers = 1
  MaxReopens = 0
  MaxFaults = 1
INVARIANTS TypeOK OneOwner AtMostOneDelivery VerdictFollowsEvidence
  UnresolvedIsNotRequeued AuditAgrees
PROPERTY EventuallySettled
CHECK_DEADLOCK FALSE
