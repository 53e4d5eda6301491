SPECIFICATION FairSpec
CONSTANTS
  o1 = o1
  w1 = w1
  Orders = {o1}
  Licensed = {o1}
  Expirable = {o1}
  Target = o1
  Refunds = {}
  Workers = {w1}
  Replayed = {}
  MaxFaults = 2
PROPERTY PartialFailureResumes
CHECK_DEADLOCK FALSE
