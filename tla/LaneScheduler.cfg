SPECIFICATION FairSpec
CONSTANTS
  c1 = c1
  c2 = c2
  g1 = g1
  g2 = g2
  g3 = g3
  x1 = x1
  x2 = x2
  Tasks = {c1, c2, g1, g2, g3}
  Commerce = {c1, c2}
  Swept = {c2, g3}
  Sweeps = {x1, x2}
  NoTask = NoTask
  Budget = 1
INVARIANTS TypeOK SlotsAccounted QuietAfterStop
PROPERTIES NoBarging CommerceNotStarved StopResolves
CHECK_DEADLOCK FALSE
