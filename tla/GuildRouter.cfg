SPECIFICATION FairSpec
CONSTANTS
  g1 = g1
  g2 = g2
  c1 = c1
  c2 = c2
  Guilds = {g1, g2}
  Primary = g1
  Callers = {c1, c2}
  MaxLeaves = 2
  MaxFaults = 2
INVARIANTS TypeOK OneContextPerGuild DrainLeavesNothing
PROPERTIES HandedOutIsKept LeftGuildIsTornDown
CHECK_DEADLOCK FALSE
