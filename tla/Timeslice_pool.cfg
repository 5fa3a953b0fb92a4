CONSTANTS
  p1 = p1
  g1 = g1
  g2 = g2
  Pools = {p1}
  GPUs = {g1, g2}
  GPUsOf <- MCTwoGPUs
  Services = {s1, s2}
  Counts = {1, 2}
  Half32 = 4
  Half64 = 32
  Beyond = 31
  Priorities <- MCPriorities
  Intervals = {0, 7}
  DefaultInterval = 7
  MinDuration = 3
  MaxSlots = 2
  MaxRecords = 3
  NoCall = nocall
SPECIFICATION FairSpec
INVARIANTS TypeOK SlotsTile EqualSharesFit AllocationsMatch
PROPERTIES SlotsKept TurnsCome
