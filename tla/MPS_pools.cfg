CONSTANTS
  p1 = p1
  p2 = p2
  g1 = g1
  g2 = g2
  g3 = g3
  Pools = {p1, p2}
  GPUs = {g1, g2, g3}
  GPUsOf <- MCDisjoint
  Services = {s1, s2}
  Counts = {1, 2}
  MaxClients = 2
  MaxDaemons = 3
  NoCall = nocall
SPECIFICATION Spec
INVARIANTS TypeOK GrantedIsConnected GPUCapacity IndexMatches
PROPERTY ReleaseComplete
