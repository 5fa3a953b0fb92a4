CONSTANTS
  p1 = p1
  small = small
  Pools = {p1}
  Services = {s1, s2}
  Profiles = {small}
  UnknownProfile = unknown
  NoService = none
  NoPool = nopool
  NoSpec = nospec
  Counts = {1}
  MaxObjects = 2
  MaxFaults = 0
  PoolSpecs <- MCOnePoolSpec
  SvcSpecs <- MCOneSvcSpec
SPECIFICATION Spec
INVARIANT ReportedInstancesExclusive
