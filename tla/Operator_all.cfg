CONSTANTS
  p1 = p1
  small = small
  Pools = {p1}
  Services = {s1}
  Profiles = {small}
  UnknownProfile = unknown
  NoService = none
  NoPool = nopool
  NoSpec = nospec
  Counts = {1}
  MaxObjects = 1
  MaxFaults = 1
  PoolSpecs <- MCPoolSpecs
  SvcSpecs <- MCSvcSpecs
SPECIFICATION FairSpec
INVARIANTS TypeOK ReleasedBeforeGone NoOrphans
PROPERTIES ServiceDeletionCompletes PoolDeletionCompletes PoolGetsConfigured
