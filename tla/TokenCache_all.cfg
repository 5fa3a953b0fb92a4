CONSTANTS
  Caches = {c1, c2}
  name = name
  NameOf <- MCNameOf
  Specs <- MCSpecs
  MaxFaults = 1
  NoCache = nocache
  NoSpec = nospec
SPECIFICATION FairSpec
INVARIANTS ConfiguredIsStored NoOrphans
PROPERTIES CacheDeletionCompletes CacheGetsConfigured StatusFollowsTiers OwnedGetCreated
