CONSTANTS
  Pools = {p1, p2}
  Services = {s1, s2}
  Profiles = {small, large}
  UnknownProfile = unknown
  NoService = none
  Counts = {1, 2}
  MaxObjects = 3
SPECIFICATION Spec

INVARIANTS HeldIsMarked IndexedMarksAreHeld
PROPERTIES ImplementsAllocator
