CONSTANTS
  Path = {p1, p2, p3}
  NoPath = NoPath
  NSlots = 2
  TTL = 1
  Latency = 1
  MaxTime = 3
  MaxVer = 1
  MaxTick = 4
SPECIFICATION Spec
INVARIANTS
  OneSlotPerPath
  SlotsHonest
PROPERTIES
  ImplementsListingSource
  EvictsLeastRecentlyUsed
SYMMETRY PathSymmetry
