SPECIFICATION Spec
CONSTANTS
  MAX_ZONES = 4
  FIRST_DYNAMIC = 2
  NumCpus = 2
  MaxViews = 2
  KernelThread = {t1, t2}
  Elem = {e1, e2, e3}
  MaxCount = 2
  MaxReserve = 3
  Sizes = {5, 4097}
  ChunkSizes <- AllSizes
SYMMETRY Symmetry
CONSTRAINT PlainZones
INVARIANTS
  ZonesRegistered
  ChunksHoldElements
  ElementsAccounted
  AllOrNothing
  ReserveReached
