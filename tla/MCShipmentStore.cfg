SPECIFICATION Spec
CONSTANTS
  c1 = c1
  c2 = c2
  Clients <- Callers
  Ids = {"s1", "s2"}
  Headers = {"here", "there", "moved", "seed"}
  NullTimes = {"seed"}
  Tracking <- Numbers
  Keys = {1, 2}
  NoHeader = NoHeader
  NoShipment = NoShipment
  Complete <- Handed
  NewShipments <- Ordered
  Updates <- Changes
  Seeded <- FromSeed
  Faults = {"db", "redis", "rows", "crash", "ttl"}
  MaxFaults = 1
  MaxCalls = 2
SYMMETRY Symmetry
INVARIANTS
  TypeOK
  CacheIsFresh
  FilledIsStored
  PartialIsReported
PROPERTIES
  CommitsWhole
CHECK_DEADLOCK FALSE
