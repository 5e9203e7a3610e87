SPECIFICATION Spec
CONSTANTS
  c1 = c1
  c2 = c2
  Clients <- Callers
  Ids = {"s1", "s2"}
  Headers = {"here", "there", "moved", "seed"}
  NullTimes = {"seed"}
  Tracking <- Numbers
  Keys = {1, 2}
  NoHeader = NoHeader
  NoShipment = NoShipment
  Complete <- Handed
  NewShipments <- Ordered
  Updates <- Changes
  Seeded <- FromSeed
  Faults = {}
  MaxFaults = 0
  MaxCalls = 3
SYMMETRY Symmetry
PROPERTIES
  HistoryReplaced
CHECK_DEADLOCK FALSE
