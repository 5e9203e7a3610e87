SPECIFICATION Spec
CONSTANTS
  r1 = r1
  r2 = r2
  sku1 = sku1
  sku2 = sku2
  unknown = unknown
  NoKey = NoKey
  NoId = NoId
  NoMsg = NoMsg
  Keys <- AllKeys
  Ids <- AllIds
  MaxInteger = 4
  Instances <- OneReplica
  Msgs = {"placed", "cancelled"}
  Event <- PlacedThenCancelled
  Malformed <- NoMalformed
  InitialStock <- SomeStock
  MaxDeliver = 2
  Faults = {}
  MaxFaults = 0
INVARIANTS
  CancelReleases
CHECK_DEADLOCK FALSE
