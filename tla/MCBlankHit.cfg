SPECIFICATION Spec
CONSTANTS
  r1 = r1
  r2 = r2
  sku1 = sku1
  sku2 = sku2
  unknown = unknown
  NoKey = NoKey
  NoId = NoId
  NoMsg = NoMsg
  Keys <- AllKeys
  Ids <- AllIds
  MaxInteger = 4
  Instances <- OneReplica
  Msgs = {"a", "b"}
  Event <- TooMuchThenSome
  Malformed <- NoMalformed
  InitialStock <- SomeStock
  MaxDeliver = 2
  Faults = {}
  MaxFaults = 0
PROPERTIES
  RefusedOnlyWhenShort
CHECK_DEADLOCK FALSE
