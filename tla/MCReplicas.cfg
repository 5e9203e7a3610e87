SPECIFICATION Spec
CONSTANTS
  r1 = r1
  r2 = r2
  sku1 = sku1
  sku2 = sku2
  unknown = unknown
  NoKey = NoKey
  NoId = NoId
  NoMsg = NoMsg
  Keys <- AllKeys
  Ids <- AllIds
  MaxInteger = 4
  Instances <- TwoReplicas
  Msgs = {"a", "b"}
  Event <- TwoOrders
  Malformed <- NoMalformed
  InitialStock <- SomeStock
  MaxDeliver = 2
  Faults = {"redis", "db", "publish", "ack", "slow", "panic", "crash", "ttl"}
  MaxFaults = 2
SYMMETRY Replicas
INVARIANTS
  TypeOK
  UpdatesKeepCheck
  AnnouncedAreStored
  HandledIsAnswered
CHECK_DEADLOCK FALSE
