SPECIFICATION FairSpec
CONSTANTS
  r1 = r1
  r2 = r2
  sku1 = sku1
  sku2 = sku2
  unknown = unknown
  NoKey = NoKey
  NoId = NoId
  NoMsg = NoMsg
  Keys <- AllKeys
  Ids <- AllIds
  MaxInteger = 4
  Instances <- OneReplica
  Msgs = {"garbled", "nowhere", "overflow"}
  Event <- Poison
  Malformed <- GarbledOnly
  InitialStock <- SomeStock
  MaxDeliver = 5
  Faults = {"redis", "db", "ack", "slow", "crash", "ttl"}
  MaxFaults = 1
INVARIANTS
  BuriedOnlyWhenExhausted
PROPERTIES
  PoisonIsBuried
  EverySettles
  HandlingSpec
CHECK_DEADLOCK FALSE
