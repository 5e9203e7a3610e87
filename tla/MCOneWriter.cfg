SPECIFICATION Spec
CONSTANTS
  r1 = r1
  r2 = r2
  sku1 = sku1
  sku2 = sku2
  unknown = unknown
  NoKey = NoKey
  NoId = NoId
  NoMsg = NoMsg
  Keys <- AllKeys
  Ids <- AllIds
  MaxInteger = 4
  Instances <- OneReplica
  Msgs = {"a", "c", "s"}
  Event <- OneWriter
  Malformed <- NoMalformed
  InitialStock <- EachStock
  MaxDeliver = 2
  Faults = {"redis", "db", "publish", "ack", "slow", "panic", "crash", "ttl"}
  MaxFaults = 1
INVARIANTS
  ReservationsHeld
  Inv
PROPERTIES
  LedgerSpec
CHECK_DEADLOCK FALSE
