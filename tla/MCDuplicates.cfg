SPECIFICATION Spec
CONSTANTS
  r1 = r1
  r2 = r2
  sku1 = sku1
  sku2 = sku2
  unknown = unknown
  NoKey = NoKey
  NoId = NoId
  NoMsg = NoMsg
  Keys <- AllKeys
  Ids <- AllIds
  MaxInteger = 4
  Instances <- OneReplica
  Msgs = {"a", "a2", "r", "d"}
  Event <- Duplicated
  Malformed <- NoMalformed
  InitialStock <- EachStock
  MaxDeliver = 2
  Faults = {"ack", "slow"}
  MaxFaults = 2
INVARIANTS
  AppliedOnce
  OneAnswer
  OncePerOrder
CHECK_DEADLOCK FALSE
