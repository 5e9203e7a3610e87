SPECIFICATION FairSpec
CONSTANTS
  r1 = r1
  r2 = r2
  NoId = NoId
  NoMsg = NoMsg
  Ids <- AllIds
  Replicas <- OneReplica
  Middlewares <- Idempotent
  Msgs = {"a", "f", "p", "g"}
  IdOf <- OneOfEach
  Behaviour <- WhatEachDoes
  Malformed <- GarbledOnly
  MaxDeliver = 2
  Faults = {"redis", "handler", "ack", "slow", "crash", "ttl"}
  MaxFaults = 1
INVARIANTS
  AckedWasHandled
PROPERTIES
  HandlingSpec
  EverySettles
  FailuresAreBuried
CHECK_DEADLOCK FALSE
