SPECIFICATION Spec
CONSTANTS
  r1 = r1
  r2 = r2
  NoId = NoId
  NoMsg = NoMsg
  Ids <- AllIds
  Replicas <- TwoReplicas
  Middlewares <- Claiming
  Msgs = {"a", "a2", "f"}
  IdOf <- TwiceAndFailing
  Behaviour <- WhatTheyDo
  Malformed <- NoneMalformed
  MaxDeliver = 2
  Faults = {"redis", "handler", "panic", "publish", "ack", "slow", "crash"}
  MaxFaults = 2
SYMMETRY Symmetric
INVARIANTS
  TypeOK
  ClaimedRunsOnce
CHECK_DEADLOCK FALSE
