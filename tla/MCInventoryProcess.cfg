SPECIFICATION DeployedSpec
CONSTANTS
  Shippers = {"p"}
  Env <- Tag
  Scheme = "redis"
  RedisTLS = TRUE
  Configs <- OperatorConfigs
  NoStream = NoStream
  Replicas = {"r1", "r2"}
  Kinds <- TwoSubjects
  Msgs = {"b"}
  KindOf <- OneEvent
  Ids = {"id"}
  IdOf <- OneId
  Rows = {"row"}
  RowOf <- OneRow
  WithRow <- StockedDecisions
  WithBlank <- BlankDecisions
  Nobody = Nobody
  NoMsg = NoMsg
  MaxDeliver = 2
  Faults = {"redis", "nats", "crash", "slow", "outage", "ttl"}
  MaxFaults = 2
  MaxSignals = 1
INVARIANTS
  TypeOK
  StopClosesWhatItSaw
  NeverHalfSubscribed
  HandledOrKept
  RepeatsAreCaused
  EnsuredWhenUp
PROPERTIES
  EventsSettle
CHECK_DEADLOCK FALSE
