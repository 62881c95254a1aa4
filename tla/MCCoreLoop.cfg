SPECIFICATION FairSpec
CONSTANTS
  NUMCORES = 1
  ROBSIZE = 3
  MAX_RETIRE = 2
  MAX_FETCH = 2
  PIPELINEDEPTH = 1
  L3_LATENCY = 1
  WQ_LOOKUP_LATENCY = 1
  WQ_CAPACITY = 1
  RQ_CAPACITY = 2
  ReadLatency = 1
  Stalls = {0, 2}
  INSTRUCTIONS = 2
  BIGNUM = 99
  Nil = Nil
  Lines <- TwoLines
CHECK_DEADLOCK FALSE
INVARIANTS
  TypeOK
  RequestOwnsItsEntry
  LoadsAndStoresCounted
  SecondReadIsServed
PROPERTIES
  ImplementsInOrder
  ExperimentEnds
