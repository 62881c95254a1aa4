SPECIFICATION Spec
CONSTANTS
  NUMCORES = 2
  ROBSIZE = 2
  MAX_RETIRE = 1
  MAX_FETCH = 1
  PIPELINEDEPTH = 1
  L3_LATENCY = 1
  WQ_LOOKUP_LATENCY = 1
  WQ_CAPACITY = 1
  RQ_CAPACITY = 2
  ReadLatency = 1
  Stalls = {0, 2}
  INSTRUCTIONS = 1
  BIGNUM = 99
  Nil = Nil
  Lines <- SharedLine
CHECK_DEADLOCK FALSE
INVARIANT SecondReadIsServed
