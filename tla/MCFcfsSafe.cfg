SPECIFICATION Spec
CONSTANTS
  Ranks = {0, 1}
  Banks = {0}
  Rows = {0}
  T_RCD = 2
  T_RP = 1
  T_CAS = 3
  T_RC = 4
  T_RAS = 3
  T_RRD = 2
  T_WR = 1
  T_WTR = 1
  T_RTP = 1
  T_CCD = 1
  T_RFC = 2
  T_REFI = 9
  T_CWD = 1
  T_RTRS = 1
  T_PD_MIN = 2
  T_XP = 2
  T_XP_DLL = 3
  T_DATA_TRANS = 2
  Burst = 2
  T_SWAP <- MCSwap
  T_MOVE <- MCMove
  T_STALL <- MCStall
  Modes = {2, 3, 4, 6}
  RQENABLE = TRUE
  NUMCORES = 1
  WQ_CAPACITY = 2
  RQ_CAPACITY = 1
  HI_WM = 1
  LO_WM = 0
  MaxFetches = 3
  MaxEpochs = 1
  MaxOthers = 0
  MaxCounters = 1
INVARIANT TypeOK
PROPERTIES
  ActivatedAfterMitigation
  OrdersAreIssued
  DataBusExclusive
