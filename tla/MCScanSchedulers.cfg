SPECIFICATION Spec
CONSTANTS
  Ranks = {0}
  Banks = {0}
  Rows = {0, 1}
  T_RCD = 2
  T_RP = 1
  T_CAS = 3
  T_RC = 4
  T_RAS = 3
  T_RRD = 2
  T_WR = 1
  T_WTR = 1
  T_RTP = 2
  T_CCD = 1
  T_RFC = 2
  T_REFI = 9
  T_CWD = 1
  T_RTRS = 1
  T_PD_MIN = 2
  T_XP = 2
  T_XP_DLL = 3
  T_DATA_TRANS = 2
  Burst = 2
  T_SWAP = 0
  T_MOVE = 0
  T_STALL = 0
  NUMCORES = 2
  WQ_CAPACITY = 2
  RQ_CAPACITY = 2
  HI_WM = 1
  LO_WM = 0
  MaxFetches = 2
  Schedulers = {"frfcfs", "closepage", "bta", "pr", "fs", "lps", "tp", "camou"}
  SlotLps = 3
  SlotTp = 9
  Gap = 5
  BinEpoch = 9
  BinSize = 2
  Cycle = 18
INVARIANT TypeOK
PROPERTIES
  OneReadPerRow
  ReadsServed
  WritesServed
