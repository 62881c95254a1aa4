SPECIFICATION ChannelSpec
CONSTANTS
  Ranks = {0, 1}
  Banks = {0}
  Rows = {0}
  T_RCD = 2
  T_RP = 1
  T_CAS = 3
  T_RC = 4
  T_RAS = 3
  T_RRD = 2
  T_WR = 1
  T_WTR = 1
  T_RTP = 1
  T_CCD = 1
  T_RFC = 1
  T_REFI = 5
  T_CWD = 1
  T_RTRS = 1
  T_PD_MIN = 2
  T_XP = 2
  T_XP_DLL = 3
  T_DATA_TRANS = 2
  Burst = 2
  T_SWAP = 2
  T_MOVE = 2
  T_STALL = 2
PROPERTY PowerUpMeetsDeadline
