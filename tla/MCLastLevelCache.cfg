SPECIFICATION Spec
CONSTANTS
  Tags = {0, 1, 3, 6}
  sets = 3
  assocs = 2
  Policies = {"LRU", "RND", "SRRIP", "DRRIP", "FIFO", "DIP"}
  SRRIP_MAX = 2
  SRRIP_INIT = 1
  PSEL_MAX = 1
  LEADER_SETS = 0
  Users = {"L3", "CCache"}
  NoTag = NoTag
  MaxAccesses = 5
CHECK_DEADLOCK FALSE
INVARIANTS
  TypeOK
  NoLineTwice
  WritesNotLost
PROPERTY EvictsTheOldest
