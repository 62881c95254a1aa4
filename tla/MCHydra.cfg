SPECIFICATION HydraSpec
CONSTANTS
  Rows <- MCRows
  Base = 2
  SPAREROWS = 2
  TRH = 7
  SWITCH_RATE = 2
  Groups = {0, 1}
  Group <- MCGroup
  CRA_FILTER_THRESHOLD_PERC = 50
  CRA_ENABLE_RAI = FALSE
  CCEntries = 1
  NUM_CHANNELS = 2
  Channel <- MCChannel
  RQENABLE = TRUE
INVARIANTS
  HydraTypeOK
  LastMovesHold
PROPERTIES
  ImplementsTracker
  MovesCharged
