SPECIFICATION Spec
CONSTANTS
  Rows <- MCRows
  TRH = 7
  SwitchRate = 2
  MaxActs = 8
  MaxClears = 1
INVARIANTS
  TypeOK
  OverEstimate
  PeriodBound
PROPERTY ImplementsTracker
