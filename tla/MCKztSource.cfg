SPECIFICATION FairSpec
CONSTANTS
  DefaultFrom = 0
  FirstDay = 3
  MaxDay = 6
INVARIANTS
  TypeOK
  OwnOrPrevious
  LastDateIsReal
  RunningDayHasRate
PROPERTIES
  NothingTakenBack
  ImplementsRateBook
  EveningsAreUpdated
CHECK_DEADLOCK FALSE
