SPECIFICATION FairSpec
CONSTANTS
  DefaultFrom = 0
  FirstDay = 3
  MaxDay = 7
  WorkingDays = {2, 4, 5, 6, 8}
  MayGarble = {5}
INVARIANTS
  TypeOK
  NoGaps
  AtMostOneRateBehind
PROPERTIES
  ImplementsRateBook
  EveningsAreUpdated
CHECK_DEADLOCK FALSE
