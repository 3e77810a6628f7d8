SPECIFICATION Spec
CONSTANTS
  DefaultFrom = 0
  FirstDay = 3
  MaxDay = 7
  WorkingDays = {2, 4, 5, 6, 8}
  MayGarble = {}
INVARIANT OfficialRates
CHECK_DEADLOCK FALSE
