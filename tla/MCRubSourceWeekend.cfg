SPECIFICATION Spec
CONSTANTS
  DefaultFrom = 0
  FirstDay = 5
  MaxDay = 7
  WorkingDays = {2, 4, 5, 6}
  MayGarble = {}
INVARIANT RunningDayHasRate
CHECK_DEADLOCK FALSE
