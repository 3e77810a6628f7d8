SPECIFICATION FairSpec
CONSTANTS
  Callers = {1, 2}
  Fetches <- MCFetches
  RateLimitPerMin = 2
  Deadline = 2
  MaxHangUps = 1
INVARIANTS
  TypeOK
  AtMostTwiceTheLimit
PROPERTY EveryBatchAnswered
