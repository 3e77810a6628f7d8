SPECIFICATION FairSpec
CONSTANTS
  FiveMinutes = 1
  Hour = 2
  Day = 4
  FinePolicy = 3
  HourPolicy = 6
  NULL = NULL
  r1 = r1
  r2 = r2
  Requests = {r1, r2}
  Batches <- MCBatches
  Revisions = {1, 2}
  Agreed = TRUE
  MostLag = 1
  FirstNow = 6
  MaxNow = 8
INVARIANTS
  TypeOK
  BucketHoldsItsOwnQuote
  NoCoarserThanDesired
  ValuedNearItsTime
  UnavailableOnlyOutsideRange
  AnswersRepeat
PROPERTIES
  ImplementsPriceBook
  EveryRequestAnswers
CHECK_DEADLOCK FALSE
