SPECIFICATION FairSpec
CONSTANTS
  Calls = {c1, c2}
  Streams = {watch}
  ConnAttempts = 2
INVARIANTS
  TypeOK
  PoolOutlivesRequests
  NoRequestIsCutOff
PROPERTIES
  StopsWhenAsked
CHECK_DEADLOCK FALSE
