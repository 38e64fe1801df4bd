CONSTANTS
  s1 = s1
  s2 = s2
  s3 = s3
  Senders <- MCSenders
  Grain = 3
  Capacity = 6
  MaxTime = 10
SPECIFICATION BucketSpec
CHECK_DEADLOCK FALSE
INVARIANTS SentWithinRate
