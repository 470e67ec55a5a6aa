SPECIFICATION Spec
CONSTANTS
  Users <- MCUsers
  PerMinute <- MCPerMinute
  DefaultLimit = 1
  Window = 6
  HalfSecond = 2
  MaxTime = 8
INVARIANTS
  RateRespected
PROPERTY
  RetryAfterHonoured
  HeaderHonoured
