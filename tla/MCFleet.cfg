SPECIFICATION Spec
CONSTANTS
  Interval = 3
  BackoffMax = 30
  Timeout = 1
  TTL = 30
  ProbeInterval = 6
  ProbeMax = 3
  ShortTrouble = 5
  MaxTrouble = 46
  None = None
INVARIANTS
  ShortTroubleUnnoticed
  FreshWhenSettled
