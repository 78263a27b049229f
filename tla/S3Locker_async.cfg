\* No timing assumption: requests and ticks may be delayed for ever.
SPECIFICATION Spec
CONSTANTS
  p1 = p1  p2 = p2
  NoObj = NoObj
  Proc = {p1, p2}
  TTL = 3
  Interval = 1
  Poll = 1
  Latency = 0
  Skew <- OneFast
  Timely = FALSE
  LostRenewal = TRUE
  MaxTime = 6
  MaxLocks = 2
  MaxFaults = 2
PROPERTIES
  TakeoverOnlyExpired
  NoLateRenewal
CHECK_DEADLOCK FALSE
