\* Timely requests, clocks that agree, one failure or crash.
SPECIFICATION FairSpec
CONSTANTS
  p1 = p1  p2 = p2
  NoObj = NoObj
  Proc = {p1, p2}
  TTL = 9
  Interval = 3
  Poll = 2
  Latency = 1
  Skew <- Agree
  Timely = TRUE
  LostRenewal = FALSE
  MaxTime = 20
  MaxLocks = 2
  MaxFaults = 1
INVARIANTS
  TypeOK
  HeldIsLeased
  RenewalStopsOnlyWhenLost
PROPERTIES
  UnlockDeletesOnlyOwn
  ImplementsLocker
  OrphanIsTakenOver
CHECK_DEADLOCK FALSE
