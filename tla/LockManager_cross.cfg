\* Two instances over a backend that may fail; a handle is used by one goroutine at a time.
SPECIFICATION FairSpec
CONSTANTS
  p1 = p1  p2 = p2
  h1 = h1  h2 = h2  h3 = h3
  t1 = t1  t2 = t2  t3 = t3
  Nil = Nil  Orphan = Orphan
  Proc = {p1, p2}
  Handle = {h1, h2, h3}
  Thread = {t1, t2, t3}
  Cell = {c1, c2, c3}
  Home <- TwoProcHome
  HasExt = TRUE
  Fallible = TRUE
  SharedHandles = FALSE
  Relock = FALSE
INVARIANTS
  TypeOK
  MutualExclusion
  GrantIsBacked
  EntryLifecycle
  NoLostWakeup
  ExtLockSerialized
  ClosedHandleOwnsNothing
PROPERTIES
  ImplementsFlock
  FreedLockIsTaken
  CancelEndsBlockedLock
CHECK_DEADLOCK FALSE
