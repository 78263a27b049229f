\* Close of a handle while another goroutine is in its Lock.
SPECIFICATION Spec
CONSTANTS
  p1 = p1  p2 = p2
  h1 = h1  h2 = h2  h3 = h3
  t1 = t1  t2 = t2  t3 = t3
  Nil = Nil  Orphan = Orphan
  Proc = {p1}
  Handle = {h1, h2}
  Thread = {t1, t2}
  Cell = {c1, c2}
  Home <- OneProcHome
  HasExt = FALSE
  Fallible = FALSE
  SharedHandles = TRUE
  Relock = FALSE
INVARIANTS
  ClosedHandleOwnsNothing
CHECK_DEADLOCK FALSE
