\* A read or a mutation overlaps a mutation.
SPECIFICATION Spec
CONSTANTS
  d1 = d1  d2 = d2  f1 = f1  f2 = f2
  t1 = t1  t2 = t2
  None = None
  File = {f1, f2}
  Dir = {d1, d2}
  Above <- Nested
  Signed = {}
  Thread = {t1, t2}
  Exclusive = FALSE
  LostAnswer = FALSE
  Small = {1, 2}
  TTL = 0
  MaxTime = 0
  MaxVersion = 2
INVARIANTS
  CacheIsCoherent
CHECK_DEADLOCK FALSE
