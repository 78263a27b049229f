\* Reads overlap, mutations overlap nothing.
SPECIFICATION Spec
CONSTANTS
  d1 = d1  d2 = d2  f1 = f1  f2 = f2
  t1 = t1  t2 = t2
  None = None
  File = {f1, f2}
  Dir = {d1, d2}
  Above <- Nested
  Signed = {f1, f2}
  Thread = {t1, t2}
  Exclusive = TRUE
  LostAnswer = FALSE
  Small = {1, 3}
  TTL = 0
  MaxTime = 0
  MaxVersion = 3
SYMMETRY Symmetry
INVARIANTS
  TypeOK
  CacheIsCoherent
CHECK_DEADLOCK FALSE
