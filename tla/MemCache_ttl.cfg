\* Another client writes; operations of this instance do not overlap.
SPECIFICATION TTLSpec
CONSTANTS
  d1 = d1  d2 = d2  f1 = f1  f2 = f2
  t1 = t1  t2 = t2
  None = None
  File = {f1}
  Dir = {d1}
  Above <- OneDir
  Signed = {}
  Thread = {t1}
  Exclusive = TRUE
  LostAnswer = FALSE
  Small = {1, 2}
  TTL = 2
  MaxTime = 4
  MaxVersion = 2
INVARIANTS
  StaleWithinTTL
CHECK_DEADLOCK FALSE
