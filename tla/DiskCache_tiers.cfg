\* Two goroutines on two keys, a foreign writer, a process that restarts.
SPECIFICATION Spec
CONSTANTS
  k1 = k1  k2 = k2  t1 = t1  t2 = t2
  None = None
  Key = {k1, k2}
  Present = {k1, k2}
  Thread = {t1, t2}
  MaxVersion = 3
  Cost <- Costs
  MaxBytes = 4
  MaxOps = 3
  MaxFaults = 1
  UntaggedGet = FALSE
SYMMETRY Symmetry
INVARIANTS
  TypeOK
  EntriesAreTrue
  OpenIsFresh
  FilesAreOwned
  BudgetKept
CHECK_DEADLOCK FALSE
