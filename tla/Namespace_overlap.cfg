\* A directory with a child of its own name is renamed to its parent.
SPECIFICATION Spec
CONSTANTS
  Path <- Nested
  DirPath = {}
  Target = {}
  MaxDepth = 1
  MaxObjects = 2
  MaxForeign = 0
  Overlap = TRUE
INVARIANTS
  ContentsKept
CHECK_DEADLOCK FALSE
