\* Every call on every small tree, with others at work and requests failing.
SPECIFICATION Spec
CONSTANTS
  Path <- Tree
  DirPath <- Dirs
  Target <- Links
  MaxDepth = 2
  MaxObjects = 3
  MaxForeign = 1
  Overlap = FALSE
INVARIANTS
  TypeOK
  CallsAreExact
  ContentsKept
  ReadDirExact
PROPERTIES
  CallsReturn
CHECK_DEADLOCK FALSE
