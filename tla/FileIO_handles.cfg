\* Write handles over recycled arrays and spill files, read handles over an
\* object that is overwritten twice.
SPECIFICATION Spec
CONSTANTS
  None = None
  MaxLen = 3
  Threshold = 2
  MaxPooled = 3
  MaxVersion = 3
  EmptyWrites = FALSE
  Cut = TRUE
INVARIANTS
  BufferIsOwned
  ReadsAreExact
  TornOnlyByEarlyEnd
PROPERTIES
  ImplementsPosixFile
CHECK_DEADLOCK FALSE
