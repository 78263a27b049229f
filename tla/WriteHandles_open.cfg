\* Three opens of the path, with one writer at a time or several.
SPECIFICATION Spec
CONSTANTS
  h1 = h1  h2 = h2  h3 = h3
  Nil = Nil
  Handle = {h1, h2, h3}
  MaxVersion <- Versions
SYMMETRY Symmetry
INVARIANTS
  TypeOK
  SharedBufferAlive
  ClosedIsUploaded
  WriterIsTracked
  OpenSeesNewest
PROPERTIES
  NoLostUpdate
CHECK_DEADLOCK FALSE
