CONSTANTS
  PoolPages = 5
  Levels = 3
  Idx = {0, 1}
  VAddr <- VAddr3
  AutoArea <- Auto1
  StoreIdx = {0}
  DataWords <- Even
  NoFrame = noframe
SPECIFICATION Spec
INVARIANTS TablesFormTree MappedPagesOwned TlbCoherent PagesAccounted
PROPERTY Refinement
