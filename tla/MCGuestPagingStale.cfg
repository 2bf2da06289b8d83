CONSTANTS
  PoolPages = 5
  Levels = 3
  Idx = {0, 1}
  VAddr <- VAddr4
  AutoArea <- Auto2
  StoreIdx = {1}
  DataWords <- Odd
  NoFrame = noframe
SPECIFICATION Spec
INVARIANT AutomaticMapping
