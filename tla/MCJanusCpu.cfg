SPECIFICATION Spec
CONSTANTS
  Selectors = {"CS"}
  MaxIndex = 4
  Roots = {root}
  root = root
  NoRoot = NoRoot
  Cr0Values <- MCCr0Values
  Cr4Values <- MCCr4Values
  EferValues <- MCEferValues
  MaxRip = 9
  MaxNest = 3
INVARIANTS TypeOK StackShape LongModeNeedsPae
PROPERTY InterruptsReturn
CHECK_DEADLOCK FALSE
