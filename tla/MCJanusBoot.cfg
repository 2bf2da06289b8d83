SPECIFICATION BootSpec
CONSTANTS
  Selectors = {"CS", "DS", "ES", "FS", "GS", "SS"}
  MaxIndex = 4
  pml4 <- MCPml4
  Roots <- MCRoots
  Leftovers <- MCLeftovers
  NoRoot = NoRoot
  Cr0Values <- MCCr0Values
  Cr4Values <- MCCr4Values
  EferValues <- MCEferValues
  MaxPrint = 2
  MaxRip = 23
  MaxNest = 2
INVARIANTS BootIsClean FaultsAreHandled
PROPERTIES ReachesMain FaultsHalt
CHECK_DEADLOCK FALSE
