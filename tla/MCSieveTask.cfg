\* The task exits and the kernel stops.
CHECK_DEADLOCK FALSE
SPECIFICATION SieveSpec
CONSTANTS
  Characters <- MCCharacters
  IntBits = 4
  LongBits = 6
  MaxSearch = 20
  PageWords = 7
  KernelCalls <- MCKernelCalls
INVARIANTS
  PrintsAsFormatted
  StaysInFormat
  SievedSoFar
PROPERTY
  SieveSucceeds
