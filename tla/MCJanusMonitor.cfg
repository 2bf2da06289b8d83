SPECIFICATION Spec
CONSTANTS
  ram = 5
  MAPS_LOW_LIMIT = 3
  top_guest_1 = 6
  bottom_guest_2 = 8
  HostPages = 14
  MAPS_MAX_SIZE = 3
  LowImages <- MCLowImages
  Kernels <- MCKernels
  SEARCH_ZONE_LEN = 112
  MULTIBOOT_MAGIC <- MCMagic
  Modulus = 512
  GuestWords <- MCGuestWords
  MonitorWords <- MCMonitorWords
  Heaps <- MCHeaps
  Old = 99
  Undefined <- MCUndefined
  PageBits = 2
  IndexBits = 2
  IntBits = 8
  GuestTables <- MCGuestTables
  NoListing = NoListing
INVARIANTS LowSealed MonitorIntact LoadedAsLinked ListsLowMappings FewMapsKept
PROPERTIES ParsingEnds
CHECK_DEADLOCK FALSE
