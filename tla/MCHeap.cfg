SPECIFICATION FairSpec
CONSTANTS
  GRAIN = 2
  HDR = 4
  PAGE_SIZE = 16
  HEAP_BASE = 16
  INIT_PAGES = 1
  MAX_PAGES = 4
  MAX_BLOCKS = 3
  Requests <- AllRequests
  Elements <- SmallElements
INVARIANTS TypeOK Tiling Owned  Coalesced
PROPERTIES FirstFit AllocatorSpec CallsReturn GrowthDecides
CHECK_DEADLOCK FALSE
