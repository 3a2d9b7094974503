SPECIFICATION KernelSpec
CONSTANTS
  LEVELS = 4
  FANOUT = 4
  OFFSET = 128
  SCREEN = 1
  Entries <- SmallMap
  FIRST_PAGE = 5
  PAGES = 60
  Windows <- HeapWindow
  DataPages = {}
  CallerFlags = {}
  TRIES <- TwoTries
  HEAP_BASE = 81
  HEAP_PAGES = 2
  Lengths = {1, 2}
  MAX_PAGES = 5
  SPARE = 2
INVARIANTS HeapBacked FirstReadsFresh
CHECK_DEADLOCK FALSE
