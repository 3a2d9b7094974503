SPECIFICATION FairSpec
CONSTANTS
  LEVELS = 3
  FANOUT = 4
  OFFSET = 32
  SCREEN = 1
  Entries <- SmallMap
  FIRST_PAGE = 5
  PAGES = 28
  Windows <- TwoWindows
  DataPages = {2}
  CallerFlags <- KernelAndUser
INVARIANTS TypeOK Tree FlagsReach TlbFresh TablesMapped
PROPERTIES AddressSpaceSpec CallsReturn
CHECK_DEADLOCK FALSE
