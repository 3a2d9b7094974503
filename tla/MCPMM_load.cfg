SPECIFICATION Spec
CONSTANTS
  PAGE_SIZE = 16
  LIST_ENTRIES = 3
  LAST_ENTRY <- SmallLast
  W = 176
  MEGABYTE = 16
  ROUND_OFF = 160
  MAX_PMM_HEADER_PROPORTION = 4
  SECTION_SIZE = 4
  MAX_SLOTS = 10
  BiosAnswers <- SmallMaps
  LowMemory <- InterruptVectors
  Calls <- AllCalls
  PageCounts = {1, 2}
  SPARE_SLOTS = 2
INVARIANTS TableServesMaximumLoad
CHECK_DEADLOCK FALSE
