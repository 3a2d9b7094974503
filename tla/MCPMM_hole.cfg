SPECIFICATION Spec
CONSTANTS
  PAGE_SIZE = 16
  LIST_ENTRIES = 6
  LAST_ENTRY <- KernelLast
  W = 4096
  MEGABYTE = 128
  ROUND_OFF = 64
  MAX_PMM_HEADER_PROPORTION = 4
  SECTION_SIZE = 1
  MAX_SLOTS = 128
  BiosAnswers <- HoleMaps
  LowMemory <- InterruptVectors
  Calls <- KernelCalls
  PageCounts = {1}
  SPARE_SLOTS = 2
INVARIANTS SectionsKept
CHECK_DEADLOCK FALSE
