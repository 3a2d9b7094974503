SPECIFICATION FairSpec
CONSTANTS
  DESCRIPTORS = 34
  LINES = {0, 1}
  BIOS_MASKS <- AnyMasks
  DELAYS = {0, 1, 2}
  TICK_CAP = 3
INVARIANTS TypeOK HandlersKept Acknowledged
PROPERTIES  DeadlineReturns
CHECK_DEADLOCK FALSE
