SPECIFICATION Spec
CONSTANTS
  WORD32 = 256
  WORD64 = 1024
  Calls <- AllCalls
INVARIANTS HexReadsBack
CHECK_DEADLOCK FALSE
