SPECIFICATION FairSpec
CONSTANTS
  Keys <- SomeKeys
  COUNT_LIMIT = 3
  MAX_EVENTS = 3
  MAX_FAULTS = 1
INVARIANTS TypeOK SetAgreed LedsFollow Acknowledged
PROPERTIES TypesKeys 
