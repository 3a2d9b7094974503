SPECIFICATION Spec
CONSTANTS
  COLUMNS = 4
  ROWS = 2
  TAB = 2
  BLANK = " "
  LETTERS <- OneLetter
  MAX_SCROLLS = 1
INVARIANTS TypeOK
PROPERTIES ShowsPaper
