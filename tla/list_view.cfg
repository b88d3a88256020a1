SPECIFICATION TableSpec
CONSTANTS
  Pages <- MCPages
  NumRows = 3
  Limits = {1, 2}
  MaxClicks = 2
  MaxOpens = 2
  MaxOthers = 1
INVARIANTS
  TableSound
PROPERTIES
  KeepsDrafts
CHECK_DEADLOCK FALSE
