SPECIFICATION Spec
CONSTANTS
  Queries <- MCQueries
  MaxChanges = 2
  MaxMoves = 2
  LiveCap = 1
INVARIANTS
  FeedTypeOK
  LiveSound
PROPERTIES
  
  EveryChangeListed
CHECK_DEADLOCK FALSE
