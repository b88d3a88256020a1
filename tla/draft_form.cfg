SPECIFICATION Spec
CONSTANTS
  Forms <- FormPages
  MaxChanges = 3
  MaxValues = 3
INVARIANTS
  InputsRight
  UnsavedCanBeSaved
PROPERTIES
  SavedIsShown
CHECK_DEADLOCK FALSE
