SPECIFICATION Spec
CONSTANTS
  Calls = {c1, c2}
  Portals <- MCPortals
  MaxPairs = 2
  MaxFaults = 1
  Tabs = {t1, t2}
  MaxCodes = 2
  MaxTries = 1
INVARIANTS
  NoSpuriousSignOut
  CarriedOutOnce
  OneSignInPerCode
  RightCodeWorks
PROPERTIES
  CallsEnd
CHECK_DEADLOCK FALSE
