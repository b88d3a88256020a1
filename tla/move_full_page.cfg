SPECIFICATION Spec
CONSTANTS
  w1 = w1
  w2 = w2
  s1 = s1
  s2 = s2
  s3 = s3
  s4 = s4
  Events = {1, 2, 3}
  Late = {}
  Sessions = {w1, w2}
  Shots = {s1, s2, s3}
  CapturedAt <- AtOnce
  EventPage = 2
  ShotPage = 2
  Connections <- OnlyDatabase
  Modes <- PlainMode
INVARIANTS NoRowLost
CHECK_DEADLOCK FALSE
