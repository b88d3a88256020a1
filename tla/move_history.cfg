SPECIFICATION Spec
CONSTANTS
  w1 = w1
  w2 = w2
  s1 = s1
  s2 = s2
  s3 = s3
  s4 = s4
  Events = {1, 2, 3}
  Late = {4}
  Sessions = {w1, w2}
  Shots = {s1, s2, s3, s4}
  CapturedAt <- Pairs
  EventPage = 2
  ShotPage = 3
  Connections <- Anything
  Modes <- AllModes
INVARIANTS TypeOK NoRowLost ImagesReachable
PROPERTIES DoneMeansMoved CopiedBeforeDeleted
CHECK_DEADLOCK FALSE
