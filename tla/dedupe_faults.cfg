SPECIFICATION FairSpec
CONSTANTS
  r1 = r1
  r2 = r2
  r3 = r3
  i1 = i1
  i2 = i2
  Reports = {r1, r2, r3}
  Timestamp <- MCTimestamp
  Score <- MCScore
  Window = 4
  Instances = {i1, i2}
  At <- MCAt
  NoReport = NoReport
  Mishaps = {"lock", "store"}
INVARIANTS TypeOK NothingLost WorstKept OneIncident
PROPERTIES EveryReportAnswered
CHECK_DEADLOCK FALSE
