SPECIFICATION Spec
CONSTANTS
  Threads = {t1, t2}
  Configs = {c1, c2}
  EntryIds = {e1, e2, e3, e4}
  StoreIds = {s1, s2, s3}
  MaxSaves = 1
  None = None
SYMMETRY Symmetric
VIEW Live
INVARIANTS TypeOK ClosedOnlyUnderOld OwnDatabase NoLeak TakesEffect
