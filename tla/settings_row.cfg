SPECIFICATION Spec
CONSTANTS
  Admins = {a1, a2}
  Configs = {c1, c2}
  Kinds = {"db", "files"}
  Moves = {m1, m2}
  None = None
SYMMETRY Symmetric
VIEW View
INVARIANTS TypeOK OneMove NoChangeDuringMove
PROPERTIES OnlyOwnChange
