CONSTANTS
  Paths = {a, b}
  Handles = {h1}
  Threads = {t1, t2}
  Contents = {0, 1, 2}
  Empty = 0
  Big = {2}
  Absent = Absent
  Link = Link
  NoPath = NoPath
  JCap = 2
  MaxFaults = 0
SYMMETRY MCSymmetry
CONSTRAINT NotRaced
SPECIFICATION Spec
INVARIANT FuseSafe
PROPERTY UndoRestores
CHECK_DEADLOCK FALSE
