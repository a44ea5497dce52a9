CONSTANTS
  Paths = {a, b}
  Handles = {h1}
  Threads = {t1, t2}
  Contents = {0, 1}
  Empty = 0
  Big = {}
  Absent = Absent
  Link = Link
  NoPath = NoPath
  JCap = 2
  MaxFaults = 0
SYMMETRY MCSymmetry
SPECIFICATION Spec
INVARIANT JournalHoldsBase
CHECK_DEADLOCK FALSE
