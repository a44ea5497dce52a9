CONSTANTS
  Paths = {a, b, c}
  Handles = {h1}
  Threads = {t1}
  Contents = {0, 1, 2}
  Empty = 0
  Big = {2}
  Absent = Absent
  Link = Link
  NoPath = NoPath
  JCap = 2
  MaxFaults = 1
  Grain = 4
  FrameCap = 12
  SizeRange = 24
  FrameSizes = {0, 3, 5, 13, 18, 22}
  MaxNest = 2
  MaxFrameCalls = 8
  PoolCaps = {1, 3}
  MaxPoolCalls = 9
  Users = {u1, u2}
  SizeClasses = {small}
  Spaces = {1, 2, 3}
  PerSpace = 2
  RegMax = 2
  ForeignBlocks = {libc1}
  Nobody = Nobody
  MaxRequests = 5
SYMMETRY MCSymmetry
SPECIFICATION NativeSpec
INVARIANTS
  FuseSafe
  NoOverlap
  MallocSafe
CHECK_DEADLOCK FALSE
