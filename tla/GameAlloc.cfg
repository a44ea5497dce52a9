SPECIFICATION Spec
CONSTANTS
  Threads = {t1, t2}
  Classes = {small, big}
  Regions = {r1, r2}
  PerRegion = 2
  RMax = 3
  MaxCalls = 5
  None = None
INVARIANTS
  HeapSafe
  OnlyUnnumberedDeadlock
PROPERTIES
  AllocCallsReturn
CHECK_DEADLOCK FALSE
