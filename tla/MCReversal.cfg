SPECIFICATION ReversalSpec
CONSTANTS
  Width = 2
  Pow2 <- MCPow2Two
  BitXor <- MCXor
  BitAnd <- MCAnd
  NRegs = 3
  NMem = 2
  Programs <- DebuggerPrograms
  StartStates <- DebuggerStart
  Counts = {0, 1, 3}
  BreakPos = {1}
  CtlPrograms <- JournalPrograms
  CtlStates <- JournalStart
  MaxDepth = 2
  MaxIters = 2
  MaxRuns = 2
  DamagedValues = {0, 1, 2}
  LoopPrograms <- MachinePrograms
  MachineStates <- MachineStart
  MaxNesting = 2
  Limits = {1, 9}
  MaxCalls = 2
INVARIANTS
  StateIsPrefix
  JournalSafe
  FlagDamageDetected
  StreamSafe
  ReverseIsExact
  WalksAgree
PROPERTIES
  ImplementsSnapshots
  CommandEnds
  CallsReturn
CHECK_DEADLOCK FALSE
