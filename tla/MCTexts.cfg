CONSTANTS
  Width = 4
  Pow2 <- MCPow2Four
  BitXor <- MCXor
  BitAnd <- MCAnd
  NRegs = 2
  NMem = 2
  Texts <- MCTexts
  RegCounts = {2, 5}
  RegByte = 4
  ShiftWord = 8
  OptPrograms <- MCOptPrograms
  OptStates <- MCOptStates
  MaxRounds = 8
  Originals <- MCOriginals
  Diffs <- MCDiffs
  Kernels <- MCKernels
  NativeStates <- MCOptStates
  Keys = {a, b}
  Values = {v, w}
  Nil = Nil
  UndoCounts = {0, 1, 2, 5}
  MaxLog = 4
SYMMETRY Symmetry
SPECIFICATION ToolsSpec
INVARIANTS
  TextExact
  ControlExact
  OptimizerExact
  PatchExact
  NativeExact
PROPERTIES
  ImplementsVersions
CHECK_DEADLOCK FALSE
