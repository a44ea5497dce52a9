CONSTANTS
  Width = 6
  Pow2 <- MCPow2Six
  BitXor <- MCXor
  BitAnd <- MCAnd
  NRegs = 2
  NMem = 2
  M = 2
  NT = 3
  DelayMax = 2
  Inputs <- MCInputs
  Csvs <- MCCsvs
  Targets <- MCTargets
  Tol = 2
  DeltaA <- MCDeltaA
  DeltaB <- MCDeltaB
  Openings <- MCOpenings
  NAccounts = 3
  Transfers = 3
  Percents = {95}
  MaxBal = 15
  Batches = 2
  Sizes = {8, 12, 16}
  Stamps = {1, 2}
  MaxOps = 5
  Body <- MCBody
  Done = 2
  Rest = 1
  Boundaries <- MCBoundaries
  Images <- MCImages
  EditArgs = {1, 30}
  MaxEdits = 4
  CliPrograms <- MCCliPrograms
  SetArgs <- MCSetArgs
  Steps = {0, 1, 9}
  Trials = {0, 3}
  RandomStates <- MCRandomStates
  SeedStep = 40
  RegByte = 4
  Formulas <- MCFormulas
  FormulaInputs = {0, 1, 38}
  FormulaRegs <- MCSixteen
  Plains <- MCPlains
  Keys <- MCKeys
  Rounds = {0, 1, 2}
  CipherRegs <- MCSixteen
  Tasks <- MCTasks
  SynthRegs = 2
  MaxDepth = 3
SPECIFICATION HostsSpec
INVARIANT OnlyTheProgramStops
CHECK_DEADLOCK FALSE
