SPECIFICATION BothSpec
CONSTANTS
  Width = 8
  R31 = 3
  MemorySize = 16
  Instr <- MCInstr
  InitialGP <- MCGP
  InitialMem <- MCMem
  InitialPC <- MCPC
  MaxSteps = 2
INVARIANTS
  LoadsSettle
  SimulatorsAgree
PROPERTIES
  ArithmeticIsExact
CHECK_DEADLOCK FALSE
