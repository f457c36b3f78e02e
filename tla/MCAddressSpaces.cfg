SPECIFICATION Spec
CONSTANTS
  Process = {"main", "p", "q"}
  Main = "main"
  Program <- MCProgram
  PageSize = 4
  NumPhysPages = 7
  UserStackSize = 2
  Address = {0, 6, 8}
  MaxWrites = 1
INVARIANTS
  FramesAreOwned
  MemoryIsPrivate
  MachineIsOwn
