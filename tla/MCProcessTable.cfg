SPECIFICATION FairSpec
CONSTANTS
  main = main
  p1 = p1
  p2 = p2
  p3 = p3
  NULL = NULL
  Process = {main, p1, p2}
  Main = main
  MAXPROCESS = 3
  ExitCode = {0, 1}
  EndsAtExit = TRUE
INVARIANTS
  SlotsAreOwned
  JoinHandshake
PROPERTY
  ExitCompletes
