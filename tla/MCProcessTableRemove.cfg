SPECIFICATION Spec
CONSTANTS
  main = main
  p1 = p1
  p2 = p2
  p3 = p3
  NULL = NULL
  Process = {main, p1, p2, p3}
  Main = main
  MAXPROCESS = 3
  ExitCode = {0}
  EndsAtExit = FALSE
PROPERTY
  RemovesTheFinished
