SPECIFICATION Spec
CONSTANTS
  main = main  t1 = t1  t2 = t2  t3 = t3  lock = lock  io = io  NULL = NULL
  Thread = {main, t1, t2}
  Main = main
  Semaphore = {lock, io}
  DeviceSemaphore = {io}
  InitialValue <- MCInitialValue
  MaxValue = 1
INVARIANT FinishedIsDestroyed
