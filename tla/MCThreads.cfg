SPECIFICATION FairSpec
CONSTANTS
  main = main  t1 = t1  t2 = t2  t3 = t3  lock = lock  io = io  NULL = NULL
  Thread = {main, t1, t2, t3}
  Main = main
  Semaphore = {lock, io}
  DeviceSemaphore = {io}
  InitialValue <- MCInitialValue
  MaxValue = 2
INVARIANTS NoThreadLost CarcassIsDead NoLostWakeup IdleOnlyWhenStuck
PROPERTIES
  ReadyRuns
  ImplementsFairSemaphore
