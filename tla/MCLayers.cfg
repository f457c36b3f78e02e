SPECIFICATION LayersSpec
CONSTANTS
  Polled <- MCPolled
  OneShot <- MCOneShot
  DeviceTime <- MCDeviceTime
  TimerTicks = 3
  UserTick = 1
  SystemTick = 2
  NULL = NULL
  thread1 = thread1
  thread2 = thread2
  a1 = a1
  a2 = a2
  a3 = a3
INVARIANTS
  InterruptsArePrompt
  TransfersTheSector
  SwitchKeepsThreads
  StacksAgree
  LoadedAsLinked
PROPERTIES
  NeverHaltsWhilePolling
  InterruptsCome
  ImplementsSequence
  ImplementsSet
CHECK_DEADLOCK FALSE
