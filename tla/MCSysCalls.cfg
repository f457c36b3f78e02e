SPECIFICATION MCSpec
CONSTANTS
  Process <- MCProcess
  Initial <- MCInitial
  Program <- MCProgram
  MAX_SEMAPHORES = 3
  Width = 8
  Digits = 3
  Keyboard <- MCKeyboard
  Memory <- MCMemory
  OpenFileList <- MCOpenFileList
  Room = {1, 3}
  NULL = NULL
  PingPong = PingPong
  Ping = Ping
  Pong = Pong
  Other = Other
INVARIANTS
  DownsArePaid
  NumbersAreRight
  TurnsAlternate
  NumbersReachTheirFile
PROPERTIES
  RoundsFinish
CHECK_DEADLOCK FALSE
