SPECIFICATION Spec
CONSTANTS
  m1 = m1
  m2 = m2
  Machine <- MCMachine
  Client = {c1, c2}
  Box = {0}
  MaxSends <- MCMaxSends
  NULL = NULL
INVARIANTS
  PacketIsSignalled
  MailInOrder
PROPERTIES
  TransmissionsEnd
CHECK_DEADLOCK FALSE
