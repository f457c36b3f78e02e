SPECIFICATION Spec
CONSTANTS
  NumFiles = 6
  MaxDescriptor = 9
  Name = {"a", "b"}
  Existing <- MCExisting
  Request <- MCRequest
  Text <- MCText
  FloatText <- MCFloatText
  Count = {3}
  MaxLength = 3
  NULL = NULL
PROPERTY
  OpenUntilClosed
CHECK_DEADLOCK FALSE
