SPECIFICATION FairSpec
CONSTANTS
  t1 = t1
  t2 = t2
  a = a
  Thread = {t1, t2}
  Char = {a}
  MaxBytes = 2
  MaxCalls = 3
  MaxTyped = 3
INVARIANTS
  DisplayIsFree
  LinesAreWhole
  InputInOrder
PROPERTIES
  ConsoleGoesOn
