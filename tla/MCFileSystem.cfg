SPECIFICATION Spec
CONSTANTS
  NumSectors = 11
  NumDirEntries = 3
  SectorSize = 2
  NumFiles = 4
  Name <- MCName
  a = a
  b = b
  Size = {3}
  Text <- MCText
  NULL = NULL
SYMMETRY Symmetry
INVARIANTS
  FilesAreApart
  MapIsExact
  ReadsBack
PROPERTY
  ImplementsStore
