CONSTANTS
  Photo = {p1}
  Version = {1, 2}
  None = None
  Name = {1, 2, 3, 4, 5, 6, 7, 8, 9}
  Keep <- MCKeep
  MaxChanges = 3
  MaxTroubles = 1
SPECIFICATION Spec
CHECK_DEADLOCK FALSE
INVARIANTS
  FormatIsThere
  TornDumpIsSeen
PROPERTIES
  NewestKept
  LastChangeIsDumped
