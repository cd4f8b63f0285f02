CONSTANTS
  v1 = v1 v2 = v2 v3 = v3
  s1 = s1 s2 = s2
  Version = {v1, v2, v3}
  Schema = {s1, s2}
  Empty = Empty
  None = None
  SchemaOf <- MCSchemaOf
  Migration <- MCMigration
  Keep = 1
  MaxEntries = 1
  MaxRebuilds = 1
  MaxSnaps = 2
SPECIFICATION Spec
CHECK_DEADLOCK FALSE
INVARIANTS
  Recoverable
  NoStaleWal
PROPERTIES
  SwapKeepsTheOldFile
  EntriesSurvive
