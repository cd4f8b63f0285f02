CONSTANTS
  Account = {a1, a2}
  Main = main
  PassThrough = {}
  Incidental = {e1}
  Claim = {}
  NoClaim = noClaim
  Ceiling = 1
  Amount = {1}
  Zones = {0}
  MaxRows = 4
  MaxEntries = 1
  MaxCounts = 0
  MaxMonths = 0
  MaxClock = 0
SPECIFICATION Spec
SYMMETRY Symmetry
CHECK_DEADLOCK FALSE
PROPERTIES
  ClosedRefusesEveryPosting
