CONSTANTS
  Account = {a1}
  Main = main
  PassThrough = {}
  Incidental = {}
  Claim = {}
  NoClaim = noClaim
  Ceiling = 2
  Amount = {1}
  Zones = {0, 1}
  MaxRows = 4
  MaxEntries = 0
  MaxCounts = 2
  MaxMonths = 2
  MaxClock = 2
SPECIFICATION Spec
SYMMETRY Symmetry
CHECK_DEADLOCK FALSE
INVARIANTS
  SnapshotReproducible
  FixSquaresItsLine
  PaymentReadsAsOne
  BannerIsTrue
