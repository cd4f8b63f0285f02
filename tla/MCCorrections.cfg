CONSTANTS
  Account = {a1}
  Main = main
  PassThrough = {t1}
  Incidental = {e1, e2}
  Claim = {}
  NoClaim = noClaim
  Ceiling = 2
  Amount = {1}
  Zones = {0}
  MaxRows = 6
  MaxEntries = 2
  MaxCounts = 0
  MaxMonths = 0
  MaxClock = 0
SPECIFICATION Spec
SYMMETRY Symmetry
CHECK_DEADLOCK FALSE
INVARIANTS
  ClosedEnvelopeIsZero
  EffectivePurposeIsLastTarget
  ReversalUndoes
  ActivityCountsWhatStands
  MoveSaysWhereItWent
PROPERTIES
  ClosedTakesOnlyTransfers
