CONSTANTS
  Page = {}
  Nobody = nobody
  Body = {b1, b2}
  Minted = {}
  OwnKey = {o1, o2}
  NoKey = noKey
  Forget = 1
  Retention = 1
  Restores = TRUE
  MaxSends = 3
  MaxClock = 2
SPECIFICATION Spec
SYMMETRY Symmetry
CHECK_DEADLOCK FALSE
INVARIANTS
  OncePerRetention
PROPERTIES
  SuccessNamesOwnRow
