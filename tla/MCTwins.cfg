CONSTANTS
  Page = {p1}
  Nobody = nobody
  Body = {b1}
  Minted = {k1, k2, k3}
  OwnKey = {}
  NoKey = noKey
  Forget = 2
  Retention = 3
  Restores = FALSE
  MaxSends = 3
  MaxClock = 2
SPECIFICATION Spec
SYMMETRY Symmetry
CHECK_DEADLOCK FALSE
PROPERTIES
  DoubtKeepsTheKey
  SpentKeyStaysSpent
