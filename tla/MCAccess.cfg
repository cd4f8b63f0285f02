CONSTANTS
  Request = {r1, r2}
  NoUser = NoUser
  NoRow = NoRow
  Slots = 1
  Idle = 2
  Refresh = 1
  MaxTokens = 1
  MaxSets = 2
  MaxClock = 2
SPECIFICATION Spec
CHECK_DEADLOCK FALSE
INVARIANTS
  LoginProvedThePassword
  SlotsAreHeld
PROPERTIES
  RevokedStaysRevoked
  EveryWaitEnds
