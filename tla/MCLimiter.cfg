SPECIFICATION Spec
CONSTANTS
  q1 = q1
  q2 = q2
  a = a
  b = b
  device = device
  identifier = identifier
  Request = {q1, q2}
  Source = {a, b}
  Idle = Idle
  Key = {a, b, identifier}
  KeysOf <- MCKeysOf
  Forgives <- MCForgives
  Rule <- MCRule
  Patience = 2
  MaxClock = 6
SYMMETRY Symmetry
CHECK_DEADLOCK FALSE
INVARIANTS
  CountIsItsAttempts
  LockoutsClimb
