CONSTANTS
  Token = {t1, t2}
  Req = {r1, r2, r3}
  TTL = 2
  MaxTime = 4
  MaxFaults = 2
SPECIFICATION Spec
SYMMETRY CallerSymmetry
INVARIANT LifeIsBounded
INVARIANT LogoutEndsUnlessFault
PROPERTY GoneStaysGone
CHECK_DEADLOCK FALSE
