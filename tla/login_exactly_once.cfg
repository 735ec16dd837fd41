CONSTANTS
  BDA = {b1}
  BDM = {}
  LeadReq = {}
  SeedStreak = {11}
  MaxDay = 2
  MaxFaults = 1
  LoginReq = {r1, r2}
  MaxLag = 0
SPECIFICATION Spec
SYMMETRY RequestSymmetry
INVARIANT AwardedOnce
CHECK_DEADLOCK FALSE
