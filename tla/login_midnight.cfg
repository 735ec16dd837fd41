CONSTANTS
  BDA = {b1}
  BDM = {}
  LeadReq = {}
  SeedStreak = {11}
  MaxDay = 2
  MaxFaults = 0
  LoginReq = {r1, r2}
  MaxLag = 1
SPECIFICATION Spec
SYMMETRY RequestSymmetry
INVARIANT StreakIsRun
CHECK_DEADLOCK FALSE
