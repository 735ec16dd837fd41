CONSTANTS
  BDA = {b1}
  BDM = {}
  LeadReq = {l1, l2}
  CallReq = {}
  SeedStreak = {1}
  MaxDay = 1
  MaxFaults = 0
SPECIFICATION ActSpec
SYMMETRY RequestSymmetry
INVARIANT LeadIsLogged
CHECK_DEADLOCK FALSE
