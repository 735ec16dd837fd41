CONSTANTS
  BDA = {b1}
  BDM = {}
  LeadReq = {}
  SeedStreak = {11}
  MaxDay = 2
  MaxFaults = 2
  LoginReq = {r1, r2, r3}
  MaxLag = 1
SPECIFICATION Spec
SYMMETRY RequestSymmetry
INVARIANT CreditedOnce
INVARIANT StreakBacked
INVARIANT NewRewardIsTheCredit
PROPERTY GoesBackOnlyPastMidnight
PROPERTY ImplementsBonus
CHECK_DEADLOCK FALSE
