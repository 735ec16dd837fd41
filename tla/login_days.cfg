CONSTANTS
  BDA = {b1}
  BDM = {m1}
  LeadReq = {}
  SeedStreak = {11}
  MaxDay = 3
  MaxFaults = 1
  LoginReq = {r1, r2, r3}
  MaxLag = 0
SPECIFICATION FairSpec
INVARIANT LockExclusive
INVARIANT NoSpuriousFailure
INVARIANT StreakIsRun
INVARIANT StreakShown
INVARIANT AwardedUnlessFault
PROPERTY LockLeadsToCredit
CHECK_DEADLOCK FALSE
