CONSTANTS
  BDA = {b1}
  BDM = {}
  LeadReq = {q1, q2}
  CallReq = {q2, q3}
  SeedStreak = {}
  MaxDay = 2
  MaxFaults = 1
SPECIFICATION ActFairSpec
INVARIANT RollupTracksLedger
INVARIANT AcknowledgedIsCounted
INVARIANT PointsAddUp
INVARIANT NothingAheadOfToday
PROPERTY AnswerShowsAcknowledged
PROPERTY RollupCatchesUp
CHECK_DEADLOCK FALSE
