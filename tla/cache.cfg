CONSTANTS
  Reader = {r1}
  Writer = {w1, w2}
  Reset = {s1}
  MaxDay = 1
  MaxFaults = 1
SPECIFICATION FairSpec
INVARIANT MissesOnlyOverlapping
PROPERTY AnswersBecomeFresh
