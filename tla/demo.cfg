CONSTANTS
  Reset = {s1, s2}
  Award = {a1, a2}
  Register = {n1, n2}
  MaxFaults = 2
SPECIFICATION Spec
SYMMETRY RequestSymmetry
INVARIANT TypeOK
INVARIANT ResetReseeds
INVARIANT LockMeansAward
INVARIANT OneLucklessStart
INVARIANT EmailsAreUnique
CHECK_DEADLOCK FALSE
