CONSTANTS
  Reader = {r1, r2}
  Writer = {w1, w2}
  Reset = {}
  MaxDay = 0
  MaxFaults = 0
SPECIFICATION Spec
SYMMETRY CallerSymmetry
INVARIANT CurrentKeyIsFresh
