CONSTANTS
  Rotations = {TRUE}
  MaxChildren = 3
SPECIFICATION Spec
INVARIANT LiveIsSupervised
\* run returns, or the supervision of the instance has ended.
CHECK_DEADLOCK FALSE
