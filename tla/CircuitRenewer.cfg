CONSTANTS
  Instances = {i1, i2}
  MaxLife = 2
SPECIFICATION FairSpec
INVARIANTS NewnymAuthenticated NoneLeaked
PROPERTIES StopTerminates WorkersEnd
\* After Stop has returned nothing is left to do.
CHECK_DEADLOCK FALSE
