CONSTANTS
  Instances = {i1, i2}
  MaxLife = 2
SPECIFICATION Spec
INVARIANT RenewedWhileUp
\* After Stop has returned nothing is left to do.
CHECK_DEADLOCK FALSE
