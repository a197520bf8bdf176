CONSTANTS
  us = us
  de = de
  fr = fr
  Instances = {i1, i2}
  Countries <- MCCountries
  Configs <- MCConfigs
SPECIFICATION FairSpec
INVARIANTS RotationMoves BudgetKept FullCycleClears
PROPERTIES StopJoins StopTerminates
\* After Stop has returned nothing is left to do.
CHECK_DEADLOCK FALSE
