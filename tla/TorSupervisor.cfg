CONSTANTS
  Rotations = {FALSE, TRUE}
  MaxChildren = 3
SPECIFICATION FairSpec
INVARIANTS SupervisedAlone SingleTorAlone OnlyLateSpawnIsLeft
PROPERTIES CrashAloneIsRetried ShutdownTerminates ImplementsFleet
\* run returns, or the supervision of the instance has ended.
CHECK_DEADLOCK FALSE
