CONSTANTS
  Instances = {i1, i2}
  Requests = {r1}
SPECIFICATION FairSpec
INVARIANTS CountedOnce ReadyMeansAll
PROPERTIES StartupEnds WaitersServed
\* run returns.
CHECK_DEADLOCK FALSE
