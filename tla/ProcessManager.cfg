CONSTANTS
  Procs = {p1, p2}
  Stoppers = {s1}
  Sweeper = sweeper
SPECIFICATION FairSpec
INVARIANTS StopJoinsExit SingleSignaller FailureIsUnasked SweepReapsSnapshot
PROPERTIES ImplementsContract SweepTerminates
\* Once every call has returned the manager has nothing left to do.
CHECK_DEADLOCK FALSE
