CONSTANTS
  Callers = {c1, c2}
  Keep = 2
  MaxStarts = 3
  MaxTests = 3
SPECIFICATION FairSpec
INVARIANTS OneChecker ClosedOnce
PROPERTIES QuietWhenStopped StopTerminates
\* The bounds on Starts and tests, and a panic, end a behaviour.
CHECK_DEADLOCK FALSE
