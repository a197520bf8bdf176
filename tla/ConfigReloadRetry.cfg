CONSTANTS
  Lists = {"us,de", "us,fr"}
  Proxies = {"roundrobin", "leastconn"}
  Tors = {"tor"}
  Flag = "noflag"
  NoFlag = "noflag"
  MaxEdits = 2
SPECIFICATION Spec
INVARIANT ReloadAppliesProxy
\* After the shutdown nothing is left to do.
CHECK_DEADLOCK FALSE
