CONSTANTS
  Files <- MCFiles
  Profiles <- MCProfiles
  Environments <- MCEnvironments
  Flags <- MCFlags
  Countries = 2
  SocksStart = 5
  MaxPort = 13
  Accepted = {"us", "de", "fr"}
  Blacklists <- MCBlacklists
  Versions <- MCVersions
  HttpStart = 20
  PrivoxyStart = 40
SPECIFICATION Spec
INVARIANTS PriorityKept LoggingDecided SocksPortsFit EveryInstanceServes
\* Once HAProxy serves, or the startup has failed, nothing is left to do.
CHECK_DEADLOCK FALSE
