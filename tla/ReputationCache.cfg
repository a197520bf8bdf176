CONSTANTS
  Countries = {"DE", "SE"}
  CacheTTL = 2
  MaxTime = 5
SPECIFICATION CacheSpec
INVARIANTS NeverOlder KnownIsAnswered
