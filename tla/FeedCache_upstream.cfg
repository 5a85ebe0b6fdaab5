SPECIFICATION Spec
CONSTANTS
  RetryAttempts = 3
  CacheMaxAge = 3
  ReadyMaxAge = 2
  Answers = {"feed", "net", "5xx", "5xx citing 4xx", "429", "404", "no feed"}
  Modes = {"apply", "noNft", "dryRun", "target"}
  Faults = {"cancel", "apply", "marker"}
INVARIANTS TypeOK ReadyBoundsAge
PROPERTIES NeverGoesBack OutageBridged
