SPECIFICATION Spec
CONSTANTS
  RetryAttempts = 3
  CacheMaxAge = 3
  ReadyMaxAge = 2
  Answers = {"feed"}
  Modes = {"apply", "dryRun"}
  Faults = {}
INVARIANTS AnyReadyBoundsAge
