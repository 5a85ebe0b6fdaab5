SPECIFICATION Spec
CONSTANTS
  RetryAttempts = 1
  CacheMaxAge = 2
  ReadyMaxAge = 2
  Answers = {"feed", "429", "5xx citing 4xx"}
  Modes = {"apply"}
  Faults = {}
PROPERTIES RateLimitFallsBack ServerErrorFallsBack
