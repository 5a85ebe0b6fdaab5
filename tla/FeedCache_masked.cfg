SPECIFICATION Spec
CONSTANTS
  RetryAttempts = 3
  CacheMaxAge = 3
  ReadyMaxAge = 2
  Answers = {"feed", "404"}
  Modes = {"apply"}
  Faults = {"cancel"}
PROPERTIES ClientErrorSurfaces
