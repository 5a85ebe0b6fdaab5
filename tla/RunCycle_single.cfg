SPECIFICATION Spec
CONSTANTS
  Country = {ru}
  Prefix = {p, q}
  Extras <- MCExtras
  Flags <- MCAnyFlag
  Faults = {"fetch", "cacheWrite", "extras", "nft", "read", "syntax", "write", "reload", "restore", "resync", "cancel", "crash"}
  Valid <- MCValid
  Shrinks = TRUE
INVARIANTS FailureKeepsConf RestoredIsInSync
