SPECIFICATION Spec
CONSTANTS
  Country = {ru}
  Prefix = {p}
  Extras <- MCNoExtras
  Flags <- MCDaemon
  Faults = {}
  Valid <- MCAllValid
  Shrinks = TRUE
INVARIANTS AdvertisedIsMarked
