SPECIFICATION Spec
CONSTANTS
  Country = {ru, uz}
  Prefix = {p}
  Extras <- MCNoExtras
  Flags <- MCDaemon
  Faults = {}
  Valid <- MCAllValid
  Shrinks = FALSE
PROPERTIES OwnBlockOnly
