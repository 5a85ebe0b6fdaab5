SPECIFICATION Spec
CONSTANTS
  Country = {ru}
  Prefix = {p}
  Extras <- MCNoExtras
  Flags <- MCDaemon
  Faults = {"reload"}
  Valid <- MCAllValid
  Shrinks = FALSE
PROPERTIES FailedReloadLeavesNext
