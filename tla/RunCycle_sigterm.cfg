SPECIFICATION Spec
CONSTANTS
  Country = {ru}
  Prefix = {p}
  Extras <- MCNoExtras
  Flags <- MCDaemon
  Faults = {"cancel"}
  Valid <- MCAllValid
  Shrinks = FALSE
INVARIANTS DrainedInSync
