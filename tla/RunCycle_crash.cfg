SPECIFICATION Spec
CONSTANTS
  Country = {ru}
  Prefix = {p}
  Extras <- MCNoExtras
  Flags <- MCDaemon
  Faults = {"crash"}
  Valid <- MCAllValid
  Shrinks = FALSE
INVARIANTS SuccessMeansApplied
