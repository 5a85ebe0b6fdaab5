SPECIFICATION Spec
CONSTANTS
  Country = {ru}
  Prefix = {p}
  Extras <- MCNoExtras
  Flags <- MCStaged
  Faults = {}
  Valid <- MCAllValid
  Shrinks = FALSE
PROPERTIES ReloadPushes
