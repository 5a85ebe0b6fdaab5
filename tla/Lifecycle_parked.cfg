SPECIFICATION FairSpec
CONSTANTS
  Proc = {timer, manual}
  Modes <- MCHttp
  Faults = {}
PROPERTIES CyclesGoOn
