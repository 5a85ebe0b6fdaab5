SPECIFICATION FairSpec
CONSTANTS
  Proc = {timer, manual}
  Modes <- MCLoops
  Faults = {"hang"}
PROPERTIES OnlyParkingStops
