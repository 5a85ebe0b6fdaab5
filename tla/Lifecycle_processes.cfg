SPECIFICATION FairSpec
CONSTANTS
  Proc = {timer, manual}
  Modes <- MCAll
  Faults = {"lock", "bind", "run", "hang", "kill"}
INVARIANTS TypeOK OneRuns
PROPERTIES SigtermEnds OnlyParkedOrStuck
