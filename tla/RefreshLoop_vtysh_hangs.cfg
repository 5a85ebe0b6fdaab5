SPECIFICATION FairSpec
CONSTANTS
  Worker = {w1, w2, w3}
  MayHang = {"check"}
PROPERTIES KeepsRefreshing
