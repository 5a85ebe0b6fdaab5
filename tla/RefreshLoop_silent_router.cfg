SPECIFICATION FairSpec
CONSTANTS
  Worker = {w1, w2, w3}
  MayHang = {"setup"}
PROPERTIES SigtermReturns
