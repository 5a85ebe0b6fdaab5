SPECIFICATION FairSpec
CONSTANTS
  Country = {ru}
  Prefix = {p, q}
  Extras <- MCExtras
  Flags <- MCForce
  Faults = {"extras", "nft", "read", "syntax", "write", "reload"}
  Valid <- MCValid
  Shrinks = TRUE
INVARIANTS SuccessMeansApplied
PROPERTIES ApplyIsAllOrNothing Heals
