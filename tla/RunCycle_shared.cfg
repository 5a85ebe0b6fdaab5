SPECIFICATION Spec
CONSTANTS
  Country = {ru, uz}
  Prefix = {p}
  Extras <- MCNoExtras
  Flags <- MCChecked
  Faults = {"fetch", "extras", "nft", "read", "syntax", "write", "reload", "restore", "resync", "cancel", "crash"}
  Valid <- MCValid
  Shrinks = FALSE
SYMMETRY MCCountries
INVARIANTS TypeOK AdvertisedIsMarked LiveConfValid
