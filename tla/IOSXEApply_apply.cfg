SPECIFICATION FairSpec
CONSTANTS
  a = a b = b c = c
  Prefix <- MCPrefix
  Lists <- MCLists
  Flags <- MCFlags
  MaxPrefixes = 2 SeqStep = 2 DenySeq = 5
  Deny = Deny
  Faults = {"dial", "setup", "lost", "cut", "silent", "reject", "output", "crash"}
INVARIANTS TypeOK SuccessMeansLoaded
PROPERTIES SavedIsVerified OnlySetupStalls
