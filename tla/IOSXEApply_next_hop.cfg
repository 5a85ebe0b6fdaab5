SPECIFICATION Spec
CONSTANTS
  a = a b = b c = c
  Prefix <- MCPrefix
  Lists <- MCLists
  Flags <- MCNextHop
  SeqStep = 2 DenySeq = 5 Deny = Deny
  MaxPrefixes = 2 Faults = {"cut"}
INVARIANTS SuccessMeansLoaded
