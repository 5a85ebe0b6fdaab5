SPECIFICATION Spec
CONSTANTS
  a = a b = b c = c
  Prefix <- MCPrefix
  Lists <- MCLists
  Flags <- MCFlags
  SeqStep = 2 DenySeq = 5 Deny = Deny
  MaxPrefixes = 0 Faults = {}
INVARIANTS SuccessMeansLoaded
