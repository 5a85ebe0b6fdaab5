SPECIFICATION Spec
CONSTANTS
  Country <- Countries
  Family <- V4V6
  Begin <- BeginOf
  End <- EndOf
  NL <- Newline
  Networks <- SomeNetworks
  Text <- SomeText
  Wants <- WantedTexts
  Files <- Remarked
  Faults = {}
PROPERTIES ImplementsSharedFile
