SPECIFICATION FairSpec

CONSTANTS
  RenewOrder <- ByName
  Console = FALSE
  MaxGen = 2
  AbortPoints <- KeyKept
  MaxAborts = 1

PROPERTIES
  IssuedIsLoaded

CHECK_DEADLOCK FALSE
