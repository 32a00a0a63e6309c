SPECIFICATION FairSpec

CONSTANTS
  RenewOrder <- ByName
  Console = TRUE
  MaxGen = 3
  AbortPoints <- KeyKept
  MaxAborts = 2

INVARIANTS
  TypeOK
  LoadedWhole
  PairResumable
  BothReload

PROPERTIES
  LoadedUnlessTorn

CHECK_DEADLOCK FALSE
