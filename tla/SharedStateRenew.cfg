SPECIFICATION FairSpec

CONSTANTS
  p1 = p1
  p2 = p2
  n1 = n1
  n2 = n2
  Procs = {p1, p2}
  NoProc = NoProc
  Commands = {"renew"}
  Names = {n1, n2}
  NoName = NoName
  Rank <- Walk
  Managed = {n1, n2}
  Outside = {}
  Selections <- AllNames
  ApiKeys = {a1}
  NoApiKey = NoApiKey
  Days = {30}
  DefaultDays = 30
  MaxOrders = 4
  Console = {n2}
  Reissues = TRUE
  Rejects = FALSE
  Purges = FALSE
  AbortPoints <- NotSaveRec
  MaxAborts = 2

INVARIANTS
  RenewsAlone
  RenewedOnce
  OnceInv

PROPERTIES
  DueIsRenewed
