SPECIFICATION Spec

CONSTANTS
  p1 = p1
  p2 = p2
  n1 = n1
  n2 = n2
  Procs = {p1, p2}
  NoProc = NoProc
  Commands = {"renew", "update"}
  Names = {n1, n2}
  NoName = NoName
  Rank <- Walk
  Managed = {n1, n2}
  Outside = {}
  Selections <- AllNames
  ApiKeys = {a1}
  NoApiKey = NoApiKey
  Days = {30}
  DefaultDays = 30
  MaxOrders = 4
  Console = {}
  Reissues = FALSE
  Rejects = TRUE
  Purges = FALSE
  AbortPoints <- NotSaveRec
  MaxAborts = 1

INVARIANTS
  RenewedOnce

CHECK_DEADLOCK FALSE
