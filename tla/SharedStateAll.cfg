SPECIFICATION Spec

CONSTANTS
  p1 = p1
  p2 = p2
  n1 = n1
  n2 = n2
  Procs = {p1, p2}
  NoProc = NoProc
  Commands = {"renew", "configure", "update", "issue", "import"}
  Names = {n1, n2}
  NoName = NoName
  Rank <- Walk
  Managed = {n1}
  Outside = {}
  Selections <- AllOrOne
  ApiKeys = {a1}
  NoApiKey = NoApiKey
  Days = {30}
  DefaultDays = 30
  MaxOrders = 2
  Console = {n2}
  Reissues = FALSE
  Rejects = TRUE
  Purges = TRUE
  AbortPoints <- AnyStep
  MaxAborts = 1

INVARIANTS
  ListedHasRecord
  ListedInv

SYMMETRY ProcSymmetry

CHECK_DEADLOCK FALSE
