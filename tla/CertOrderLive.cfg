SPECIFICATION FairSpec

CONSTANTS
  Keys = {k1, k2}
  NoKey = NoKey
  Life = 3
  ContractLife = 6
  RenewBefore = 1
  ReissueLead = 1
  Cooldown = 1
  Day = 1
  MaxTime = 3
  ReissueSupported = TRUE
  RenewalSupported = TRUE
  OrgValidated = TRUE
  ForceFlags = {FALSE}
  AbortPoints <- Resumable
  MaxAborts = 2
  ApiRejects = FALSE
  ApiReissueFails = FALSE
  ApiPurges = FALSE

INVARIANTS
  PendingResumable

PROPERTIES
  PendingResolves
  ReissueDelivered
  TornIsMended

CHECK_DEADLOCK FALSE
