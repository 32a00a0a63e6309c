SPECIFICATION Spec

CONSTANTS
  Keys = {k1, k2, k3}
  NoKey = NoKey
  Life = 2
  ContractLife = 4
  RenewBefore = 1
  ReissueLead = 1
  Cooldown = 1
  Day = 1
  MaxTime = 4
  ReissueSupported = TRUE
  RenewalSupported = TRUE
  OrgValidated = TRUE
  ForceFlags = {TRUE, FALSE}
  AbortPoints <- NotSaveList
  MaxAborts = 2
  ApiRejects = TRUE
  ApiReissueFails = FALSE
  ApiPurges = TRUE

SYMMETRY KeySymmetry

INVARIANTS
  TypeOK
  ServedMatches
  PendingKeyKept
  IInv

PROPERTIES
  ImplementsService

CHECK_DEADLOCK FALSE
