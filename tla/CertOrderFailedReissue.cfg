SPECIFICATION Spec

CONSTANTS
  Keys = {k1, k2, k3}
  NoKey = NoKey
  Life = 2
  ContractLife = 6
  RenewBefore = 1
  ReissueLead = 1
  Cooldown = 1
  Day = 1
  MaxTime = 4
  ReissueSupported = TRUE
  RenewalSupported = TRUE
  OrgValidated = FALSE
  ForceFlags = {TRUE, FALSE}
  AbortPoints <- NotSaveList
  MaxAborts = 2
  ApiRejects = FALSE
  ApiReissueFails = TRUE
  ApiPurges = FALSE

SYMMETRY KeySymmetry

INVARIANTS
  ServedMatches

CHECK_DEADLOCK FALSE
