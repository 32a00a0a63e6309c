SPECIFICATION FairSpec
CONSTANTS
  timer = timer
  manual = manual
  rsa = rsa
  ecdsa = ecdsa
  v0 = v0
  v1 = v1
  v2 = v2
  Procs = {timer, manual}
  Resuming = {timer}
  Worklists <- BothOrOne
  Orders = {rsa, ecdsa}
  Organization = {rsa, ecdsa}
  Values = {v0, v1, v2}
  Wanted <- WantedValues
  Former <- FormerValues
  NoValue = NoValue
  NoOrder = NoOrder
  Ids = {1, 2, 3, 4}
  MaxMishaps = 1
INVARIANTS
  TypeOK
  WaitsPublished
  NoPileUp
  ProvisionInv
PROPERTIES
  ForeignKept
  OrdersDelivered

CHECK_DEADLOCK FALSE
