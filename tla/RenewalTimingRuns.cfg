SPECIFICATION Spec

CONSTANTS
  Day = 2
  Schedule <- ShrinkingSchedule
  Validities = {8, 13}
  Leads = {4, 13}
  DefaultLead = 4
  ReissueLife = {8}
  Terms = {0, 3, 12}
  Bonuses = {0}
  Outage = 1
  ReissueSupported = TRUE
  MaxTime = 18

INVARIANTS
  NeverLapses
  TimingInv
  OrdersWithinLimit

PROPERTIES
  SettingsStayUsable
