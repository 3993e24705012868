SPECIFICATION FairDashboardSpec
CONSTANTS
  u1 = u1
  u2 = u2
  m1 = m1
  m2 = m2
  m3 = m3
  None = None
  Users = {u1, u2}
  Merchants = {m1, m2}
  Owner <- Newcomer
  MaxInFlight = 2
  MaxFaults = 1
  MaxHasty = 1
INVARIANTS
  SettingsStayApart
  ChosenIsOwn
PROPERTIES
  LoadingEnds
CHECK_DEADLOCK FALSE
