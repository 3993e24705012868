SPECIFICATION ListingsSpec
CONSTANTS
  None = None
  Merchants = {m1, m2}
  Lists <- AllLists
  PageSize = 1
  OldRows = 1
  MaxRows = 3
  MaxForms = 2
  MaxSwitches = 1
  MaxFaults = 1
  MaxInFlight = 2
SYMMETRY Interchangeable
INVARIANTS
  ShowsChosen
  NothingSkipped
  OwnActsShow
  PaymentsMadeOnce
CHECK_DEADLOCK FALSE
