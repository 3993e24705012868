SPECIFICATION Spec
CONSTANTS
  ma = ma
  mb = mb
  free = free
  pro = pro
  None = None
  Merchants = {ma}
  Assigned = {}
  Plans = {free, pro}
  FreePlan = free
  Limits <- MCLimits
  MaxActs = 2
  MaxInFlight = 2
  MaxTrouble = 1
INVARIANTS
  
  LimitHolds
  DeletedKeepsNone
  PagesAreTrue
CHECK_DEADLOCK FALSE
