SPECIFICATION Spec
CONSTANTS
  c1 = c1
  e1 = e1
  e2 = e2
  Emails = {e1, e2}
  Campaigns = {c1}
  MaxSteps = 2
  DailyLimits = {1, 2}
  Batch = 2
  MaxAttempts = 2
  MaxActs = 2
  MaxFaults = 1
  MaxInFlight = 2
SYMMETRY Interchangeable
INVARIANTS
  TypeOK
  MailedOnce
  QuotaKept
  
PROPERTIES
  CancelledStays
CHECK_DEADLOCK FALSE
