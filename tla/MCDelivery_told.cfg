SPECIFICATION FairSpec
CONSTANTS
  u1 = u1
  u2 = u2
  Updaters = {u1, u2}
  MaxChanges = 3
  MaxFills = 2
  MaxFaults = 1
INVARIANTS
  QuietMeansTold
  QuietMeansCounted
  
PROPERTIES
  NewsArrive
CHECK_DEADLOCK FALSE
