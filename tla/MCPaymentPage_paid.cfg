SPECIFICATION FairSpec
CONSTANTS
  c1 = c1
  c2 = c2
  None = None
  Currencies = {c1, c2}
  Named = {c1}
  MaxAge = 2
  MaxInFlight = 2
  MaxLosses = 1
INVARIANTS
  ResultsAreTrue
  AgreedIsLocked
PROPERTIES
  ResultComes
  NeverGoesBack
CHECK_DEADLOCK FALSE
