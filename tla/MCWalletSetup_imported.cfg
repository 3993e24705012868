SPECIFICATION WalletSetupSpec
CONSTANTS
  Merchants = {m1, m2}
  Keys = {"zpub", "xpub"}
  PathOf <- SomePaths
  DefaultPath = "m84"
  None = None
  MaxWallets = 2
  MaxIndex = 1
  MaxFaults = 1
  MaxImpatient = 1
  MaxInFlight = 2
INVARIANTS
  ViewsAreTrue
  
CHECK_DEADLOCK FALSE
