SPECIFICATION FairCheckoutSpec
CONSTANTS
  r1 = r1
  r2 = r2
  btc = btc
  eth = eth
  Methods = {btc, eth}
  Requests = {r1, r2}
  NoRequest = NoRequest
  PoolSize = 5
  MaxChoices = 3
  MaxAborts = 1
INVARIANTS
  OnlyNewestLive
PROPERTIES
  RequestsEnd
  UnpaidFails
CHECK_DEADLOCK FALSE
