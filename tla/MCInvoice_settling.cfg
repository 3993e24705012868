SPECIFICATION FairSpec
CONSTANTS
  t1 = t1
  t2 = t2
  p1 = p1
  p2 = p2
  c1 = c1
  c2 = c2
  Transfers = {t2}
  NoTransfer = NoTransfer
  Amount <- MCAmount
  Expected = 4
  Tolerances = {0, 1}
  ServiceFee = 1
  Pollers = {p1}
  Checkers = {c1}
  Expirers = {e1}
  Merchants = {}
  RpcFaults = FALSE
  LookupFaults = FALSE
  MaxFaults = 1
  MaxReconciles = 1
PROPERTIES
  ComesToRest
CHECK_DEADLOCK FALSE
