SPECIFICATION Spec
CONSTANTS
  t1 = t1
  t2 = t2
  p1 = p1
  p2 = p2
  c1 = c1
  c2 = c2
  Transfers = {t1, t2}
  NoTransfer = NoTransfer
  Amount <- MCAmount
  Expected = 4
  Tolerances = {1}
  ServiceFee = 1
  Pollers = {p1}
  Checkers = {c1}
  Expirers = {e1}
  Merchants = {m1}
  RpcFaults = TRUE
  LookupFaults = FALSE
  MaxFaults = 1
  MaxReconciles = 0
INVARIANTS
  TypeOK
  CompletedIsFinal
  CompletedIsCovered
  FactIsBooked
  
CHECK_DEADLOCK FALSE
