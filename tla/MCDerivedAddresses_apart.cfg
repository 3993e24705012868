SPECIFICATION Spec
CONSTANTS
  w1 = w1
  w2 = w2
  w3 = w3
  m1 = m1
  m2 = m2
  key = key
  newKey = newKey
  a = a
  b = b
  p1 = p1
  p2 = p2
  p3 = p3
  Wallets = {w1, w2, w3}
  Keys = {key, newKey}
  KeyOf <- MCNewKey
  Merchants = {m1, m2}
  OwnerOf <- MCOwnerOf
  Payments = {p1, p2, p3}
  NoPayment = NoPayment
  Workers = {a, b}
  Serves <- MCApart
  NoAddress = NoAddress
  MaxAttempts = 3
  Deletable = {w3}
  Frail = {b}
  MarkMayFail = FALSE
  MaxRows = 3
  MaxFaults = 1
SYMMETRY PaymentSymmetry
INVARIANTS
  IssuedOnce
  NoGaps
CHECK_DEADLOCK FALSE
