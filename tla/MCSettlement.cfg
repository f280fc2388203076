\* A channel, two sends for one work and a close; the SDK may send twice.
CONSTANTS
  o1 = o1
  s1 = s1
  s2 = s2
  x1 = x1
  w1 = w1
  OpenCalls = {o1}
  SendCalls = {s1, s2}
  CloseCalls = {x1}
  Work <- MCWork
  RetryOn = {"Refused"}
  MaxAttempts = 2
  Amounts <- MCAmounts
  NoAmount = NoAmount
  U64Max = 2
  NoChannel = NoChannel
  Funds = 3
SYMMETRY MCSymmetry
SPECIFICATION Spec
INVARIANTS TypeOK RefusedMovesNothing PaidOnce MoneyIsAccounted ReceiptIsPayment
CHECK_DEADLOCK FALSE
