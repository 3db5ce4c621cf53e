SPECIFICATION Spec
CONSTANTS
  o1 = o1
  o2 = o2
  d1 = d1
  d2 = d2
  w1 = w1
  k1 = k1
  k2 = k2
  Orders <- OneOrder
  Deposits <- TwoDeposits
  Withdrawals <- OneRequest
  Calls <- TwoCalls
  NoOrder = NoOrder
  NoRow = NoRow
  Price = 2
  Amounts <- One
  WithdrawalAmount = 1
  CreditLimit = 2
  MaxAdjust = 1
INVARIANTS FundsExplained
PROPERTIES CreditedWasTaken
SYMMETRY Symmetry
CHECK_DEADLOCK FALSE
