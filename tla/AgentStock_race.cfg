SPECIFICATION Spec
CONSTANTS
  a1 = a1
  b1 = b1
  b2 = b2
  s1 = s1
  s2 = s2
  x1 = x1
  x2 = x2
  t1 = t1
  k1 = k1
  Agents <- OneAgent
  Bars <- TwoBars
  Sales <- TwoSales
  Buybacks <- TwoBuybacks
  Settlements <- OneSettlement
  Calls <- OneCall
  NoAgent = NoAgent
  NoBar = NoBar
  NoSale = NoSale
  Third = Third
  NetPayable = 2
  Amount = 1
  CreditLimit = 2
  MaxPurchases = 2
INVARIANTS AccountsExplained HeldBarHasOrder TitleFollowsBar
PROPERTIES TakenBySaleOnly
SYMMETRY Symmetry
CHECK_DEADLOCK FALSE
