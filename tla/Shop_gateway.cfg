SPECIFICATION Spec
CONSTANTS
  o1 = o1
  o2 = o2
  g1 = g1
  g2 = g2
  s1 = s1
  s2 = s2
  NoOrder = NoOrder
  NoGateway = NoGateway
  Orders <- TwoOrders
  Gateways <- TwoGateways
  Sessions <- TwoSessions
  Modes = {"MIXED"}
  Price = 3
  Shares = {1}
  Opening = 4
  Stock = 1
INVARIANTS StockConserved SalesAndRefundsPair 
PROPERTIES CancelledStays PromiseKept
SYMMETRY Symmetry
CHECK_DEADLOCK FALSE
