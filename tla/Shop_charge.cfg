SPECIFICATION Spec
CONSTANTS
  o1 = o1
  o2 = o2
  g1 = g1
  g2 = g2
  s1 = s1
  s2 = s2
  NoOrder = NoOrder
  NoGateway = NoGateway
  Orders <- OneOrder
  Gateways <- OneGateway
  Sessions <- TwoSessions
  Modes = {"WALLET"}
  Price = 3
  Shares = {1}
  Opening = 7
  Stock = 1
PROPERTIES ChargedWhileUnpaid
SYMMETRY Symmetry
CHECK_DEADLOCK FALSE
