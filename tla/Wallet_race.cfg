SPECIFICATION Spec
CONSTANTS
  u1 = u1
  u2 = u2
  w1 = w1
  w2 = w2
  w3 = w3
  p1 = p1
  p2 = p2
  s1 = s1
  s2 = s2
  Withdrawals <- Two
  Sessions <- TwoSessions
  NoUser = NoUser
  NoAdmin = NoAdmin
  NoRequest = NoRequest
  Opening = 20
  FeePercent = 5
  FeeFixed = 1
  FeeMax = 2
  Users <- OneUser
  Admins <- TwoAdmins
  Amounts = {20, 30}
  Moves = {20}
  MaxMoved = 20
  DailyLimit = 40
  MonthlyLimit = 50
  DualThreshold = 30
  Days = {1, 2}
  ShopIgnoresHolds = TRUE
INVARIANTS TablesAgree DualControl LimitsHold WalletExplained BooksExplained HoldsCoveredButForced
PROPERTIES DecisionsStand
SYMMETRY Symmetry
CHECK_DEADLOCK FALSE
