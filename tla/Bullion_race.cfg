SPECIFICATION Spec
CONSTANTS
  b1 = b1
  u1 = u1
  u2 = u2
  p1 = p1
  p2 = p2
  s1 = s1
  s2 = s2
  Bars <- OneBar
  Users <- TwoUsers
  Admins <- TwoAdmins
  Sessions <- TwoSessions
  MaxTransfers = 2
  MaxReports = 1
  MaxSales = 1
  Prices <- OneOrTwo
  DualThreshold = 2
  MaxOpen = 1
  NoBar = NoBar
  NoUser = NoUser
  NoAdmin = NoAdmin
  NoPrice = NoPrice
INVARIANTS OneStory ReportFreezes PaidAsAgreed
PROPERTIES TitleKept
SYMMETRY Symmetry
CHECK_DEADLOCK FALSE
