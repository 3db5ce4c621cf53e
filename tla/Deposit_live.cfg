SPECIFICATION DepositSpec
CONSTANTS
  u1 = u1
  s1 = s1
  s2 = s2
  k1 = k1
  Users <- OneUser
  Sessions <- TwoSessions
  MaxRequests = 2
  Keys <- OneKey
  NoKey = NoKey
  DepositAmounts <- One
  DailyLimit = 1
  MAX_REJECTIONS = 1
  MaxRejections = 1
  BatchSize = 1
  NoUser = NoUser
INVARIANTS CreditedOnce WalletsExplained PaperFollowsRequest CapOvershootBounded
PROPERTIES OverdueCloses
CHECK_DEADLOCK FALSE
