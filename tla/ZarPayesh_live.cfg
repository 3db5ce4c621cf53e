SPECIFICATION FairSpec
CONSTANTS
  r1 = r1
  r2 = r2
  l1 = l1
  Requests <- TwoRequests
  TestRequests <- TestRequest
  Locks <- OneLock
  Unreported <- Nothing
  Admins <- Nothing
  Crons = {c1}
  NoLock = NoLock
  NoRequest = NoRequest
  MayCrash = FALSE
PROPERTIES Converges ApprovedRollbackFlagged
CHECK_DEADLOCK FALSE
