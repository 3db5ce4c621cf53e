SPECIFICATION Spec
CONSTANTS
  r1 = r1
  r2 = r2
  l1 = l1
  Requests <- TwoRequests
  TestRequests <- Nothing
  Locks <- OneLock
  Unreported <- Nothing
  Admins <- Nothing
  Crons = {cron}
  NoLock = NoLock
  NoRequest = NoRequest
  MayCrash = FALSE
INVARIANTS OrderHasApproval
PROPERTIES SupervisionKept
SYMMETRY Symmetry
CHECK_DEADLOCK FALSE
