SPECIFICATION Spec
CONSTANTS
  r1 = r1
  r2 = r2
  l1 = l1
  Requests <- OneRequest
  TestRequests <- Nothing
  Locks <- OneLock
  Unreported <- Nothing
  Admins = {admin}
  Crons = {cron}
  NoLock = NoLock
  NoRequest = NoRequest
  MayCrash = TRUE
INVARIANTS OrderTraceable
CHECK_DEADLOCK FALSE
