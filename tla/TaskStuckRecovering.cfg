SPECIFICATION FairSpec
CONSTANTS
  Tasks = {t1}
  Procs = {p1, p2}
  Experiments = {e1}
  c1 = c1
  Cases = {c1}
  CaseOf <- OneCase
  MaxPerCase = 1
  MaxAttempts = 2
  NoOwner = NoOwner
  NoTask = NoTask
  NoExp = NoExp
  AttemptBound = 2
  MaxCrashes = 1
  TimelyHeartbeats = TRUE
  StoreErrors = FALSE
PROPERTY RecoveringIsResolved
CHECK_DEADLOCK FALSE
