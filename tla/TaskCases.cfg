SPECIFICATION Spec
CONSTANTS
  Tasks = {t1, t2}
  Procs = {p1}
  Experiments = {e1, e2}
  c1 = c1
  Cases = {c1}
  CaseOf <- OneCase
  MaxPerCase = 1
  MaxAttempts = 2
  NoOwner = NoOwner
  NoTask = NoTask
  NoExp = NoExp
  AttemptBound = 2
  MaxCrashes = 0
  TimelyHeartbeats = FALSE
  StoreErrors = FALSE
SYMMETRY Symmetry
INVARIANT CaseLimit
PROPERTY ImplementsFencedTasks
CHECK_DEADLOCK FALSE
