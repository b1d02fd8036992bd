SPECIFICATION Spec
CONSTANTS
  Tasks = {t1}
  Procs = {p1, p2, p3}
  Experiments = {e1}
  c1 = c1
  Cases = {c1}
  CaseOf <- OneCase
  MaxPerCase = 1
  MaxAttempts = 2
  NoOwner = NoOwner
  NoTask = NoTask
  NoExp = NoExp
  AttemptBound = 3
  MaxCrashes = 2
  TimelyHeartbeats = FALSE
  StoreErrors = TRUE
SYMMETRY Symmetry
INVARIANT FencesHold
PROPERTIES LeasesRespected TerminalIsFinal
CHECK_DEADLOCK FALSE
