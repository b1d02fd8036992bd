SPECIFICATION FairSpec
CONSTANTS
  Tasks = {t1}
  Procs = {p1, p2, p3}
  AttemptBound = 2
  MaxCrashes = 1
  MaxErrors = 1
INVARIANTS DeliveredExactlyOnce BackgroundToldOnce
PROPERTIES ImplementsFencedTasks EndedIsDelivered
CHECK_DEADLOCK FALSE
