SPECIFICATION BrowserSpec
CONSTANTS
  Attaches = FALSE
  MaxCrashes = 2
PROPERTY DeadPageIsReplaced
CHECK_DEADLOCK FALSE
