SPECIFICATION ActingSpec
CONSTANTS
  Interfaces = {"repl", "inline", "tui"}
  MaxLines = 4
  MaxFaults = 1
  ToolCallsAsked <- AllCalls
  MaxAsked = 3
  a1 = a1
  a2 = a2
  Agents = {a1, a2}
  Scenarios <- AllScenarios
  MaxToolCalls = 3
  Rpm = 1
  KeptPerPath = 1
  MaxBatches = 2
  MaxEdits = 1
  MaxClock = 2
  McpCalls = {"c1", "c2", "c3"}
  MaxLaunches = 3
INVARIANTS
  EveryLineOnce 
  OnlyPermittedRuns EveryCallIsAnswered
  AnswerIsToThisCall
 
CHECK_DEADLOCK FALSE
