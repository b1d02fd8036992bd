SPECIFICATION ControlSpec
CONSTANTS
    scan = scan
    fetch = fetch
    Sigs = {scan, fetch}
    MaxIterations = 2
    MaxRepeat = 1
    StagnationLimit = 1
    MaxVerify = 1
    MaxTurnRebases = 1
    MaxOverflow = 1
    MaxActions = 2
    MaxTurnEvidence = 1
    ModelCheck = TRUE
    MaxTurns = 2
    Setups <- AllSetups
    Scenes <- AllScenes
    Responses <- AllResponses
    MaxTokens = 4
SYMMETRY SigSymmetry
INVARIANTS FinalIsVerified  InterruptIsPrompt ActedOnIsExamined
PROPERTY TurnRunsOut
