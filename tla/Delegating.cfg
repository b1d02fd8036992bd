SPECIFICATION DelegatingSpec
CONSTANTS
  Hyps = {h1}
  Exps = {x1}
  Sessions = {s1, s2}
  NoExp = NoExp
  Kinds <- OneKind
  Strengths = {4}
  Shapes = {"propose-plan", "link", "resolve"}
  MaxVersion = 6
  MaxEvidence = 1
  MaxLinks = 2
  MaxRebases = 1
  MaxSubRuns = 3
  MaxDepth = 2
  MaxConcurrent = 2
  MaxRootTurns = 2
  Chain <- TwoProviders
  Limited = {"a"}
  LlmCalls = {"c1", "c2"}
  RoleOf <- Roles
  CallDeadline = 1
  CooldownMax = 1
  ProbeLease = 2
SYMMETRY SessionSymmetry
INVARIANTS
  CacheIsCurrent ObservedHasEvidence
  InterruptReachesAll 
PROPERTIES ImplementsCaseLedger CallRunsOut
CHECK_DEADLOCK FALSE
