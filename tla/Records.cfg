SPECIFICATION RecordsSpec
CONSTANTS
  Hyps = {h1}
  Exps = {x1}
  Sessions = {s1}
  NoExp = NoExp
  Kinds <- MCAllKinds
  Strengths = {2, 4}
  Shapes = {"propose", "plan", "link", "resolve",
            "propose-plan", "link-resolve", "resolve-resolve"}
  MaxVersion = 8
  MaxEvidence = 1
  MaxLinks = 2
  c1 = c1
  c2 = c2
  Clients = {c1, c2}
  Payloads <- MCPayloads
  TaskEvents <- MCTaskEvents
  Needs <- MCNeeds
  MinEvents = 1
  MaxEntries = 3
  MaxCommands = 1
  MaxCorrupt = 1
  p1 = p1
  p2 = p2
  Processes = {p1, p2}
  EventKinds = {"user", "set", "clear", "met"}
  Capacity = 1
  MaxEvents = 3
  MaxFaults = 2
  MaxRollbacks = 1
SYMMETRY RecordsSymmetry
CONSTRAINT Claimed
INVARIANTS ConfirmedIsTraceable ApprovalIsBound AnswersAreTrue ProjectionsFollow
PROPERTY ResolvedUncontested
CHECK_DEADLOCK FALSE
