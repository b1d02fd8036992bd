SPECIFICATION RememberingSpec
CONSTANTS
  ProtectedHead = 1
  ProtectLast = 1
  MaxBatch = 2
  MaxItems = 5
  MaxLog = 7
  MaxArchives = 1
  m1 = m1
  m2 = m2
  MemProcs = {m1, m2}
  Texts = {"t"}
  MaxOps = 3
  Resolutions = {"r1", "r2"}
  ModelCalls <- AllModelCalls
  MaxFindBatch = 2
  MaxLogged = 2
SYMMETRY MemSymmetry
INVARIANTS
  WireIsLegal ResumeLosesNothing SummaryIsOfItsSpan
  
   ResumeRestoresFindings
CHECK_DEADLOCK FALSE
