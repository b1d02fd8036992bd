SPECIFICATION StoringSpec
CONSTANTS
  m1 = m1
  m2 = m2
  MemProcs = {m1, m2}
  Texts = {"t"}
  MaxOps = 4
SYMMETRY StorersAlike
INVARIANT RecallTakesSides
CHECK_DEADLOCK FALSE
