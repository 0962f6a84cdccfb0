SPECIFICATION Spec
CONSTANTS
  Threads = {w1, w2, w3}
  Contexts = {c1, c2, c3, c4}
  None = None
  MaxDepth = 2
CHECK_DEADLOCK FALSE
SYMMETRY Symmetry
INVARIANTS TypeOK ContextsAreConfined WorksForCaller NotifyIsLast CleanAfterOrdinaryEnds
