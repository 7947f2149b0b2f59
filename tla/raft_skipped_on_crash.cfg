SPECIFICATION Spec
CONSTANTS
  Nil = Nil
  NoOp = NoOp
  Node = {n1}
  Candidates = {n1}
  Cmd = {c1}
  c1 = c1
  n1 = n1
  Lossy = FALSE
  MaxTerm = 1
  MaxLog = 2
  MaxBatch = 2
  MaxInFlight = 0
  MaxCrash = 1
INVARIANT NothingSkipped

CHECK_DEADLOCK FALSE
