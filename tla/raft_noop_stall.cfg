SPECIFICATION Spec
CONSTANTS
  Nil = Nil
  NoOp = NoOp
  Node = {n1,n2}
  Candidates = {n1}
  Cmd = {}
  n1 = n1
  n2 = n2
  Lossy = FALSE
  MaxTerm = 2
  MaxLog = 2
  MaxBatch = 2
  MaxInFlight = 1
  MaxCrash = 1
INVARIANT NoOpCommits

CHECK_DEADLOCK FALSE
