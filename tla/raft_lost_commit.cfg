SPECIFICATION Spec
CONSTANTS
  Nil = Nil
  NoOp = NoOp
  Node = {n1,n2}
  Candidates = {n1,n2}
  Cmd = {}
  n1 = n1
  n2 = n2
  Lossy = FALSE
  MaxTerm = 3
  MaxLog = 2
  MaxBatch = 2
  MaxInFlight = 1
  MaxCrash = 0
INVARIANT CommittedOnMajority

CHECK_DEADLOCK FALSE
