SPECIFICATION Spec
CONSTANTS
  Nil = Nil
  NoOp = NoOp
  Node = {n1}
  Candidates = {n1}
  Cmd = {c1,c2}
  n1 = n1
  c1 = c1
  c2 = c2
  Lossy = FALSE
  MaxTerm = 3
  MaxLog = 5
  MaxBatch = 2
  MaxInFlight = 0
  MaxCrash = 2
INVARIANTS
  AppliedAtMostOnce

CHECK_DEADLOCK FALSE
