SPECIFICATION ElectedSpec
CONSTANTS
  Nil = Nil
  NoOp = NoOp
  Node = {n1,n2,n3}
  Candidates = {n1}
  Cmd = {c1,c2}
  n1 = n1
  n2 = n2
  n3 = n3
  c1 = c1
  c2 = c2
  Lossy = FALSE
  MaxTerm = 1
  MaxLog = 3
  MaxBatch = 2
  MaxInFlight = 1
  MaxCrash = 0
SYMMETRY FollowerSymmetry
INVARIANTS
  CommittedOnMajority
  AckedMeansReplicated

CHECK_DEADLOCK FALSE
