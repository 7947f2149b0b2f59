SPECIFICATION Spec
CONSTANTS
  Nil = Nil
  NoOp = NoOp
  Node = {n1,n2}
  Candidates = {n1}
  Cmd = {c1}
  n1 = n1
  n2 = n2
  c1 = c1
  Lossy = TRUE
  MaxTerm = 2
  MaxLog = 3
  MaxBatch = 2
  MaxInFlight = 1
  MaxCrash = 1
INVARIANTS
  ReplicationInv
PROPERTY RefinesCommittedLog

CHECK_DEADLOCK FALSE
