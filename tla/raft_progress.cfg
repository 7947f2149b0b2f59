SPECIFICATION FairSpec
CONSTANTS
  Nil = Nil
  NoOp = NoOp
  Node = {n1,n2}
  Candidates = {n1}
  Cmd = {c1,c2}
  n1 = n1
  n2 = n2
  c1 = c1
  c2 = c2
  Lossy = FALSE
  MaxTerm = 1
  MaxLog = 3
  MaxBatch = 2
  MaxInFlight = 1
  MaxCrash = 0
PROPERTIES
  ProposalsAnswered
  ReachesEveryone
CHECK_DEADLOCK FALSE
