SPECIFICATION Spec
CONSTANTS
  Nil = Nil
  NoOp = NoOp
  Node = {n1,n2}
  Candidates = {n1,n2}
  Cmd = {c1}
  n1 = n1
  n2 = n2
  c1 = c1
  Lossy = FALSE
  MaxTerm = 2
  MaxLog = 2
  MaxBatch = 2
  MaxInFlight = 1
  MaxCrash = 0
INVARIANTS
  TypeOK
  AnsweredOnce
  Electable
CHECK_DEADLOCK FALSE
