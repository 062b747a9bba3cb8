SPECIFICATION Spec
CONSTANTS
  Proc = {p1, p2}
  Main = main
  Service = {api, web}
  MaxReplicas = 2
  Cpu = {1, 2}
  Quota = 2
  Requests <- MCRequests
  Nil = Nil
  Faulty = TRUE
  MaxOps = 4
  MaxCrashes = 1
SYMMETRY MCSymmetry
INVARIANTS TypeOK ServicesFit WithinQuota
CHECK_DEADLOCK FALSE
