SPECIFICATION Spec
CONSTANTS
  Proc = {main, p1, p2}
  Main = main
  Service = {s1}
  Image = {"v1"}
  Subdomain = {""}
  MaxReplicas = 1
  CID = {1, 2, 3, 4, 5}
  SvcId = {1, 2, 3, 4}
  Nil = Nil
  Requests <- MCOneBody
  Ops = {"scale", "delete"}
  Faulty = FALSE
  MaxCrashes = 0
CHECK_DEADLOCK FALSE
INVARIANT DeleteRemovesReplicas
