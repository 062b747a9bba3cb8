SPECIFICATION FairSpec
CONSTANTS
  Proc = {main, p1}
  Main = main
  Service = {s1, s2}
  Image = {"v1"}
  Subdomain = {""}
  MaxReplicas = 3
  CID = {1, 2, 3, 4, 5}
  SvcId = {1, 2, 3, 4}
  Nil = Nil
  Requests <- MCAutoBodies
  Ops = {"autoscale", "delete"}
  Faulty = FALSE
  MaxCrashes = 0
CHECK_DEADLOCK FALSE
PROPERTY AutoSettles
