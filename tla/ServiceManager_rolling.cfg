SPECIFICATION FairSpec
CONSTANTS
  Proc = {main, p1, p2}
  Main = main
  Service = {s1, s2}
  Image = {"v1", "v2"}
  Subdomain = {""}
  MaxReplicas = 3
  CID = {1, 2, 3, 4, 5}
  SvcId = {1, 2, 3, 4}
  Nil = Nil
  Requests <- MCRollBodies
  Ops = {"update", "redeploy", "subdomain"}
  Faulty = FALSE
  MaxCrashes = 0
INVARIANTS RolledOut AtMostOneDown
PROPERTY Terminates
CHECK_DEADLOCK FALSE
