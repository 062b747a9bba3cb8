SPECIFICATION FairSpec
CONSTANTS
  Proc = {main, p1}
  Main = main
  Service = {s1, s2}
  Image = {"v1", "v2"}
  Subdomain = {""}
  MaxReplicas = 2
  CID = {1, 2, 3, 4, 5}
  SvcId = {1, 2, 3, 4}
  Nil = Nil
  Requests <- MCRecoveryBodies
  Ops = {"create", "scale", "update", "redeploy", "subdomain", "delete"}
  Faulty = FALSE
  MaxCrashes = 1
INVARIANTS Owned Converged
PROPERTY Recovers
