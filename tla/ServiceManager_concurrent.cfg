SPECIFICATION Spec
CONSTANTS
  Proc = {main, p1, p2}
  Main = main
  Service = {s1}
  Image = {"v1"}
  Subdomain = {"", "www"}
  MaxReplicas = 1
  CID = {1, 2, 3, 4, 5}
  SvcId = {1, 2, 3, 4}
  Nil = Nil
  Requests <- MCOneBody
  Ops = {"create", "scale", "update", "redeploy", "subdomain", "delete"}
  Faulty = TRUE
  MaxCrashes = 1
SYMMETRY MCSymmetry
INVARIANTS TypeOK FreshOrOwed
PROPERTY Publishes
