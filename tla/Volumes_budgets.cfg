SPECIFICATION Spec
CONSTANTS
  admin = admin
  ann = ann
  bob = bob
  Session = {admin, ann, bob}
  Volume = {data, logs}
  Member = {ann, bob}
  NoOwner = NoOwner
  Caller <- MCCaller
  Quota <- MCQuota
  MaxSize = 1
  CID = {1, 2, 3, 4}
  Nil = Nil
  Ops = {"create", "resize", "remove"}
  Faulty = TRUE
  MaxCrashes = 0
SYMMETRY MCSymmetry
INVARIANT WithinQuota
