SPECIFICATION Spec
CONSTANTS
  admin = admin
  ann = ann
  bob = bob
  Session = {admin, ann}
  Volume = {data}
  Member = {ann}
  NoOwner = NoOwner
  Caller <- MCCaller
  Quota <- MCQuota
  MaxSize = 1
  CID = {1, 2, 3, 4}
  Nil = Nil
  Ops = {"create", "resize", "remove", "browse"}
  Faulty = TRUE
  MaxCrashes = 1
INVARIANTS TypeOK Released
