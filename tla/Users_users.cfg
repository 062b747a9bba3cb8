SPECIFICATION Spec
CONSTANTS
  Session = {s1, s2}
  Account = {"root", "ann"}
  Req = {r1}
  Env = {"local", "edge"}
  Local = "local"
  Dim = {"cpu", "disk"}
  MaxAmount = 1
  Bodies <- MCBodies
  Wants <- MCWants
  Nil = Nil
  Faulty = TRUE
SYMMETRY MCSymmetry
INVARIANTS TypeOK ApprovedWasGranted RejectedGrantsNothing
PROPERTIES LastAdminStays KeptIntact
