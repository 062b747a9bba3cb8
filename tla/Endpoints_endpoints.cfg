SPECIFICATION Spec
CONSTANTS
  Proc = {p1, p2, p3}
  Id = {e1}
  Host = {h1, h2}
  Cert = {a, b}
  NoCert = NoCert
  Nil = Nil
  Faulty = TRUE
SYMMETRY MCSymmetry
INVARIANTS TypeOK FreshClients
PROPERTY CertsKept
