SPECIFICATION Spec
CONSTANTS
  Proc = {main, p1, p2}
  Main = main
  Remote = {edge}
  Local = here
  Name = {"lab", "gpu"}
  Service = {"api"}
  Rank <- MCRank
  Sub <- MCSub
  Target = {box}
  Nil = Nil
  Faulty = TRUE
  MaxCrashes = 1
SYMMETRY MCSymmetry
INVARIANTS TypeOK NodesFresh ServicesWin ShownAddressesServed
PROPERTY Publishes
