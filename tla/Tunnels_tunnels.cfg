SPECIFICATION FairSpec
CONSTANTS
  Proc = {p1, p2}
  Tunnel = {t1, t2}
  Address <- MCAddress
  Conn = {c1, c2}
  Nil = Nil
  Faulty = TRUE
INVARIANTS TypeOK Reachable RunningIsReal FlagTold
PROPERTY StoppedCloses
