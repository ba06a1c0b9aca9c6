\* The lost wake-up of decl() on three threads.
SPECIFICATION Spec
CONSTANTS
  NumFamilies = 1
  NoConn = NoConn
  Conns = {c1, c2, c3, c4, c5}
  Threads = {t1, t2, t3}
  Counts = {2}
  Events = {}
  UseBound = 9
SYMMETRY Symm
INVARIANTS NotDead
