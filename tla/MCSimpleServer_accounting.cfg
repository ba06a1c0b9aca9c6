\* simple_server on two threads, with every event.
SPECIFICATION Spec
CONSTANTS
  NumFamilies = 1
  NoConn = NoConn
  Conns = {c1, c2, c3, c4}
  Threads = {t1, t2}
  Counts = {1, 2}
  Events = {"accept_error", "cancel", "close", "listen_error", "max_count", "restart", "stop", "throw"}
  UseBound = 5
SYMMETRY Symm
INVARIANTS TypeOK UseCountExact
