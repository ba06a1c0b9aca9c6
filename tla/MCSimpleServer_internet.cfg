\* internet_server on one thread, with every event that leaves max_count_ alone.
SPECIFICATION Spec
CONSTANTS
  NumFamilies = 2
  NoConn = NoConn
  Conns = {c1, c2, c3, c4}
  Threads = {t1}
  Counts = {2}
  Events = {"accept_error", "cancel", "close", "listen_error", "restart", "stop", "throw"}
  UseBound = 5
SYMMETRY Symm
INVARIANTS CapacityBound
