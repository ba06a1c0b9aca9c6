\* simple_server on one thread, with failing accepts and a full life cycle.
SPECIFICATION FairSpec
CONSTANTS
  NumFamilies = 1
  NoConn = NoConn
  Conns = {c1, c2, c3, c4}
  Threads = {t1}
  Counts = {1, 2, 3}
  Events = {"accept_error", "cancel", "close", "listen_error"}
  UseBound = 9
INVARIANTS NotStalled
PROPERTIES Resumes
