\* Two threads, waits for the past and the future, cancel() included.
SPECIFICATION FairSpec
CONSTANTS
  Tasks = {x1, x2, x3}
  Threads = {t1, t2}
  Delays <- AnyDelay
  MaxTime = 2
  Cancels = TRUE
INVARIANTS TypeOK Ordered Armed
PROPERTIES Delivered
CHECK_DEADLOCK FALSE
