\* Three requests compete for two places on several threads.
SPECIFICATION Spec
CONSTANTS
  Reqs = {r1, r2, r3}
  Socks = {s1, s2, s3}
  None = None
  e1 = e1
  Eps = {e1}
  Hosts <- OneHost
  MaxCount = 2
  MaxRetry = 0
  OneThread = FALSE
  Events = {"connect_error", "keep_alive", "peer_close", "redirect", "resolve_error", "timeout"}
SYMMETRY Symm
INVARIANTS OnceEach Accounting WakeUpOwed
CHECK_DEADLOCK FALSE
