\* One place for two requests, with retries, timeouts and a host with two
\* addresses; and two places with kept connections and redirections.
SPECIFICATION Spec
CONSTANTS
  Reqs = {r1, r2}
  Socks = {s1, s2, s3}
  FewSocks = {s1, s2}
  None = None
  e1 = e1
  e2 = e2
PROPERTIES Completes Admitted
CHECK_DEADLOCK FALSE
