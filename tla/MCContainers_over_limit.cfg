\* One LRU container of three keys against its documented limit.
SPECIFICATION Spec
CONSTANTS
  Kinds = {"lru"}
  Objs = {o1}
  Keys = {k1, k2, k3}
  Vals = {v1}
  Limits = {0, 2}
  NoLimit = NoLimit
  Expires = {}
  NoExpire = NoExpire
  MinBuckets = 1
  MaxNow = 0
  SeqKeys = {s1}
  MaxEntries = 1
  Few = 3
INVARIANTS KeepsLimit
CHECK_DEADLOCK FALSE
