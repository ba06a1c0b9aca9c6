\* Two LRU containers of each kind, copied to and fro, with enough keys for the
\* table to grow, to be over its limit and to shrink; a map and a multimap of
\* six insertions.
SPECIFICATION Spec
CONSTANTS
  Kinds = {"lru", "timed_map", "timed_set"}
  Objs = {o1, o2}
  Keys = {k1, k2, k3, k4, k5}
  Vals = {v1}
  Limits = {0, 2}
  NoLimit = NoLimit
  Expires = {0}
  NoExpire = NoExpire
  MinBuckets = 1
  MaxNow = 1
  SeqKeys = {s1, s2, s3}
  MaxEntries = 6
  Few = 3
SYMMETRY Symm
INVARIANTS Coherent WithinBounds StampsOrdered KeysTogether
PROPERTIES ImplementsLru
CHECK_DEADLOCK FALSE
