------------------------------ MODULE LruSpec -------------------------------
(***************************************************************************)
(* What the LRU containers promise, without lists, hash tables and nodes:  *)
(* the entries in the order of their last push, the newest first.  Only    *)
(* the oldest entry is ever evicted to make room, and only above the       *)
(* limit.                                                                  *)
(***************************************************************************)
EXTENDS Integers, SequencesExt

CONSTANTS Objs,       \* the container objects
          Keys, Vals,
          Limits,     \* the arguments of max_size()
          NoLimit     \* the default of max_size_

VARIABLES recent,     \* per object: the entries, the newest first
          limit,      \* per object: max_size_
          must_evict  \* TRUE for lru_map and lru_set, which never wait to evict

vars == <<recent, limit, must_evict>>

KeysOf(s) == {s[i].key : i \in 1..Len(s)}

Init == /\ recent = [o \in Objs |-> <<>>]
        /\ limit = [o \in Objs |-> NoLimit]
        /\ must_evict \in BOOLEAN

Over(n, m) == m # NoLimit /\ n > m

\* The prefixes of s that eviction may leave when the limit is m: everything up
\* to the limit stays, and what is evicted is the oldest.
Kept(s, m) ==
  {SubSeq(s, 1, n) : n \in {n \in 0..Len(s) :
      \/ n = Len(s) /\ (~must_evict \/ ~Over(n, m))
      \/ n < Len(s) /\ m # NoLimit /\ n >= m /\ (must_evict => n = m)}}

Push(o, e) ==
  LET s == recent[o] IN
  /\ \/ \E i \in 1..Len(s) :
          /\ s[i].key = e.key
          /\ recent' = [recent EXCEPT ![o] = <<e>> \o RemoveAt(s, i)]
     \/ /\ e.key \notin KeysOf(s)
        /\ must_evict => ~Over(Len(s), limit[o])
        /\ recent' = [recent EXCEPT ![o] = <<e>> \o s]
     \/ /\ e.key \notin KeysOf(s)
        /\ Over(Len(s), limit[o]) /\ s # <<>>
        /\ recent' = [recent EXCEPT ![o] = <<e>> \o Front(s)]
  /\ UNCHANGED limit

EraseRange(o, i, j) ==
  /\ recent' = [recent EXCEPT ![o] = SubSeq(@, 1, i - 1) \o SubSeq(@, j, Len(@))]
  /\ UNCHANGED limit

SetLimit(o, m) ==
  /\ limit' = [limit EXCEPT ![o] = m]
  /\ \E s \in Kept(recent[o], m) : recent' = [recent EXCEPT ![o] = s]

Shrink(o) == SetLimit(o, limit[o])

\* A copy has the entries of the original in the opposite order of age, and the
\* default limit.
Copy(o, p) ==
  /\ recent' = [recent EXCEPT ![o] = Reverse(recent[p])]
  /\ limit' = [limit EXCEPT ![o] = NoLimit]

\* An assignment keeps its own limit, turns the order round and, above the
\* limit, keeps the oldest entries of the original: one more than the limit.
Assign(o, p) ==
  /\ UNCHANGED limit
  /\ LET r == Reverse(recent[p]) IN
     \E n \in 0..Len(r) :
       /\ n < Len(r) => limit[o] # NoLimit /\ n >= limit[o] + 1
       /\ must_evict /\ limit[o] # NoLimit => n <= limit[o] + 1
       /\ recent' = [recent EXCEPT ![o] = SubSeq(r, 1, n)]

Next == UNCHANGED must_evict /\
  \E o \in Objs :
    \/ \E k \in Keys, v \in Vals : Push(o, [key |-> k, val |-> v])
    \/ \E i \in 1..Len(recent[o]), j \in 1..(Len(recent[o]) + 1) :
         i <= j /\ EraseRange(o, i, j)
    \/ \E m \in Limits : SetLimit(o, m)
    \/ Shrink(o)
    \/ \E p \in Objs : Copy(o, p) \/ Assign(o, p)

Spec == Init /\ [][Next]_vars
=============================================================================
