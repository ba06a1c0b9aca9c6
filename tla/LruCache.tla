------------------------------ MODULE LruCache ------------------------------
(***************************************************************************)
(* acqua::container::detail::lru_cache_facade and the four containers made *)
(* of it: lru_map, lru_set, timed_lru_map and timed_lru_set.  A node hangs *)
(* in an intrusive list, the newest first, and in an intrusive hash set;   *)
(* when the container is over its limit, push() reuses the oldest node     *)
(* under a new key.  The hash set is a function from the key under which a *)
(* node was inserted to the node, so that a node whose key changes while   *)
(* it is still in the set is not found any more.  A set is a map whose     *)
(* values do not matter.                                                   *)
(***************************************************************************)
EXTENDS Integers, FiniteSets, SequencesExt

CONSTANTS Kinds,       \* which containers: "lru", "timed_map", "timed_set"
          Objs,        \* the container objects
          Keys, Vals,
          Limits,      \* the arguments of max_size()
          NoLimit,     \* the default of max_size_, the largest size_type
          Expires,     \* the arguments of expire()
          NoExpire,    \* the default of min_expire_, duration::max()
          MinBuckets,  \* min_bucket_size
          MaxNow       \* bound on the clock

ASSUME LruAssumption ==
  /\ Kinds \subseteq {"lru", "timed_map", "timed_set"}
  /\ IsFiniteSet(Keys)
  /\ Limits \subseteq Nat /\ NoLimit \notin Nat
  /\ Expires \subseteq Nat /\ NoExpire \notin Nat
  /\ MinBuckets \in Nat \ {0}
  /\ MaxNow \in Nat

\* A node is a number; an object never holds more nodes than there are keys.
Nodes == 1..(Cardinality(Keys) + 1)

VARIABLES
  kind,   \* the containers' type: lru_map and lru_set, or one of the timed ones
  cache,  \* per object: a record like EmptyCache
  now     \* Clock::now(); the untimed containers never read it

lruVars == <<kind, cache, now>>

NodeVal == [key : Keys, val : Vals, stamp : 0..MaxNow]

\* list: list_, a sequence of nodes; hash: hash_; node: what the nodes hold that
\* new_node() has made and del_node() has not destroyed.
EmptyCache == [list |-> <<>>, hash |-> <<>>, node |-> <<>>,
               buckets |-> MinBuckets, max_size |-> NoLimit,
               min_expire |-> NoExpire]

LruTypeOK ==
  /\ kind \in Kinds
  /\ now \in 0..MaxNow
  /\ \A o \in Objs : LET c == cache[o] IN
       /\ DOMAIN c.node \subseteq Nodes /\ Range(c.node) \subseteq NodeVal
       /\ ToSet(c.list) \subseteq DOMAIN c.node
       /\ DOMAIN c.hash \subseteq Keys /\ Range(c.hash) \subseteq DOMAIN c.node
       /\ c.buckets \in Nat
       /\ c.max_size \in Limits \cup {NoLimit}
       /\ c.min_expire \in Expires \cup {NoExpire}

LruInit == kind \in Kinds /\ cache = [o \in Objs |-> EmptyCache] /\ now = 0

-----------------------------------------------------------------------------
(***************************************************************************)
(* The operations on one container.  overflow is what the comparison in    *)
(* is_limits() of timed_lru_map yields while min_expire_ is still          *)
(* duration::max(), when now() + min_expire_ is a signed overflow.         *)
(***************************************************************************)
Size(c) == Len(c.list)

\* f with x mapped to y, and f without the keys that lead to node n.
With(f, x, y)  == [z \in DOMAIN f \cup {x} |-> IF z = x THEN y ELSE f[z]]
Without(f, n)  == Restrict(f, {k \in DOMAIN f : f[k] # n})

\* Mutant: one entry more is tolerated.
MutOverLimit(c) == c.max_size # NoLimit /\ Size(c) > c.max_size + 1

\* is_limits() of lru_map and lru_set, and what the timed ones add to it.
OverLimit(c) == c.max_size # NoLimit /\ Size(c) > c.max_size
Oldest(c) == c.node[Last(c.list)]
TimedSetLimits(c) == OverLimit(c) /\ Oldest(c).stamp < now
TimedMapLimits(c, overflow) ==
  OverLimit(c) /\ IF c.min_expire = NoExpire THEN overflow
                  ELSE Oldest(c).stamp < now + c.min_expire

IsLimits(c, overflow) ==
  \/ kind = "lru" /\ OverLimit(c)
  \/ kind = "timed_set" /\ TimedSetLimits(c)
  \/ kind = "timed_map" /\ TimedMapLimits(c, overflow)

\* The constructors of node_base and replace(): the timed containers stamp an
\* entry with the time of the call.
LruNode(k, v)   == [key |-> k, val |-> v, stamp |-> 0]
TimedNode(k, v) == [key |-> k, val |-> v, stamp |-> now]
NodeOf(k, v)    == IF kind = "lru" THEN LruNode(k, v) ELSE TimedNode(k, v)

\* rehash(size), and auto_rehash() which decides on it.
Rehash(c, size) == [c EXCEPT !.buckets = size]
AutoRehash(c) ==
  IF Size(c) > c.buckets THEN Rehash(c, c.buckets * 2)
  ELSE IF Size(c) > MinBuckets /\ Size(c) < c.buckets \div 2 THEN Rehash(c, c.buckets \div 2)
  ELSE c

\* Where a node that is in the list stands in it.
PositionOf(c, n) == CHOOSE i \in DOMAIN c.list : c.list[i] = n

\* Mutant: the node stays where it is.
MutUpdate(c, e) == [c EXCEPT !.node = With(@, c.hash[e.key], e)]

\* push(), first case: the node of the key gets the new value and moves to the
\* front.
Update(c, e) ==
  LET n == c.hash[e.key] IN
  [c EXCEPT !.list = <<n>> \o RemoveAt(@, PositionOf(c, n)), !.node = With(@, n, e)]

\* Second case: the oldest node is taken out of both structures, given the new
\* key and value, and put back.
Reuse(c, e) ==
  LET n == Last(c.list) IN
  [c EXCEPT !.list = <<n>> \o Front(@),
            !.hash = With(Without(@, n), e.key, n),
            !.node = With(@, n, e)]

\* new_node() and del_node(): a node that is not in use; a node destroyed.
NewNode(c) == CHOOSE n \in Nodes : n \notin DOMAIN c.node
DelNodes(c, gone) == [c EXCEPT !.node = Restrict(@, DOMAIN @ \ gone)]

\* Mutant: a new node goes to the end of the list.
MutGrow(c, e) ==
  LET n == NewNode(c) IN
  AutoRehash([c EXCEPT !.list = @ \o <<n>>,
                       !.hash = With(@, e.key, n),
                       !.node = With(@, n, e)])

\* Third case: a new node.
Grow(c, e) ==
  LET n == NewNode(c) IN
  AutoRehash([c EXCEPT !.list = <<n>> \o @,
                       !.hash = With(@, e.key, n),
                       !.node = With(@, n, e)])

\* push()
PushEntry(c, e, overflow) ==
  IF e.key \in DOMAIN c.hash THEN Update(c, e)
  ELSE IF c.list # <<>> /\ IsLimits(c, overflow) THEN Reuse(c, e)
  ELSE Grow(c, e)

\* Mutant: the last node of the range stays in the list.
MutErasePositions(c, i, j) ==
  LET gone == {c.list[k] : k \in i..(j - 1)} IN
  DelNodes([c EXCEPT
    !.list = SubSeq(@, 1, i - 1) \o SubSeq(@, IF i < j THEN j - 1 ELSE j, Len(@)),
    !.hash = Restrict(@, {k \in DOMAIN @ : @[k] \notin gone})], gone)

\* erase(beg, end): the nodes at positions i to j - 1 leave the list and the
\* hash set and are destroyed.
ErasePositions(c, i, j) ==
  LET gone == {c.list[k] : k \in i..(j - 1)} IN
  DelNodes([c EXCEPT
    !.list = SubSeq(@, 1, i - 1) \o SubSeq(@, j, Len(@)),
    !.hash = Restrict(@, {k \in DOMAIN @ : @[k] \notin gone})], gone)

\* find(): a position in the list, or that of end(); and clear().
Find(c, k) == IF k \in DOMAIN c.hash THEN PositionOf(c, c.hash[k]) ELSE Size(c) + 1
Clear(c) == ErasePositions(c, 1, Size(c) + 1)

\* shrink_to_fit(): the oldest node is erased while the container is not empty
\* and is_limits() holds.
ShrinkToFit(c, overflow) ==
  LET Cut(n) == ErasePositions(c, n + 1, Len(c.list) + 1)
      Stops(n) == n = 0 \/ ~IsLimits(Cut(n), overflow)
      n == CHOOSE n \in 0..Len(c.list) :
             Stops(n) /\ \A m \in (n + 1)..Len(c.list) : ~Stops(m)
  IN  AutoRehash(Cut(n))

\* What the iterators show from begin() to end().
Entries(c) == [i \in 1..Size(c) |->
                 [key |-> c.node[c.list[i]].key, val |-> c.node[c.list[i]].val]]

\* The loop of the copy constructor and of the assignment: every entry of src is
\* pushed, from the newest to the oldest.
PushAll(src, dst, overflow) ==
  LET es == Entries(src)
      Node(n) == NodeOf(es[n].key, es[n].val)
      pushed[n \in 0..Size(src)] ==
        IF n = 0 THEN dst ELSE PushEntry(pushed[n - 1], Node(n), overflow)
  IN  pushed[Size(src)]

-----------------------------------------------------------------------------
(***************************************************************************)
(* The operations of the containers.                                       *)
(***************************************************************************)
Overflows == IF kind = "timed_map" THEN BOOLEAN ELSE {FALSE}

Set(o, c) == cache' = [cache EXCEPT ![o] = c] /\ UNCHANGED <<kind, now>>

\* push(), insert(), emplace() and emplace_hint(), which differ in what they
\* return.
Push(o, k, v) ==
  \E b \in Overflows :
    Set(o, PushEntry(cache[o], NodeOf(k, v), b))

\* erase(it) and erase(beg, end); erase(key), which does nothing at end().
Erase(o, i, j) ==
  LET c == cache[o] IN
  /\ i \in 1..Size(c) /\ j \in i..(Size(c) + 1)
  /\ Set(o, ErasePositions(c, i, j))

EraseKey(o, k) ==
  LET c == cache[o]
      i == Find(c, k)
  IN  Set(o, IF i > Size(c) THEN c ELSE ErasePositions(c, i, i + 1))

\* max_size(size); that of timed_lru_set does not shrink.
MaxSize(o, m) ==
  /\ kind # "timed_set"
  /\ \E b \in Overflows : Set(o, ShrinkToFit([cache[o] EXCEPT !.max_size = m], b))
MaxSizeOnly(o, m) ==
  /\ kind = "timed_set"
  /\ Set(o, [cache[o] EXCEPT !.max_size = m])

\* expire(duration) of timed_lru_map.
Expire(o, d) ==
  /\ kind = "timed_map"
  /\ Set(o, ShrinkToFit([cache[o] EXCEPT !.min_expire = d], FALSE))

Shrink(o) == \E b \in Overflows : Set(o, ShrinkToFit(cache[o], b))

\* The copy constructor: a new object with as many buckets as the original and
\* default limits takes the place of o.
CopyConstruct(o, p) ==
  /\ o # p
  /\ \E b \in Overflows :
       Set(o, PushAll(cache[p], [EmptyCache EXCEPT !.buckets = cache[p].buckets], b))

\* operator=: limits and buckets of the target are kept, its entries are not.
CopyAssign(o, p) ==
  /\ o # p
  /\ \E b \in Overflows :
       Set(o, PushAll(cache[p], Clear(cache[o]), b))

Tick ==
  /\ kind # "lru" /\ now < MaxNow
  /\ now' = now + 1
  /\ UNCHANGED <<kind, cache>>

\* The objects of objs are used.
LruNext(objs) ==
  \/ Tick
  \/ \E o \in objs :
       \/ \E k \in Keys, v \in Vals : Push(o, k, v)
       \/ \E i, j \in 1..(Cardinality(Keys) + 1) : Erase(o, i, j)
       \/ \E k \in Keys : EraseKey(o, k)
       \/ \E m \in Limits : MaxSize(o, m) \/ MaxSizeOnly(o, m)
       \/ \E d \in Expires : Expire(o, d)
       \/ Shrink(o)
       \/ \E p \in objs : CopyConstruct(o, p) \/ CopyAssign(o, p)

CacheSpec == LruInit /\ [][LruNext(Objs)]_lruVars

-----------------------------------------------------------------------------
(***************************************************************************)
(* Properties.                                                             *)
(***************************************************************************)

\* The list, the hash set and the nodes describe the same entries: find(k)
\* leads to the node in the list that holds k, however nodes are reused, and no
\* node leaks or is destroyed while it is linked.
Coherent ==
  LruTypeOK /\ \A o \in Objs : LET c == cache[o] IN
    /\ IsInjective(c.list)
    /\ DOMAIN c.node = ToSet(c.list)
    /\ Range(c.hash) = ToSet(c.list)
    /\ \A k \in DOMAIN c.hash : c.node[c.hash[k]].key = k

\* The table never has more nodes than buckets, in spite of the steps of
\* auto_rehash() by a factor of two, and of push() that reuses a node and of
\* erase(), which do not call it; and the untimed containers hold at most one
\* entry more than max_size() (lru_cache_facade.ipp:82-90, 432-460, 507-513).
\* The documented bound, KeepsLimit, is one less and not kept.
FitsBuckets ==
  \A o \in Objs : /\ Size(cache[o]) <= cache[o].buckets
                  /\ cache[o].buckets >= MinBuckets
OneOverLimit ==
  \A o \in Objs : kind = "lru" /\ cache[o].max_size # NoLimit =>
                    Size(cache[o]) <= cache[o].max_size + 1
WithinBounds == FitsBuckets /\ OneOverLimit

\* What lru_map.hpp:19 says of lru_map and lru_set: the oldest entries are
\* deleted when there are more than a fixed number of them.  push() compares the
\* size with max_size_ before it inserts, so this is not kept.
KeepsLimit ==
  \A o \in Objs : kind = "lru" /\ cache[o].max_size # NoLimit =>
                    Size(cache[o]) <= cache[o].max_size

\* The oldest entry by position is the oldest by time, which is what lets
\* is_limits() look at the last node only.
StampsOrdered ==
  \A o \in Objs : LET c == cache[o] IN
    \A i, j \in 1..Size(c) :
      i < j => c.node[c.list[i]].stamp >= c.node[c.list[j]].stamp

\* The containers implement LruSpec.
Lru == INSTANCE LruSpec WITH
  recent <- [o \in Objs |-> Entries(cache[o])],
  limit <- [o \in Objs |-> cache[o].max_size],
  must_evict <- kind = "lru"

\* Every operation does to the entries what the specification says: push() puts
\* the entry first and evicts nothing but the oldest, erase() removes what it is
\* told, limits cut the oldest entries off.
ImplementsLru == Lru!Spec
=============================================================================
