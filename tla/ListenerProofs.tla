--------------------------- MODULE ListenerProofs ---------------------------
(***************************************************************************)
(* The two listeners of kernel events, each by itself.                     *)
(*                                                                         *)
(* First inotify: files_ follows the kernel's watches, and what happened   *)
(* is reported in order and under its path, for every number of paths,     *)
(* descriptors and events, by the listener and by the service.             *)
(*                                                                         *)
(* Then netlink: what is reported is what was subscribed, once, for every  *)
(* choice of tags.                                                         *)
(***************************************************************************)
EXTENDS Inotify, Netlink, SequenceLemmas, FiniteSetTheorems

-----------------------------------------------------------------------------
(***************************************************************************)
(* inotify: the inductive invariant.                                       *)
(***************************************************************************)
Wds == 1..MaxWd
Kinds == {"modify", "move", "ignored"}
Event == [id : Nat, wd : Wds, kind : Kinds, cookie : Nat, was : Paths]
Calls == {"on_event", "on_delete", "on_modify", "on_moved", "on_disposed", "event"}
Notice == [id : Nat, kind : Kinds, path : Paths, was : Paths, old : BOOLEAN, calls : SUBSET Calls]

InotifyTypes ==
  /\ style \in {"listener", "service"}
  /\ lastWd \in 0..MaxWd /\ happened \in Nat
  /\ DOMAIN watches \subseteq 1..lastWd /\ watches \in [DOMAIN watches -> Paths]
  /\ DOMAIN files \subseteq Wds /\ files \in [DOMAIN files -> Paths]
  /\ kqueue \in Seq(Event) /\ buffer \in Seq(Event) /\ reported \in Seq(Notice)
  /\ IsFiniteSet(DOMAIN cookies) /\ cookies \in [DOMAIN cookies -> Notice]
  /\ adding = NoAdd \/ adding \in (1..lastWd) \X Paths
  /\ leftover \subseteq DOMAIN files

\* An event that the service has written back into the buffer.
Again(e) == e.kind = "move" /\ e.cookie = 0

\* A notice that was given of an event when its descriptor was left over.
Old(n) == \E r \in ToSet(reported) : r.id = n /\ r.old

Increasing(q) == \A i, j \in DOMAIN q : i < j => q[i].id < q[j].id
Before(q, r) == \A e \in ToSet(q), f \in ToSet(r) : e.id < f.id

\* The events of the open fd that have not been looked at.
Fresh == {e \in ToSet(kqueue) \cup ToSet(buffer) : ~Again(e) /\ e.id \notin stale}

\* They are in order, and come after all that was reported.  The buffer holds
\* either such events or those that were written back, whose notices have
\* been given once.
Untouched(q) == Increasing(q) /\ Before(reported, q) /\ \A e \in ToSet(q) : ~Again(e)
QueuesInv ==
  /\ Untouched(kqueue)
  /\ \/ Untouched(buffer) /\ Before(buffer, kqueue)
     \/ style = "service" /\ \A e \in ToSet(buffer) : Again(e) /\ e.id \in Ids(reported)

\* A descriptor means one path as long as the fd is open, and IN_IGNORED is the last of its events.
FreshInv ==
  \A e \in Fresh :
    /\ e.wd <= lastWd
    /\ e.wd \in DOMAIN watches => e.was = watches[e.wd] /\ e.kind # "ignored"
    /\ e.wd = adding[1] => e.was = adding[2]
    /\ e.wd \in DOMAIN files \ leftover => files[e.wd] = e.was
    /\ e.kind = "ignored" => \A f \in Fresh : f.wd = e.wd => f.id <= e.id

\* An event written back has a descriptor of its path, or one that is gone for good.
AgainInv ==
  \A e \in ToSet(buffer) : Again(e) /\ e.id \notin stale =>
    /\ e.wd \in DOMAIN files => files[e.wd] = e.was \/ Old(e.id)
    /\ e.wd \notin DOMAIN files => e.wd <= lastWd /\ e.wd # adding[1] /\ e.wd \notin DOMAIN watches

\* Only what is in the buffer can be of a closed fd.
StaleInv ==
  /\ stale \subseteq 1..happened
  /\ \A e \in ToSet(kqueue) : e.id \notin stale

CookieInv ==
  \A c \in DOMAIN cookies :
    /\ cookies[c].kind = "move" /\ cookies[c].id \in Ids(reported)
    /\ cookies[c].path = cookies[c].was \/ Old(cookies[c].id)

\* files_ and the kernel agree on what they both know, but for leftovers.
WatchInv ==
  /\ \A w \in DOMAIN files \ leftover :
       /\ w <= lastWd
       /\ w \in DOMAIN watches => files[w] = watches[w]
       /\ w = adding[1] => files[w] = adding[2]
  /\ adding[1] \in DOMAIN watches => watches[adding[1]] = adding[2]

\* What add() has got is a live watch, or its IN_IGNORED is still to come or has overtaken add().
AddInv == adding # NoAdd => adding[1] \in DOMAIN watches \/ Pending(adding[1]) \/ adding[1] \in unheard

\* The two halves of DeliveredInOrder.
Accounted == 1..happened = Ids(reported) \cup Ids(kqueue) \cup Ids(buffer) \cup dropped
InOrder ==
  \A i, j \in DOMAIN reported : i < j =>
    \/ reported[i].id < reported[j].id
    \/ style = "service" /\ reported[j].id \in Ids(SubSeq(reported, 1, j - 1))

InotifyInv ==
  /\ InotifyTypes /\ QueuesInv /\ FreshInv /\ AgainInv /\ StaleInv /\ CookieInv /\ WatchInv /\ AddInv
  /\ FilesFollowKernel /\ RightPath /\ Accounted /\ InOrder

-----------------------------------------------------------------------------
(***************************************************************************)
(* Maps and queues.                                                        *)
(***************************************************************************)
\* Erasing a key.
LEMMA WithoutKey ==
  ASSUME NEW f, NEW k
  PROVE  /\ DOMAIN Without(f, k) = DOMAIN f \ {k}
         /\ \A x \in DOMAIN f : x # k => Without(f, k)[x] = f[x]
BY DEF Without, Restrict

LEMMA WithoutType ==
  ASSUME NEW S, NEW f, NEW k, f \in [DOMAIN f -> S]
  PROVE  Without(f, k) \in [DOMAIN Without(f, k) -> S]
BY DEF Without, Restrict

\* emplace() of a key leaves one that is there as it is.
LEMMA Emplaced ==
  ASSUME NEW f, NEW k, NEW v
  PROVE  /\ DOMAIN Emplace(f, k, v) = DOMAIN f \cup {k}
         /\ \A x \in DOMAIN f : Emplace(f, k, v)[x] = f[x]
         /\ k \notin DOMAIN f => Emplace(f, k, v)[k] = v
BY DEF Emplace

LEMMA EmplacedType ==
  ASSUME NEW S, NEW f, NEW k, NEW v \in S, f \in [DOMAIN f -> S]
  PROVE  Emplace(f, k, v) \in [DOMAIN Emplace(f, k, v) -> S]
BY DEF Emplace

\* The members of a queue.
LEMMA ToSetPlaces ==
  ASSUME NEW S, NEW q \in Seq(S)
  PROVE  /\ DOMAIN q = 1..Len(q) /\ Len(q) \in Nat
         /\ \A i \in 1..Len(q) : q[i] \in S /\ q[i] \in ToSet(q)
         /\ \A e \in ToSet(q) : e \in S /\ \E i \in 1..Len(q) : q[i] = e
<1>1. DOMAIN q = 1..Len(q) /\ Len(q) \in Nat
  OBVIOUS
<1> QED
  BY <1>1 DEF ToSet

LEMMA ConcatSet ==
  ASSUME NEW S, NEW q \in Seq(S), NEW r \in Seq(S)
  PROVE  ToSet(q \o r) = ToSet(q) \cup ToSet(r)
<1> DEFINE t == q \o r
<1>1. /\ t \in Seq(S) /\ Len(t) = Len(q) + Len(r)
      /\ \A i \in 1..Len(q) : t[i] = q[i]
      /\ \A i \in 1..Len(r) : t[Len(q) + i] = r[i]
  BY Concat
<1> HIDE DEF t
<1>2. Len(q) \in Nat /\ Len(r) \in Nat
  OBVIOUS
<1>3. ASSUME NEW e \in ToSet(t) PROVE e \in ToSet(q) \cup ToSet(r)
  <2>0. t \in Seq(S)
    BY <1>1
  <2>1. PICK i \in 1..Len(t) : t[i] = e
    BY ONLY <2>0, e \in ToSet(t), ToSetPlaces
  <2>2. CASE i <= Len(q)
    BY <1>1, <1>2, <2>1, <2>2, ToSetPlaces
  <2>3. CASE i > Len(q)
    <3>1. i - Len(q) \in 1..Len(r) /\ Len(q) + (i - Len(q)) = i
      BY <1>1, <1>2, <2>3
    <3>2. t[i] = r[i - Len(q)]
      BY <1>1, <3>1
    <3> QED
      BY <2>1, <3>1, <3>2, ToSetPlaces
  <2> QED
    BY <1>1, <1>2, <2>2, <2>3
<1>4. ASSUME NEW i \in 1..Len(q) PROVE q[i] \in ToSet(t)
  <2>1. i \in 1..Len(t) /\ t[i] = q[i]
    BY <1>1, <1>2
  <2> QED
    BY <1>1, <2>1, ToSetPlaces
<1>5. ASSUME NEW i \in 1..Len(r) PROVE r[i] \in ToSet(t)
  <2>1. Len(q) + i \in 1..Len(t) /\ t[Len(q) + i] = r[i]
    BY <1>1, <1>2
  <2> QED
    BY <1>1, <2>1, ToSetPlaces
<1>6. ASSUME NEW e \in ToSet(q) \cup ToSet(r) PROVE e \in ToSet(t)
  BY <1>4, <1>5, ToSetPlaces
<1>7. ToSet(t) = ToSet(q) \cup ToSet(r)
  BY <1>3, <1>6
<1> QED
  BY <1>7 DEF t

\* Cutting a queue in two.
LEMMA CutSet ==
  ASSUME NEW S, NEW q \in Seq(S), NEW k \in 0..Len(q)
  PROVE  /\ SubSeq(q, 1, k) \in Seq(S) /\ SubSeq(q, k + 1, Len(q)) \in Seq(S)
         /\ Len(SubSeq(q, 1, k)) = k /\ Len(SubSeq(q, k + 1, Len(q))) = Len(q) - k
         /\ \A i \in 1..k : SubSeq(q, 1, k)[i] = q[i]
         /\ \A i \in 1..(Len(q) - k) : SubSeq(q, k + 1, Len(q))[i] = q[k + i]
         /\ ToSet(q) = ToSet(SubSeq(q, 1, k)) \cup ToSet(SubSeq(q, k + 1, Len(q)))
<1> DEFINE u == SubSeq(q, 1, k)
           v == SubSeq(q, k + 1, Len(q))
<1>1. u \in Seq(S) /\ v \in Seq(S) /\ u \o v = q /\ Len(u) = k /\ Len(v) = Len(q) - k
      /\ \A i \in 1..k : u[i] = q[i]
  BY CutTwo
<1>2. \A i \in 1..(Len(q) - k) : v[i] = q[k + i]
  BY CutTwo
<1> HIDE DEF u, v
<1>3. ToSet(u \o v) = ToSet(u) \cup ToSet(v)
  <2>1. u \in Seq(S) /\ v \in Seq(S)
    BY <1>1
  <2> QED
    BY ONLY <2>1, ConcatSet
<1> QED
  BY <1>1, <1>2, <1>3 DEF u, v

\* Events in order, cut and put together.
LEMMA IncreasingCut ==
  ASSUME NEW q \in Seq(Event), NEW k \in 0..Len(q), Increasing(q)
  PROVE  /\ Increasing(SubSeq(q, 1, k)) /\ Increasing(SubSeq(q, k + 1, Len(q)))
         /\ Before(SubSeq(q, 1, k), SubSeq(q, k + 1, Len(q)))
<1> DEFINE u == SubSeq(q, 1, k)
           v == SubSeq(q, k + 1, Len(q))
<1>1. /\ u \in Seq(Event) /\ v \in Seq(Event) /\ Len(u) = k /\ Len(v) = Len(q) - k
      /\ \A i \in 1..k : u[i] = q[i]
      /\ \A i \in 1..(Len(q) - k) : v[i] = q[k + i]
  BY CutSet
<1> HIDE DEF u, v
<1>2. /\ DOMAIN q = 1..Len(q) /\ Len(q) \in Nat /\ k \in Nat /\ k <= Len(q)
      /\ DOMAIN u = 1..k /\ DOMAIN v = 1..(Len(q) - k)
  BY <1>1
<1>3. \A i, j \in 1..Len(q) : i < j => q[i].id < q[j].id
  BY <1>2 DEF Increasing
<1>4. Increasing(u)
  BY <1>1, <1>2, <1>3 DEF Increasing
<1>5. Increasing(v)
  <2>1. SUFFICES ASSUME NEW i \in 1..(Len(q) - k), NEW j \in 1..(Len(q) - k), i < j
                 PROVE  v[i].id < v[j].id
    BY <1>2 DEF Increasing
  <2>2. k + i \in 1..Len(q) /\ k + j \in 1..Len(q) /\ k + i < k + j
    BY <1>2, <2>1
  <2> QED
    BY <1>1, <1>3, <2>2
<1>6. Before(u, v)
  <2>1. SUFFICES ASSUME NEW e \in ToSet(u), NEW f \in ToSet(v)
                 PROVE  e.id < f.id
    BY DEF Before
  <2>2. PICK i \in 1..k : u[i] = e
    BY <1>1, ToSetPlaces
  <2>30. PICK j \in 1..Len(v) : v[j] = f
    BY <1>1, ToSetPlaces
  <2>3. j \in 1..(Len(q) - k) /\ v[j] = f
    BY <1>1, <2>30
  <2>4. i \in 1..Len(q) /\ k + j \in 1..Len(q) /\ i < k + j
    BY <1>2
  <2> QED
    BY <1>1, <1>3, <2>2, <2>3, <2>4
<1> QED
  BY <1>4, <1>5, <1>6 DEF u, v

LEMMA IncreasingConcat ==
  ASSUME NEW q \in Seq(Event), NEW r \in Seq(Event), Increasing(q), Increasing(r), Before(q, r)
  PROVE  Increasing(q \o r)
<1> DEFINE t == q \o r
<1>1. /\ t \in Seq(Event) /\ Len(t) = Len(q) + Len(r)
      /\ \A i \in 1..Len(q) : t[i] = q[i]
      /\ \A i \in 1..Len(r) : t[Len(q) + i] = r[i]
  BY Concat
<1> HIDE DEF t
<1>2. /\ Len(q) \in Nat /\ Len(r) \in Nat
      /\ DOMAIN q = 1..Len(q) /\ DOMAIN r = 1..Len(r) /\ DOMAIN t = 1..(Len(q) + Len(r))
  BY <1>1
<1>3. ASSUME NEW i \in 1..(Len(q) + Len(r)), NEW j \in 1..(Len(q) + Len(r)), i < j
      PROVE  t[i].id < t[j].id
  <2>1. CASE j <= Len(q)
    <3>1. i \in 1..Len(q) /\ j \in 1..Len(q)
      BY <1>2, <1>3, <2>1
    <3> QED
      BY <1>1, <1>2, <1>3, <3>1 DEF Increasing
  <2>2. CASE i > Len(q)
    <3>1. /\ i - Len(q) \in 1..Len(r) /\ j - Len(q) \in 1..Len(r) /\ i - Len(q) < j - Len(q)
          /\ Len(q) + (i - Len(q)) = i /\ Len(q) + (j - Len(q)) = j
      BY <1>2, <1>3, <2>2
    <3>2. t[i] = r[i - Len(q)] /\ t[j] = r[j - Len(q)]
      BY <1>1, <3>1
    <3> QED
      BY <1>2, <3>1, <3>2 DEF Increasing
  <2>3. CASE i <= Len(q) /\ j > Len(q)
    <3>1. i \in 1..Len(q) /\ j - Len(q) \in 1..Len(r) /\ Len(q) + (j - Len(q)) = j
      BY <1>2, <2>3
    <3>2. t[i] = q[i] /\ t[j] = r[j - Len(q)]
      BY <1>1, <3>1
    <3>3. t[i] \in ToSet(q) /\ t[j] \in ToSet(r)
      BY <3>1, <3>2, ToSetPlaces
    <3> QED
      BY <3>3 DEF Before
  <2> QED
    BY <1>2, <2>1, <2>2, <2>3
<1>4. Increasing(t)
  BY <1>2, <1>3 DEF Increasing
<1> QED
  BY <1>4 DEF t

\* The ids of a queue are those of its members.
LEMMA IdsOf ==
  ASSUME NEW q
  PROVE  Ids(q) = {e.id : e \in ToSet(q)}
BY DEF Ids, ToSet

LEMMA PendingSet ==
  ASSUME NEW w
  PROVE  Pending(w) <=> \E e \in ToSet(kqueue) \cup ToSet(buffer) : e.wd = w /\ e.kind = "ignored" /\ e.id \notin stale
BY DEF Pending, ToSet

LEMMA EmptySet ==
  ToSet(<<>>) = {} /\ Ids(<<>>) = {} /\ Increasing(<<>>) /\ DOMAIN <<>> = {} /\ Len(<<>>) = 0
BY DEF ToSet, Ids, Increasing

-----------------------------------------------------------------------------
(***************************************************************************)
(* The steps that read nothing.                                            *)
(***************************************************************************)
LEMMA InotifyStart == ASSUME InotifyInit PROVE InotifyInv
<1> USE DEF InotifyInit
<1>1. InotifyTypes
  BY EmptySet, FS_EmptySet, InotifyAssumption DEF InotifyTypes
<1>2. QueuesInv /\ FreshInv /\ AgainInv /\ StaleInv /\ CookieInv
  BY EmptySet DEF QueuesInv, FreshInv, AgainInv, StaleInv, CookieInv, Untouched, Before, Fresh
<1>3. WatchInv /\ AddInv /\ FilesFollowKernel
  BY EmptySet DEF WatchInv, AddInv, FilesFollowKernel
<1>4. RightPath /\ Accounted /\ InOrder
  BY EmptySet DEF RightPath, Accounted, InOrder
<1> QED
  BY <1>1, <1>2, <1>3, <1>4 DEF InotifyInv

\* What the invariant is about.
Seen == <<style, watches, lastWd, kqueue, happened, files, buffer, cookies, adding, reported,
          leftover, unheard, dropped, stale, erased>>

LEMMA SeenKeeps ==
  ASSUME InotifyInv, UNCHANGED Seen
  PROVE  InotifyInv'
<1> USE DEF Seen, InotifyInv
<1>1. InotifyTypes'
  BY DEF InotifyTypes
<1>2. QueuesInv'
  BY DEF QueuesInv, Untouched, Before, Increasing, Again, Ids
<1>3. FreshInv'
  BY DEF FreshInv, Fresh, Again
<1>4. AgainInv' /\ StaleInv'
  BY DEF AgainInv, StaleInv, Again, Old
<1>5. CookieInv' /\ WatchInv'
  BY DEF CookieInv, Old, WatchInv, Ids
<1>6. AddInv' /\ FilesFollowKernel'
  BY DEF AddInv, Pending, FilesFollowKernel
<1>7. RightPath'
  BY DEF RightPath
<1>8. Accounted'
  BY DEF Accounted
<1>9. InOrder'
  BY DEF InOrder
<1> QED
  BY <1>1, <1>2, <1>3, <1>4, <1>5, <1>6, <1>7, <1>8, <1>9

\* The notices stay, and with them what the invariant says of them alone.
LEMMA NoticesKeep ==
  ASSUME InotifyInv, UNCHANGED <<style, reported>>
  PROVE  RightPath' /\ InOrder' /\ Ids(reported)' = Ids(reported) /\ \A n : Old(n)' = Old(n)
<1>1. RightPath'
  BY DEF InotifyInv, RightPath
<1>2. InOrder'
  BY DEF InotifyInv, InOrder
<1>3. Ids(reported)' = Ids(reported)
  OBVIOUS
<1>4. \A n : Old(n)' = Old(n)
  BY DEF Old
<1> QED
  BY <1>1, <1>2, <1>3, <1>4

LEMMA OpenKeeps ==
  ASSUME InotifyInv, OpenAndRead
  PROVE  InotifyInv'
BY SeenKeeps DEF OpenAndRead, Seen, kernel

\* close(): all that files_ holds is left over, and all that the buffer holds is stale.
LEMMA CloseKeeps ==
  ASSUME InotifyInv, CloseFd
  PROVE  InotifyInv'
<1>1. /\ adding = NoAdd /\ watches' = <<>> /\ lastWd' = 0 /\ kqueue' = <<>>
      /\ leftover' = leftover \cup DOMAIN files /\ unheard' = {} /\ erased' = {}
      /\ dropped' = dropped \cup Ids(kqueue) /\ stale' = stale \cup Ids(buffer)
      /\ UNCHANGED <<style, happened, files, buffer, cookies, adding, reported>>
  BY DEF CloseFd
<1>2. InotifyTypes
  BY DEF InotifyInv
<1>3. leftover' = DOMAIN files
  BY <1>1, <1>2 DEF InotifyTypes
<1>4. InotifyTypes'
  BY <1>1, <1>2, <1>3, EmptySet, InotifyAssumption DEF InotifyTypes
<1>5. ToSet(kqueue') = {} /\ \A e \in ToSet(buffer') : e.id \in stale'
  BY <1>1, EmptySet, IdsOf
<1>6. QueuesInv'
  <2>1. Untouched(kqueue)' /\ Before(buffer', kqueue')
    BY <1>1, <1>5, EmptySet DEF Untouched, Before
  <2>2. Untouched(buffer)' = Untouched(buffer)
    BY <1>1 DEF Untouched, Before, Again
  <2>3. \/ Untouched(buffer)
        \/ style = "service" /\ \A e \in ToSet(buffer) : Again(e) /\ e.id \in Ids(reported)
    BY DEF InotifyInv, QueuesInv
  <2> QED
    BY <1>1, <2>1, <2>2, <2>3 DEF QueuesInv, Again, Before
<1>7. FreshInv' /\ AgainInv'
  <2>1. Fresh' = {}
    BY <1>5 DEF Fresh
  <2> QED
    BY <1>5, <2>1 DEF FreshInv, AgainInv
<1>8. StaleInv'
  <2>1. Ids(buffer) \subseteq 1..happened
    BY DEF InotifyInv, Accounted
  <2> QED
    BY <1>1, <1>5, <2>1 DEF InotifyInv, StaleInv
<1>9. CookieInv'
  BY <1>1, NoticesKeep DEF InotifyInv, CookieInv
<1>10. WatchInv' /\ AddInv' /\ FilesFollowKernel'
  BY <1>1, <1>3, EmptySet DEF WatchInv, AddInv, FilesFollowKernel
<1>11. Accounted'
  BY <1>1, EmptySet, NoticesKeep DEF InotifyInv, Accounted
<1> QED
  BY <1>1, <1>4, <1>6, <1>7, <1>8, <1>9, <1>10, <1>11, NoticesKeep DEF InotifyInv

\* add(): a descriptor that the kernel knows, or a new one.
LEMMA AddWatchKeeps ==
  ASSUME InotifyInv, NEW p \in Paths, AddWatch(p)
  PROVE  InotifyInv'
<1>1. /\ adding = NoAdd
      /\ UNCHANGED <<style, kqueue, happened, files, buffer, cookies, reported, leftover, unheard, dropped, stale, erased>>
  BY DEF AddWatch
<1>2. InotifyTypes /\ adding[1] = 0
  BY <1>1 DEF InotifyInv, NoAdd
<1>3. PICK w \in 1..lastWd' :
        /\ adding' = <<w, p>> /\ lastWd' \in 0..MaxWd /\ lastWd <= lastWd'
        /\ w \in DOMAIN watches' /\ watches'[w] = p
        /\ DOMAIN watches' = DOMAIN watches \cup {w} /\ watches' \in [DOMAIN watches' -> Paths]
        /\ \A v \in DOMAIN watches : watches'[v] = watches[v]
        /\ w \in DOMAIN watches \/ w = lastWd + 1
        /\ lastWd' \in {lastWd, w}
  <2>1. CASE p \in Range(watches)
    <3> DEFINE w == CHOOSE v \in DOMAIN watches : watches[v] = p
    <3>1. w \in DOMAIN watches /\ watches[w] = p
      BY <2>1 DEF Range
    <3>2. adding' = <<w, p>> /\ watches' = watches /\ lastWd' = lastWd
      BY <2>1 DEF AddWatch
    <3> HIDE DEF w
    <3>3. /\ DOMAIN watches = DOMAIN watches \cup {w} /\ watches \in [DOMAIN watches -> Paths]
          /\ w \in 1..lastWd /\ lastWd \in 0..MaxWd /\ lastWd <= lastWd
      <4>1. DOMAIN watches = DOMAIN watches \cup {w}
        BY <3>1
      <4>2. watches \in [DOMAIN watches -> Paths] /\ w \in 1..lastWd /\ lastWd \in 0..MaxWd
        BY <1>2, <3>1 DEF InotifyTypes
      <4>3. lastWd <= lastWd
        BY <4>2, InotifyAssumption
      <4> QED
        BY <4>1, <4>2, <4>3
    <3> QED
      BY <3>1, <3>2, <3>3
  <2>2. CASE p \notin Range(watches)
    <3>1. lastWd < MaxWd /\ lastWd' = lastWd + 1 /\ watches' = Emplace(watches, lastWd', p) /\ adding' = <<lastWd', p>>
      BY <2>2 DEF AddWatch
    <3>2. lastWd + 1 \notin DOMAIN watches
      BY <1>2 DEF InotifyTypes
    <3>3. watches' \in [DOMAIN watches' -> Paths]
      BY <1>2, <3>1, EmplacedType DEF InotifyTypes
    <3>40. lastWd' \notin DOMAIN watches
      BY <3>1, <3>2
    <3>4. /\ DOMAIN watches' = DOMAIN watches \cup {lastWd'}
          /\ \A v \in DOMAIN watches : watches'[v] = watches[v]
          /\ watches'[lastWd'] = p
      <4>1. watches' = Emplace(watches, lastWd', p)
        BY <3>1
      <4> QED
        BY ONLY <3>40, <4>1 DEF Emplace
    <3>5. lastWd' \in 1..lastWd' /\ lastWd' \in 0..MaxWd /\ lastWd <= lastWd'
      BY <1>2, <3>1, InotifyAssumption DEF InotifyTypes
    <3> QED
      BY <3>1, <3>3, <3>4, <3>5
  <2> QED
    BY <2>1, <2>2
<1>4. adding'[1] = w /\ adding'[2] = p /\ adding' # NoAdd
  BY <1>3 DEF NoAdd
<1>5. InotifyTypes'
  BY <1>1, <1>2, <1>3 DEF InotifyTypes
<1>6. Fresh' = Fresh /\ \A e \in Fresh : e.wd \in Wds /\ e.wd <= lastWd
  <2>1. Fresh' = Fresh
    BY <1>1 DEF Fresh, Again
  <2>2. \A e \in Fresh : e \in Event
    BY <1>2, ToSetPlaces DEF Fresh, InotifyTypes
  <2> QED
    BY <2>1, <2>2 DEF InotifyInv, FreshInv, Event
<1>7. lastWd \in Int /\ lastWd' \in Int /\ \A v \in DOMAIN files : v \in Int
  BY <1>2, <1>3 DEF InotifyTypes, Wds
<1>8. QueuesInv'
  BY <1>1, NoticesKeep DEF InotifyInv, QueuesInv, Untouched, Before
<1>9. FreshInv'
  <2>1. SUFFICES ASSUME NEW e \in Fresh
                 PROVE  /\ e.wd <= lastWd'
                        /\ e.wd \in DOMAIN watches' => e.was = watches'[e.wd] /\ e.kind # "ignored"
                        /\ e.wd = adding'[1] => e.was = adding'[2]
    BY <1>1, <1>6 DEF InotifyInv, FreshInv
  <2>2. e.wd <= lastWd /\ e.wd \in Int
    BY <1>6 DEF Wds
  <2>3. e.wd \in DOMAIN watches => e.was = watches[e.wd] /\ e.kind # "ignored"
    BY DEF InotifyInv, FreshInv
  <2>4. e.wd = w => w \in DOMAIN watches
    BY <1>3, <1>7, <2>2
  <2> QED
    BY <1>3, <1>4, <1>7, <2>2, <2>3, <2>4
<1>10. AgainInv'
  <2>1. SUFFICES ASSUME NEW e \in ToSet(buffer), Again(e), e.id \notin stale, e.wd \notin DOMAIN files
                 PROVE  e.wd <= lastWd' /\ e.wd # adding'[1] /\ e.wd \notin DOMAIN watches'
    BY <1>1, NoticesKeep DEF InotifyInv, AgainInv, Again
  <2>2. e.wd <= lastWd /\ e.wd \notin DOMAIN watches
    BY <2>1 DEF InotifyInv, AgainInv
  <2>3. e \in Event /\ e.wd \in Int
    <3>1. e \in Event
      BY <1>2, ToSetPlaces DEF InotifyTypes
    <3> QED
      BY <3>1 DEF Event, Wds
  <2>4. e.wd # w
    BY <1>3, <1>7, <2>2, <2>3
  <2> QED
    BY <1>3, <1>4, <1>7, <2>2, <2>3, <2>4
<1>11. CookieInv'
  BY <1>1, NoticesKeep DEF InotifyInv, CookieInv
<1>12. WatchInv'
  <2>1. \A v \in DOMAIN files \ leftover : v <= lastWd /\ (v \in DOMAIN watches => files[v] = watches[v])
    BY DEF InotifyInv, WatchInv
  <2>2. ASSUME NEW v \in DOMAIN files \ leftover
        PROVE  /\ v <= lastWd'
               /\ v \in DOMAIN watches' => files[v] = watches'[v]
               /\ v = adding'[1] => files[v] = adding'[2]
    <3>1. v = w => v \in DOMAIN watches
      BY <1>3, <1>7, <2>1
    <3> QED
      BY <1>3, <1>4, <1>7, <2>1, <3>1
  <2> QED
    BY <1>1, <1>3, <1>4, <2>2 DEF WatchInv
<1>13. AddInv'
  BY <1>3, <1>4 DEF AddInv
<1>14. FilesFollowKernel'
  <2>1. \A v : Pending(v)' = Pending(v)
    BY <1>1 DEF Pending
  <2>2. \A v \in DOMAIN watches : v \in DOMAIN files \/ v \in erased
    BY <1>2 DEF InotifyInv, FilesFollowKernel, InotifyTypes
  <2> QED
    BY <1>1, <1>3, <1>4, <2>1, <2>2 DEF InotifyInv, FilesFollowKernel
<1>15. Accounted' /\ StaleInv'
  BY <1>1, NoticesKeep DEF InotifyInv, Accounted, StaleInv, Ids
<1> QED
  BY <1>1, <1>5, <1>8, <1>9, <1>10, <1>11, <1>12, <1>13, <1>14, <1>15, NoticesKeep DEF InotifyInv

\* The second half of add(): the descriptor is entered, unless it is there.
LEMMA AddEmplaceKeeps ==
  ASSUME InotifyInv, AddEmplace
  PROVE  InotifyInv'
<1> DEFINE w == adding[1]
           p == adding[2]
<1>1. /\ adding # NoAdd /\ files' = Emplace(files, w, p) /\ adding' = NoAdd
      /\ erased' = erased \ {w}
      /\ UNCHANGED <<style, watches, lastWd, kqueue, happened, buffer, cookies, reported, leftover, unheard, dropped, stale>>
  BY DEF AddEmplace, kernel
<1>2. InotifyTypes
  BY DEF InotifyInv
<1>3. w \in 1..lastWd /\ p \in Paths /\ w \in Wds /\ lastWd \in Nat
  <2>1. adding \in (1..lastWd) \X Paths /\ lastWd \in 0..MaxWd
    BY <1>1, <1>2 DEF InotifyTypes
  <2>2. w \in 1..lastWd /\ p \in Paths
    BY <2>1
  <2> QED
    BY <2>1, <2>2, InotifyAssumption DEF Wds
<1>4. adding'[1] = 0
  BY <1>1 DEF NoAdd
<1>5. /\ DOMAIN files' = DOMAIN files \cup {w}
      /\ \A v \in DOMAIN files : files'[v] = files[v]
      /\ w \notin DOMAIN files => files'[w] = p
  <2> HIDE DEF w, p
  <2>1. files' = Emplace(files, w, p)
    BY <1>1
  <2> QED
    BY ONLY <2>1 DEF Emplace
<1>6. files' \in [DOMAIN files' -> Paths]
  <2>1. files \in [DOMAIN files -> Paths]
    BY <1>2 DEF InotifyTypes
  <2> HIDE DEF w, p
  <2> QED
    BY <1>1, <1>3, <2>1, EmplacedType
<1> HIDE DEF w, p
<1>7. leftover \subseteq DOMAIN files /\ w \notin DOMAIN files => w \notin leftover
  BY <1>2 DEF InotifyTypes
<1>8. InotifyTypes'
  BY <1>1, <1>2, <1>3, <1>5, <1>6 DEF InotifyTypes
<1>9. Fresh' = Fresh
  BY <1>1 DEF Fresh, Again
<1>10. QueuesInv'
  BY <1>1, NoticesKeep DEF InotifyInv, QueuesInv, Untouched, Before
<1>11. FreshInv'
  <2>1. SUFFICES ASSUME NEW e \in Fresh
                 PROVE  /\ e.wd # adding'[1]
                        /\ e.wd \in DOMAIN files' \ leftover => files'[e.wd] = e.was
    BY <1>1, <1>9 DEF InotifyInv, FreshInv
  <2>2. e \in Event /\ e.wd # 0
    <3>1. e \in Event
      BY <1>2, ToSetPlaces DEF InotifyTypes, Fresh
    <3> QED
      BY <3>1 DEF Event, Wds
  <2>3. /\ e.wd = w => e.was = p
        /\ e.wd \in DOMAIN files \ leftover => files[e.wd] = e.was
    BY DEF InotifyInv, FreshInv, w, p
  <2> QED
    BY <1>4, <1>5, <2>2, <2>3
<1>12. AgainInv'
  <2>1. SUFFICES ASSUME NEW e \in ToSet(buffer), Again(e), e.id \notin stale
                 PROVE  /\ e.wd \in DOMAIN files' => files'[e.wd] = e.was \/ Old(e.id)
                        /\ e.wd \notin DOMAIN files' => e.wd <= lastWd' /\ e.wd # adding'[1] /\ e.wd \notin DOMAIN watches
    BY <1>1, NoticesKeep DEF AgainInv, Again
  <2>2. /\ e.wd \in DOMAIN files => files[e.wd] = e.was \/ Old(e.id)
        /\ e.wd \notin DOMAIN files => e.wd <= lastWd /\ e.wd # w /\ e.wd \notin DOMAIN watches
    BY <2>1 DEF InotifyInv, AgainInv, w
  <2>3. e.wd # 0
    <3>1. e \in Event
      BY <1>2, ToSetPlaces DEF InotifyTypes
    <3> QED
      BY <3>1 DEF Event, Wds
  <2> QED
    BY <1>1, <1>4, <1>5, <2>2, <2>3
<1>13. CookieInv'
  BY <1>1, NoticesKeep DEF InotifyInv, CookieInv
<1>14. WatchInv'
  <2>1. \A v \in DOMAIN files \ leftover : v <= lastWd /\ (v \in DOMAIN watches => files[v] = watches[v])
    BY DEF InotifyInv, WatchInv
  <2>2. w \in DOMAIN watches => watches[w] = p
    BY DEF InotifyInv, WatchInv, w, p
  <2>3. w <= lastWd /\ 0 \notin DOMAIN watches /\ 0 \notin DOMAIN files'
    BY <1>2, <1>3, <1>5 DEF InotifyTypes, Wds
  <2> QED
    BY <1>1, <1>4, <1>5, <2>1, <2>2, <2>3 DEF WatchInv
<1>15. AddInv'
  BY <1>1 DEF AddInv
<1>16. FilesFollowKernel'
  <2>1. \A v : Pending(v)' = Pending(v)
    BY <1>1 DEF Pending
  <2>2. w \in DOMAIN watches \/ Pending(w) \/ w \in unheard
    BY <1>1 DEF InotifyInv, AddInv, w
  <2>3. \A v \in DOMAIN watches : v \in DOMAIN files \/ v = w \/ v \in erased
    BY DEF InotifyInv, FilesFollowKernel, w
  <2>4. \A v \in DOMAIN files : v \in DOMAIN watches \/ Pending(v) \/ v \in leftover \/ v \in unheard
    BY DEF InotifyInv, FilesFollowKernel
  <2> QED
    BY <1>1, <1>5, <2>1, <2>2, <2>3, <2>4 DEF FilesFollowKernel
<1>17. Accounted' /\ StaleInv'
  BY <1>1, NoticesKeep DEF InotifyInv, Accounted, StaleInv, Ids
<1> QED
  BY <1>1, <1>8, <1>10, <1>11, <1>12, <1>13, <1>14, <1>15, <1>16, <1>17, NoticesKeep DEF InotifyInv

\* A read moves events from the kernel's queue into the buffer.
LEMMA ReadEventsKeeps ==
  ASSUME InotifyInv, ReadEvents
  PROVE  InotifyInv'
<1> DEFINE k == IF Len(kqueue) < BufferSize THEN Len(kqueue) ELSE BufferSize
<1>1. /\ buffer = <<>> /\ buffer' = SubSeq(kqueue, 1, k) /\ kqueue' = SubSeq(kqueue, k + 1, Len(kqueue))
      /\ UNCHANGED <<style, watches, lastWd, happened, files, cookies, adding, reported, leftover, unheard, dropped, stale, erased>>
  BY DEF ReadEvents
<1>2. InotifyTypes
  BY DEF InotifyInv
<1>3. kqueue \in Seq(Event) /\ k \in 0..Len(kqueue)
  BY <1>2, InotifyAssumption DEF InotifyTypes
<1> HIDE DEF k
<1>4. /\ buffer' \in Seq(Event) /\ kqueue' \in Seq(Event)
      /\ ToSet(kqueue) = ToSet(buffer') \cup ToSet(kqueue')
  BY <1>1, <1>3, CutSet
<1>5. Untouched(kqueue)
  BY DEF InotifyInv, QueuesInv
<1>6. Increasing(buffer') /\ Increasing(kqueue') /\ Before(buffer', kqueue')
  BY <1>1, <1>3, <1>5, IncreasingCut DEF Untouched
<1>7. /\ ToSet(kqueue') \cup ToSet(buffer') = ToSet(kqueue) \cup ToSet(buffer)
      /\ \A e \in ToSet(buffer') : ~Again(e)
  BY <1>1, <1>4, <1>5, EmptySet DEF Untouched
<1>8. Fresh' = Fresh
  BY <1>1, <1>7 DEF Fresh, Again
<1>9. InotifyTypes'
  BY <1>1, <1>2, <1>4 DEF InotifyTypes
<1>10. QueuesInv'
  <2>1. Before(reported', buffer') /\ Before(reported', kqueue')
    BY <1>1, <1>4, <1>5 DEF Untouched, Before
  <2>2. \A e \in ToSet(kqueue') : ~Again(e)
    BY <1>4, <1>5 DEF Untouched
  <2> QED
    BY <1>6, <1>7, <2>1, <2>2 DEF QueuesInv, Untouched, Again, Before, Increasing
<1>11. FreshInv'
  BY <1>1, <1>8 DEF InotifyInv, FreshInv
<1>12. AgainInv'
  BY <1>7 DEF AgainInv, Again
<1>13. CookieInv' /\ WatchInv' /\ StaleInv'
  BY <1>1, <1>4, NoticesKeep DEF InotifyInv, CookieInv, WatchInv, StaleInv
<1>14. \A v : Pending(v)' = Pending(v)
  <2>1. TAKE v
  <2>2. Pending(v) <=> \E e \in ToSet(kqueue) \cup ToSet(buffer) : e.wd = v /\ e.kind = "ignored" /\ e.id \notin stale
    BY PendingSet
  <2>3. Pending(v)' <=> \E e \in ToSet(kqueue') \cup ToSet(buffer') : e.wd = v /\ e.kind = "ignored" /\ e.id \notin stale
    BY <1>1 DEF Pending, ToSet
  <2> QED
    BY <1>7, <2>2, <2>3 DEF Pending
<1>15. AddInv' /\ FilesFollowKernel'
  BY <1>1, <1>14 DEF InotifyInv, AddInv, FilesFollowKernel
<1>16. Accounted'
  <2>1. Ids(kqueue) = Ids(buffer') \cup Ids(kqueue')
    BY <1>4, IdsOf
  <2> QED
    BY <1>1, <2>1, EmptySet, NoticesKeep DEF InotifyInv, Accounted
<1> QED
  BY <1>1, <1>9, <1>10, <1>11, <1>12, <1>13, <1>15, <1>16, NoticesKeep DEF InotifyInv


-----------------------------------------------------------------------------
(***************************************************************************)
(* What the kernel queues.                                                 *)
(***************************************************************************)
\* No event is younger than the last one.
LEMMA HappenedLast ==
  ASSUME InotifyInv
  PROVE  /\ happened \in Nat
         /\ \A e \in ToSet(kqueue) \cup ToSet(buffer) \cup ToSet(reported) : e.id \in 1..happened
<1>1. happened \in Nat
  BY DEF InotifyInv, InotifyTypes
<1>2. ASSUME NEW e \in ToSet(kqueue) \cup ToSet(buffer) \cup ToSet(reported) PROVE e.id \in 1..happened
  <2>1. e.id \in Ids(kqueue) \cup Ids(buffer) \cup Ids(reported)
    BY IdsOf
  <2> QED
    BY <2>1 DEF InotifyInv, Accounted
<1> QED
  BY <1>1, <1>2

\* Events are appended to the queue; the watches in "gone" end, with IN_IGNORED.
LEMMA QueueGrows ==
  ASSUME InotifyInv, NEW new \in Seq(Event), NEW gone,
         kqueue' = kqueue \o new, happened' = happened + Len(new),
         \A i \in 1..Len(new) : /\ new[i].id = happened + i /\ ~Again(new[i])
                                /\ new[i].wd \in DOMAIN watches /\ new[i].was = watches[new[i].wd]
                                /\ new[i].kind = "ignored" => Len(new) = 1 /\ new[i].wd \in gone,
         \A w \in gone : \E i \in 1..Len(new) : new[i].wd = w /\ new[i].kind = "ignored",
         DOMAIN watches' = DOMAIN watches \ gone, watches' \in [DOMAIN watches' -> Paths],
         \A w \in DOMAIN watches' : watches'[w] = watches[w],
         DOMAIN files' \subseteq DOMAIN files, files' \in [DOMAIN files' -> Paths],
         \A w \in DOMAIN files' : files'[w] = files[w],
         \A w \in DOMAIN files \ DOMAIN files' : w \in gone /\ adding = NoAdd,
         leftover' = leftover \cap DOMAIN files',
         UNCHANGED <<style, lastWd, buffer, cookies, adding, reported, unheard, dropped, stale, erased>>
  PROVE  InotifyInv'
<1>1. /\ InotifyTypes /\ lastWd \in Nat /\ Len(new) \in Nat
      /\ kqueue \in Seq(Event) /\ buffer \in Seq(Event) /\ reported \in Seq(Notice)
  BY InotifyAssumption DEF InotifyInv, InotifyTypes
<1>2. /\ happened \in Nat
      /\ \A e \in ToSet(kqueue) \cup ToSet(buffer) \cup ToSet(reported) : e.id \in 1..happened
  BY HappenedLast
<1>3. kqueue' \in Seq(Event) /\ ToSet(kqueue') = ToSet(kqueue) \cup ToSet(new)
  <2>1. kqueue \o new \in Seq(Event)
    BY <1>1, Concat
  <2> QED
    BY <1>1, <2>1, ConcatSet
<1>4. ASSUME NEW e \in ToSet(new)
      PROVE  \E i \in 1..Len(new) :
               /\ e = new[i] /\ e.id = happened + i /\ e \in Event /\ ~Again(e)
               /\ e.wd \in DOMAIN watches /\ e.was = watches[e.wd]
               /\ e.kind = "ignored" => Len(new) = 1 /\ e.wd \in gone
  <2>1. PICK i \in 1..Len(new) : new[i] = e
    BY ToSetPlaces
  <2>2. e \in Event
    BY ToSetPlaces
  <2>3. WITNESS i \in 1..Len(new)
  <2> QED
    BY <2>1, <2>2
<1>5. ASSUME NEW e \in ToSet(new)
      PROVE  e.id \in Nat /\ e.id > happened
  BY <1>1, <1>2, <1>4
<1>6. DOMAIN watches \subseteq 1..lastWd /\ DOMAIN files \subseteq Wds
  BY <1>1 DEF InotifyTypes
<1>7. InotifyTypes'
  <2>1. happened' \in Nat
    BY <1>1, <1>2
  <2>2. DOMAIN watches' \subseteq 1..lastWd' /\ DOMAIN files' \subseteq Wds /\ leftover' \subseteq DOMAIN files'
    BY <1>6
  <2> QED
    BY <1>1, <1>3, <2>1, <2>2 DEF InotifyTypes
<1>8. QueuesInv'
  <2>1. Untouched(kqueue)
    BY DEF InotifyInv, QueuesInv
  <2>2. Increasing(new)
    <3>1. DOMAIN new = 1..Len(new)
      OBVIOUS
    <3> QED
      BY <1>1, <1>2, <3>1 DEF Increasing
  <2>3. Before(kqueue, new) /\ Before(buffer, new) /\ Before(reported, new)
    BY <1>2, <1>5 DEF Before
  <2>4. Increasing(kqueue \o new)
    BY <1>1, <2>1, <2>2, <2>3, IncreasingConcat DEF Untouched
  <2>5. \A e \in ToSet(kqueue') : ~Again(e)
    BY <1>3, <1>4, <2>1 DEF Untouched
  <2>6. Before(reported, kqueue')
    BY <1>3, <2>1, <2>3 DEF Untouched, Before
  <2>7. Before(buffer, kqueue) => Before(buffer, kqueue')
    BY <1>3, <2>3 DEF Before
  <2>8. Untouched(kqueue)'
    BY <2>4, <2>5, <2>6 DEF Untouched, Before, Again
  <2>9. \/ Untouched(buffer) /\ Before(buffer, kqueue')
        \/ style = "service" /\ \A e \in ToSet(buffer) : Again(e) /\ e.id \in Ids(reported)
    BY <2>7 DEF InotifyInv, QueuesInv
  <2>10. Untouched(buffer)' = Untouched(buffer)
    BY DEF Untouched, Before, Again
  <2> QED
    BY <2>8, <2>9, <2>10 DEF QueuesInv, Before, Again
<1>20. \A e \in ToSet(new) : e.id \notin stale
  BY <1>2, <1>5 DEF InotifyInv, StaleInv
<1>9. Fresh' = Fresh \cup ToSet(new)
  <2>1. \A e : Again(e)' = Again(e)
    BY DEF Again
  <2>2. Fresh' = {e \in ToSet(kqueue') \cup ToSet(buffer) : ~Again(e) /\ e.id \notin stale}
    BY <2>1 DEF Fresh
  <2> QED
    BY <1>3, <1>4, <1>20, <2>2 DEF Fresh
<1>10. \A e \in Fresh : e \in Event /\ e.id \in 1..happened
  BY <1>1, <1>2, ToSetPlaces DEF Fresh
<1>11. FreshInv'
  <2>1. ASSUME NEW e \in Fresh
        PROVE  /\ e.wd <= lastWd
               /\ e.wd \in DOMAIN watches' => e.was = watches'[e.wd] /\ e.kind # "ignored"
               /\ e.wd = adding[1] => e.was = adding[2]
               /\ e.wd \in DOMAIN files' \ leftover' => files'[e.wd] = e.was
               /\ e.kind = "ignored" => \A f \in Fresh \cup ToSet(new) : f.wd = e.wd => f.id <= e.id
    <3>1. /\ e.wd <= lastWd
          /\ e.wd \in DOMAIN watches => e.was = watches[e.wd] /\ e.kind # "ignored"
          /\ e.wd = adding[1] => e.was = adding[2]
          /\ e.wd \in DOMAIN files \ leftover => files[e.wd] = e.was
          /\ e.kind = "ignored" => \A f \in Fresh : f.wd = e.wd => f.id <= e.id
      BY DEF InotifyInv, FreshInv
    <3>2. e.kind = "ignored" => \A f \in ToSet(new) : f.wd # e.wd
      BY <1>4, <3>1
    <3> QED
      BY <3>1, <3>2
  <2>2. ASSUME NEW e \in ToSet(new)
        PROVE  /\ e.wd <= lastWd
               /\ e.wd \in DOMAIN watches' => e.was = watches'[e.wd] /\ e.kind # "ignored"
               /\ e.wd = adding[1] => e.was = adding[2]
               /\ e.wd \in DOMAIN files' \ leftover' => files'[e.wd] = e.was
               /\ e.kind = "ignored" => \A f \in Fresh \cup ToSet(new) : f.wd = e.wd => f.id <= e.id
    <3>1. PICK i \in 1..Len(new) :
               /\ e = new[i] /\ e.id = happened + i /\ e.wd \in DOMAIN watches /\ e.was = watches[e.wd]
               /\ e.kind = "ignored" => Len(new) = 1 /\ e.wd \in gone
      BY <1>4
    <3>2. e.wd <= lastWd
      BY <1>1, <1>6, <3>1
    <3>3. e.wd \in DOMAIN watches' => e.was = watches'[e.wd] /\ e.kind # "ignored"
      BY <3>1
    <3>4. e.wd = adding[1] => e.was = adding[2]
      BY <3>1 DEF InotifyInv, WatchInv
    <3>5. e.wd \in DOMAIN files' \ leftover' => files'[e.wd] = e.was
      BY <3>1 DEF InotifyInv, WatchInv
    <3>6. ASSUME e.kind = "ignored", NEW f \in Fresh \cup ToSet(new)
          PROVE  f.id <= e.id
      <4>1. CASE f \in Fresh
        BY <1>2, <1>5, <1>10, <4>1
      <4>2. CASE f \in ToSet(new)
        <5>1. PICK j \in 1..Len(new) : f = new[j] /\ f.id = happened + j
          BY <1>4, <4>2
        <5>20. Len(new) = 1
          BY <3>1, <3>6
        <5>2. i = 1 /\ j = 1
          BY <5>20
        <5> QED
          BY <1>2, <3>1, <5>1, <5>2
      <4> QED
        BY <4>1, <4>2
    <3> QED
      BY <3>2, <3>3, <3>4, <3>5, <3>6
  <2> QED
    BY <1>9, <2>1, <2>2 DEF FreshInv
<1>12. AgainInv'
  <2>1. SUFFICES ASSUME NEW e \in ToSet(buffer), Again(e), e.id \notin stale
                 PROVE  /\ e.wd \in DOMAIN files' => files'[e.wd] = e.was \/ Old(e.id)
                        /\ e.wd \notin DOMAIN files' => e.wd <= lastWd /\ e.wd # adding[1] /\ e.wd \notin DOMAIN watches'
    BY NoticesKeep DEF AgainInv, Again
  <2>2. /\ e.wd \in DOMAIN files => files[e.wd] = e.was \/ Old(e.id)
        /\ e.wd \notin DOMAIN files => e.wd <= lastWd /\ e.wd # adding[1] /\ e.wd \notin DOMAIN watches
    BY <2>1 DEF InotifyInv, AgainInv
  <2>3. ASSUME e.wd \in DOMAIN files \ DOMAIN files' PROVE e.wd <= lastWd /\ e.wd # adding[1] /\ e.wd \notin DOMAIN watches'
    <3>1. e.wd \in gone /\ adding = NoAdd
      BY <2>3
    <3>2. e.wd \in 1..lastWd
      BY <1>6, <3>1
    <3> QED
      BY <1>1, <3>1, <3>2 DEF NoAdd
  <2> QED
    BY <2>2, <2>3
<1>13. CookieInv'
  BY NoticesKeep DEF InotifyInv, CookieInv
<1>14. WatchInv'
  BY DEF InotifyInv, WatchInv
<1>15. \A w : Pending(w) => Pending(w)'
  <2>1. TAKE w
  <2>2. Pending(w)' <=> \E e \in ToSet(kqueue') \cup ToSet(buffer') : e.wd = w /\ e.kind = "ignored" /\ e.id \notin stale
    BY DEF Pending, ToSet
  <2> QED
    BY <1>3, <2>2, PendingSet
<1>16. \A w \in gone : Pending(w)'
  <2>1. TAKE w \in gone
  <2>2. Pending(w)' <=> \E e \in ToSet(kqueue') \cup ToSet(buffer') : e.wd = w /\ e.kind = "ignored" /\ e.id \notin stale
    BY DEF Pending, ToSet
  <2>3. \E e \in ToSet(new) : e.wd = w /\ e.kind = "ignored" /\ e.id \notin stale
    BY <1>20, ToSetPlaces
  <2> QED
    BY <1>3, <2>2, <2>3
<1>17. AddInv'
  BY <1>15, <1>16 DEF InotifyInv, AddInv
<1>18. FilesFollowKernel'
  <2>1. \A w \in DOMAIN watches : w \in DOMAIN files \/ w = adding[1] \/ w \in erased
    BY DEF InotifyInv, FilesFollowKernel
  <2>2. \A w \in DOMAIN files : w \in DOMAIN watches \/ Pending(w) \/ w \in leftover \/ w \in unheard
    BY DEF InotifyInv, FilesFollowKernel
  <2>3. \A w \in DOMAIN watches' : w \in DOMAIN files' \/ w = adding'[1] \/ w \in erased'
    BY <2>1
  <2>4. \A w \in DOMAIN files' : w \in DOMAIN watches' \/ Pending(w)' \/ w \in leftover' \/ w \in unheard'
    BY <1>15, <1>16, <2>2
  <2> QED
    BY <2>3, <2>4 DEF FilesFollowKernel
<1>19. Accounted'
  <2>1. Ids(kqueue') = Ids(kqueue) \cup Ids(new)
    BY <1>3, IdsOf
  <2>2. ASSUME NEW n \in Ids(new) PROVE n \in (happened + 1)..happened'
    <3>1. PICK e \in ToSet(new) : e.id = n
      BY IdsOf
    <3>2. PICK i \in 1..Len(new) : e.id = happened + i
      BY <1>4
    <3> QED
      BY <1>1, <1>2, <3>1, <3>2
  <2>3. ASSUME NEW n \in (happened + 1)..happened' PROVE n \in Ids(new)
    <3>1. n - happened \in 1..Len(new) /\ happened + (n - happened) = n
      BY <1>1, <1>2
    <3>2. DOMAIN new = 1..Len(new)
      OBVIOUS
    <3> QED
      BY <3>1, <3>2 DEF Ids
  <2>4. 1..happened' = 1..happened \cup (happened + 1)..happened'
    BY <1>1, <1>2
  <2>5. 1..happened = Ids(reported) \cup Ids(kqueue) \cup Ids(buffer) \cup dropped
    BY DEF InotifyInv, Accounted
  <2>6. Ids(new) = (happened + 1)..happened'
    BY <2>2, <2>3
  <2>7. 1..happened' = Ids(reported) \cup Ids(kqueue') \cup Ids(buffer) \cup dropped
    BY <2>1, <2>4, <2>5, <2>6
  <2> QED
    BY <2>7 DEF Accounted
<1>21. StaleInv'
  BY <1>1, <1>2, <1>3, <1>20 DEF InotifyInv, StaleInv
<1> QED
  BY <1>7, <1>8, <1>11, <1>12, <1>13, <1>14, <1>17, <1>18, <1>19, <1>21, NoticesKeep DEF InotifyInv

\* An event of the kernel as the queue holds it.
LEMMA QueuedEvent ==
  ASSUME InotifyInv, NEW w \in DOMAIN watches, NEW kind \in Kinds, NEW c \in Nat, NEW n \in Nat
  PROVE  /\ Queued(w, kind, c, n) \in Event
         /\ Queued(w, kind, c, n).id = n /\ Queued(w, kind, c, n).wd = w
         /\ Queued(w, kind, c, n).kind = kind /\ Queued(w, kind, c, n).cookie = c
         /\ Queued(w, kind, c, n).was = watches[w]
<1>1. watches[w] \in Paths /\ w \in Wds
  BY InotifyAssumption DEF InotifyInv, InotifyTypes, Wds
<1> QED
  BY <1>1 DEF Queued, Event

\* One event that ends no watch.
LEMMA OneQueued ==
  ASSUME InotifyInv, NEW w \in DOMAIN watches, NEW kind \in {"modify", "move"}, NEW c \in Nat,
         kind = "move" => c # 0,
         happened' = happened + 1,
         kqueue' = Append(kqueue, Queued(w, kind, c, happened + 1)),
         UNCHANGED <<style, watches, lastWd, files, buffer, cookies, adding, reported, leftover, unheard, dropped, stale, erased>>
  PROVE  InotifyInv'
<1> DEFINE e == Queued(w, kind, c, happened + 1)
<1>1. InotifyTypes /\ happened \in Nat /\ kqueue \in Seq(Event)
  BY DEF InotifyInv, InotifyTypes
<1>2. /\ e \in Event /\ e.id = happened + 1 /\ e.wd = w /\ e.kind = kind /\ e.cookie = c /\ e.was = watches[w]
  <2> DEFINE n == happened + 1
  <2>1. n \in Nat /\ kind \in Kinds
    BY <1>1 DEF Kinds
  <2> HIDE DEF n
  <2>2. /\ Queued(w, kind, c, n) \in Event
        /\ Queued(w, kind, c, n).id = n /\ Queued(w, kind, c, n).wd = w
        /\ Queued(w, kind, c, n).kind = kind /\ Queued(w, kind, c, n).cookie = c
        /\ Queued(w, kind, c, n).was = watches[w]
    BY ONLY InotifyInv, w \in DOMAIN watches, c \in Nat, <2>1, QueuedEvent
  <2> QED
    BY ONLY <2>2 DEF n
<1> HIDE DEF e
<1>3. /\ <<e>> \in Seq(Event) /\ Len(<<e>>) = 1 /\ \A i \in 1..1 : <<e>>[i] = e /\ i = 1
  BY <1>2
<1>4. kqueue' = kqueue \o <<e>>
  BY <1>1, <1>2 DEF e
<1>5. ~Again(e)
  BY <1>2 DEF Again
<1> DEFINE new == <<e>>
           gone == {}
<1>6. \A i \in 1..Len(new) : /\ new[i].id = happened + i /\ ~Again(new[i])
                             /\ new[i].wd \in DOMAIN watches /\ new[i].was = watches[new[i].wd]
                             /\ new[i].kind = "ignored" => Len(new) = 1 /\ new[i].wd \in gone
  BY <1>2, <1>3, <1>5
<1>7. /\ DOMAIN watches' = DOMAIN watches \ gone /\ watches' \in [DOMAIN watches' -> Paths]
      /\ files' \in [DOMAIN files' -> Paths] /\ leftover' = leftover \cap DOMAIN files'
      /\ \A v \in gone : \E i \in 1..Len(new) : new[i].wd = v /\ new[i].kind = "ignored"
  BY <1>1 DEF InotifyTypes
<1>8. new \in Seq(Event) /\ kqueue' = kqueue \o new /\ happened' = happened + Len(new)
  BY <1>3, <1>4
<1> HIDE DEF new, gone
<1> QED
  BY <1>6, <1>7, <1>8, QueueGrows

\* IN_IGNORED, and the end of its watch; the entry of files_ may go with it.
LEMMA IgnoredQueued ==
  ASSUME InotifyInv, NEW w \in DOMAIN watches,
         happened' = happened + 1,
         kqueue' = Append(kqueue, Queued(w, "ignored", 0, happened + 1)),
         watches' = Without(watches, w),
         \/ UNCHANGED <<files, leftover>>
         \/ files' = Without(files, w) /\ leftover' = leftover \ {w} /\ adding = NoAdd,
         UNCHANGED <<style, lastWd, buffer, cookies, adding, reported, unheard, dropped, stale, erased>>
  PROVE  InotifyInv'
<1> DEFINE e == Queued(w, "ignored", 0, happened + 1)
<1>1. InotifyTypes /\ happened \in Nat /\ kqueue \in Seq(Event)
  BY DEF InotifyInv, InotifyTypes
<1>2. /\ e \in Event /\ e.id = happened + 1 /\ e.wd = w /\ e.kind = "ignored" /\ e.was = watches[w]
  BY <1>1, QueuedEvent DEF Kinds
<1> HIDE DEF e
<1>3. /\ <<e>> \in Seq(Event) /\ Len(<<e>>) = 1 /\ \A i \in 1..1 : <<e>>[i] = e /\ i = 1
  BY <1>2
<1>4. kqueue' = kqueue \o <<e>>
  BY <1>1, <1>2 DEF e
<1>5. ~Again(e)
  BY <1>2 DEF Again
<1> DEFINE new == <<e>>
           gone == {w}
<1>6. \A i \in 1..Len(new) : /\ new[i].id = happened + i /\ ~Again(new[i])
                             /\ new[i].wd \in DOMAIN watches /\ new[i].was = watches[new[i].wd]
                             /\ new[i].kind = "ignored" => Len(new) = 1 /\ new[i].wd \in gone
  BY <1>2, <1>3, <1>5
<1>7. \A v \in gone : \E i \in 1..Len(new) : new[i].wd = v /\ new[i].kind = "ignored"
  BY <1>2, <1>3
<1>8. new \in Seq(Event) /\ kqueue' = kqueue \o new /\ happened' = happened + Len(new)
  BY <1>3, <1>4
<1> HIDE DEF new
<1>9. /\ DOMAIN watches' = DOMAIN watches \ gone /\ watches' \in [DOMAIN watches' -> Paths]
      /\ \A v \in DOMAIN watches' : watches'[v] = watches[v]
  <2>1. watches \in [DOMAIN watches -> Paths]
    BY <1>1 DEF InotifyTypes
  <2>2. Without(watches, w) \in [DOMAIN Without(watches, w) -> Paths]
    BY <2>1, WithoutType
  <2> QED
    BY <2>2, WithoutKey
<1>10. /\ DOMAIN files' \subseteq DOMAIN files /\ files' \in [DOMAIN files' -> Paths]
       /\ \A v \in DOMAIN files' : files'[v] = files[v]
       /\ \A v \in DOMAIN files \ DOMAIN files' : v \in gone /\ adding = NoAdd
       /\ leftover' = leftover \cap DOMAIN files'
  <2>1. files \in [DOMAIN files -> Paths] /\ leftover \subseteq DOMAIN files
    BY <1>1 DEF InotifyTypes
  <2>2. CASE UNCHANGED <<files, leftover>>
    BY <2>1, <2>2
  <2>3. CASE files' = Without(files, w) /\ leftover' = leftover \ {w} /\ adding = NoAdd
    <3>1. Without(files, w) \in [DOMAIN Without(files, w) -> Paths]
      BY <2>1, WithoutType
    <3>2. DOMAIN files' = DOMAIN files \ {w} /\ \A v \in DOMAIN files : v # w => files'[v] = files[v]
      BY <2>3, WithoutKey
    <3> QED
      BY <2>1, <2>3, <3>1, <3>2
  <2> QED
    BY <2>2, <2>3
<1> HIDE DEF gone
<1> QED
  BY <1>6, <1>7, <1>8, <1>9, <1>10, QueueGrows

LEMMA RemoveKeeps ==
  ASSUME InotifyInv, NEW p \in Paths, RemoveEntry(p)
  PROVE  InotifyInv'
<1>1. PICK w \in FirstOf(p) :
        /\ w \in DOMAIN watches /\ happened' = happened + 1
        /\ kqueue' = Append(kqueue, Queued(w, "ignored", 0, happened'))
        /\ watches' = Without(watches, w) /\ files' = Without(files, w) /\ leftover' = leftover \ {w}
  BY DEF RemoveEntry
<1>2. adding = NoAdd /\ UNCHANGED <<style, lastWd, buffer, cookies, adding, reported, unheard, dropped, stale, erased>>
  BY DEF RemoveEntry
<1>3. kqueue' = Append(kqueue, Queued(w, "ignored", 0, happened + 1))
  BY <1>1
<1> QED
  BY <1>1, <1>2, <1>3, IgnoredQueued

\* Two and three events at the end of a queue.
LEMMA TwoMore ==
  ASSUME NEW S, NEW s \in Seq(S), NEW a \in S, NEW c \in S
  PROVE  /\ Append(s \o <<a>> \o <<>>, c) = s \o <<a, c>> /\ <<a, c>> \in Seq(S) /\ Len(<<a, c>>) = 2
         /\ <<a, c>>[1] = a /\ <<a, c>>[2] = c
<1>1. s \o <<a>> \in Seq(S) /\ s \o <<a>> \o <<>> = s \o <<a>>
  OBVIOUS
<1>2. /\ <<a, c>> \in Seq(S) /\ Len(<<a, c>>) = 2 /\ <<a, c>>[1] = a /\ <<a, c>>[2] = c
  OBVIOUS
<1>3. Append(s \o <<a>>, c) = s \o <<a, c>>
  OBVIOUS
<1> QED
  BY <1>1, <1>2, <1>3

LEMMA ThreeMore ==
  ASSUME NEW S, NEW s \in Seq(S), NEW a \in S, NEW b \in S, NEW c \in S
  PROVE  /\ Append(s \o <<a>> \o <<b>>, c) = s \o <<a, b, c>> /\ <<a, b, c>> \in Seq(S) /\ Len(<<a, b, c>>) = 3
         /\ <<a, b, c>>[1] = a /\ <<a, b, c>>[2] = b /\ <<a, b, c>>[3] = c
<1>1. /\ <<a, b, c>> \in Seq(S) /\ Len(<<a, b, c>>) = 3
      /\ <<a, b, c>>[1] = a /\ <<a, b, c>>[2] = b /\ <<a, b, c>>[3] = c
  OBVIOUS
<1>2. s \o <<a>> \o <<b>> = s \o <<a, b>>
  <2>1. s \o <<a>> \in Seq(S) /\ (s \o <<a>>) \o <<b>> = Append(s \o <<a>>, b)
    OBVIOUS
  <2>2. s \o <<a>> \o <<>> = s \o <<a>>
    BY <2>1
  <2>3. Append(s \o <<a>> \o <<>>, b) = s \o <<a, b>>
    BY TwoMore
  <2> QED
    BY ONLY <2>1, <2>2, <2>3, Zenon
<1>3. Append(s \o <<a, b>>, c) = s \o <<a, b, c>>
  <2> DEFINE t == Append(s \o <<a, b>>, c)
             u == s \o <<a, b, c>>
  <2>1. Len(s) \in Nat
    OBVIOUS
  <2>2. /\ t \in Seq(S) /\ Len(t) = Len(s) + 3 /\ t[Len(s) + 1] = a /\ t[Len(s) + 2] = b /\ t[Len(s) + 3] = c
        /\ \A i \in 1..Len(s) : t[i] = s[i]
    OBVIOUS
  <2>3. /\ u \in Seq(S) /\ Len(u) = Len(s) + 3 /\ u[Len(s) + 1] = a /\ u[Len(s) + 2] = b /\ u[Len(s) + 3] = c
        /\ \A i \in 1..Len(s) : u[i] = s[i]
    OBVIOUS
  <2> HIDE DEF t, u
  <2>4. \A i \in 1..(Len(s) + 3) : i \in 1..Len(s) \/ i = Len(s) + 1 \/ i = Len(s) + 2 \/ i = Len(s) + 3
    BY <2>1
  <2>5. \A i \in 1..Len(t) : t[i] = u[i]
    BY <2>2, <2>3, <2>4
  <2>6. t = u
    BY <2>2, <2>3, <2>5, SameSeq
  <2> QED
    BY <2>6 DEF t, u
<1> QED
  BY <1>1, <1>2, <1>3

\* The two halves of a move, with or without an event between them.
LEMMA MoveQueued ==
  ASSUME InotifyInv, NEW w \in DOMAIN watches, NEW v \in DOMAIN watches,
         NEW between \in SUBSET DOMAIN watches, Cardinality(between) <= 1,
         happened' = happened + 1 + 1 + Cardinality(between),
         kqueue' = Append(kqueue \o <<Queued(w, "move", happened + 1, happened + 1)>>
                                \o [i \in 1..Cardinality(between) |->
                                      Queued(CHOOSE u \in between : TRUE, "modify", 0, happened + 1 + 1)],
                          Queued(v, "move", happened + 1, happened')),
         UNCHANGED <<style, watches, lastWd, files, buffer, cookies, adding, reported, leftover, unheard, dropped, stale, erased>>
  PROVE  InotifyInv'
<1> DEFINE n == happened + 1
           u == CHOOSE x \in between : TRUE
           a == Queued(w, "move", n, n)
           b == Queued(u, "modify", 0, n + 1)
           c == Queued(v, "move", n, happened')
           m == Cardinality(between)
           mid == [i \in 1..m |-> b]
           gone == {}
<1>1. InotifyTypes /\ happened \in Nat /\ kqueue \in Seq(Event) /\ n \in Nat /\ n # 0 /\ n + 1 \in Nat
  <2>1. InotifyTypes /\ happened \in Nat /\ kqueue \in Seq(Event)
    BY DEF InotifyInv, InotifyTypes
  <2> QED
    BY <2>1
<1>2. m \in {0, 1} /\ (m = 1 => u \in DOMAIN watches)
  <2>1. IsFiniteSet(DOMAIN watches)
    <3>1. DOMAIN watches \subseteq 1..lastWd /\ lastWd \in Nat
      BY <1>1, InotifyAssumption DEF InotifyTypes
    <3>2. IsFiniteSet(1..lastWd)
      BY <3>1, FS_Interval
    <3> QED
      BY <3>1, <3>2, FS_Subset
  <2>2. IsFiniteSet(between)
    BY <2>1, FS_Subset
  <2>3. m \in Nat
    BY <2>2, FS_CardinalityType
  <2>4. m = 1 => between # {}
    BY <2>2, FS_EmptySet
  <2> QED
    BY <2>3, <2>4
<1>3. happened' \in Nat /\ happened' = n + 1 + m
  BY <1>1, <1>2
<1>4. /\ a \in Event /\ a.id = n /\ a.wd = w /\ a.kind = "move" /\ a.cookie = n /\ a.was = watches[w]
  <2>1. n \in Nat /\ "move" \in Kinds
    BY <1>1 DEF Kinds
  <2> HIDE DEF n
  <2> QED
    BY ONLY InotifyInv, w \in DOMAIN watches, <2>1, QueuedEvent
<1>5. /\ c \in Event /\ c.id = happened' /\ c.wd = v /\ c.kind = "move" /\ c.cookie = n /\ c.was = watches[v]
  <2>1. happened' \in Nat /\ n \in Nat /\ "move" \in Kinds
    BY <1>1, <1>3 DEF Kinds
  <2> HIDE DEF n
  <2> QED
    BY ONLY InotifyInv, v \in DOMAIN watches, <2>1, QueuedEvent
<1>6. m = 1 => b \in Event /\ b.id = n + 1 /\ b.wd = u /\ b.kind = "modify" /\ b.was = watches[u]
  <2>1. n + 1 \in Nat /\ 0 \in Nat /\ "modify" \in Kinds
    BY <1>1 DEF Kinds
  <2> HIDE DEF n, u, m
  <2> QED
    BY <1>2, <2>1, QueuedEvent
<1>7. kqueue' = Append(kqueue \o <<a>> \o mid, c)
  OBVIOUS
<1>8. ~Again(a) /\ ~Again(c) /\ (m = 1 => ~Again(b))
  BY <1>1, <1>4, <1>5, <1>6 DEF Again
<1>9. happened' = happened + 2 + m /\ n = happened + 1 /\ n + 1 = happened + 2
  BY <1>1, <1>2
<1>10. u \in DOMAIN watches \/ m = 0
  BY <1>2
<1> HIDE DEF n, u, a, b, c
<1>11. \E new \in Seq(Event) :
         /\ kqueue' = kqueue \o new /\ Len(new) = 2 + m
         /\ \A i \in 1..Len(new) : /\ new[i].id = happened + i /\ ~Again(new[i])
                                   /\ new[i].wd \in DOMAIN watches /\ new[i].was = watches[new[i].wd]
                                   /\ new[i].kind # "ignored"
  <2>1. CASE m = 0
    <3> DEFINE new == <<a, c>>
    <3>1. mid = <<>>
      BY <2>1
    <3> HIDE DEF mid
    <3>2. kqueue' = kqueue \o new /\ new \in Seq(Event) /\ Len(new) = 2 /\ new[1] = a /\ new[2] = c
      <4>1. kqueue' = Append(kqueue \o <<a>> \o <<>>, c)
        BY <1>7, <3>1
      <4>2. kqueue \in Seq(Event) /\ a \in Event /\ c \in Event
        BY <1>1, <1>4, <1>5
      <4> QED
        BY ONLY <4>1, <4>2, TwoMore
    <3> HIDE DEF new
    <3>3. \A i \in 1..2 : i = 1 \/ i = 2
      OBVIOUS
    <3>4. c.id = happened + 2 /\ a.id = happened + 1
      BY <1>1, <1>4, <1>5, <1>9, <2>1
    <3>5. \A i \in 1..Len(new) : /\ new[i].id = happened + i /\ ~Again(new[i])
                                /\ new[i].wd \in DOMAIN watches /\ new[i].was = watches[new[i].wd]
                                /\ new[i].kind # "ignored"
      BY <1>4, <1>5, <1>8, <3>2, <3>3, <3>4
    <3>6. Len(new) = 2 + m
      BY <2>1, <3>2
    <3> QED
      BY <3>2, <3>5, <3>6
  <2>2. CASE m = 1
    <3> DEFINE new == <<a, b, c>>
    <3>1. mid = <<b>>
      BY <2>2
    <3> HIDE DEF mid
    <3>2. /\ kqueue' = kqueue \o new /\ new \in Seq(Event) /\ Len(new) = 3
          /\ new[1] = a /\ new[2] = b /\ new[3] = c
      <4>1. kqueue' = Append(kqueue \o <<a>> \o <<b>>, c)
        BY <1>7, <3>1
      <4>2. kqueue \in Seq(Event) /\ a \in Event /\ b \in Event /\ c \in Event
        BY <1>1, <1>4, <1>5, <1>6, <2>2
      <4> QED
        BY ONLY <4>1, <4>2, ThreeMore
    <3> HIDE DEF new
    <3>3. \A i \in 1..3 : i = 1 \/ i = 2 \/ i = 3
      OBVIOUS
    <3>4. c.id = happened + 3 /\ b.id = happened + 2 /\ a.id = happened + 1
      BY <1>1, <1>4, <1>5, <1>6, <1>9, <2>2
    <3>5. \A i \in 1..Len(new) : /\ new[i].id = happened + i /\ ~Again(new[i])
                                /\ new[i].wd \in DOMAIN watches /\ new[i].was = watches[new[i].wd]
                                /\ new[i].kind # "ignored"
      BY <1>4, <1>5, <1>6, <1>8, <1>10, <2>2, <3>2, <3>3, <3>4
    <3>6. Len(new) = 2 + m
      BY <2>2, <3>2
    <3> QED
      BY <3>2, <3>5, <3>6
  <2> QED
    BY <1>2, <2>1, <2>2
<1>12. PICK new \in Seq(Event) :
         /\ kqueue' = kqueue \o new /\ Len(new) = 2 + m
         /\ \A i \in 1..Len(new) : /\ new[i].id = happened + i /\ ~Again(new[i])
                                   /\ new[i].wd \in DOMAIN watches /\ new[i].was = watches[new[i].wd]
                                   /\ new[i].kind # "ignored"
  BY <1>11
<1>13. happened' = happened + Len(new)
  BY <1>1, <1>2, <1>9, <1>12
<1>14. /\ DOMAIN watches' = DOMAIN watches \ gone /\ watches' \in [DOMAIN watches' -> Paths]
       /\ files' \in [DOMAIN files' -> Paths] /\ leftover' = leftover \cap DOMAIN files'
       /\ \A x \in gone : \E i \in 1..Len(new) : new[i].wd = x /\ new[i].kind = "ignored"
  BY <1>1 DEF InotifyTypes
<1> HIDE DEF gone, mid, m
<1> QED
  BY <1>12, <1>13, <1>14, QueueGrows

LEMMA KernelKeeps ==
  ASSUME InotifyInv, NEW w, KernelEvent(w)
  PROVE  InotifyInv'
<1>1. /\ w \in DOMAIN watches
      /\ UNCHANGED <<style, lastWd, files, buffer, cookies, adding, reported, leftover, unheard, dropped, stale, erased>>
  BY DEF KernelEvent
<1>2. happened \in Nat
  BY DEF InotifyInv, InotifyTypes
<1>3. CASE /\ happened' = happened + 1 /\ UNCHANGED watches
           /\ kqueue' = Append(kqueue, Queued(w, "modify", 0, happened + 1))
  BY <1>1, <1>3, OneQueued
<1>4. CASE /\ happened' = happened + 1 /\ UNCHANGED watches
           /\ kqueue' = Append(kqueue, Queued(w, "move", happened + 1, happened + 1))
  <2>1. happened + 1 \in Nat /\ happened + 1 # 0
    BY <1>2
  <2> QED
    BY <1>1, <1>4, <2>1, OneQueued
<1>5. CASE \E v \in DOMAIN watches, between \in SUBSET DOMAIN watches :
             /\ Cardinality(between) <= 1
             /\ happened' = happened + 1 + 1 + Cardinality(between)
             /\ kqueue' = Append(kqueue \o <<Queued(w, "move", happened + 1, happened + 1)>>
                                   \o [i \in 1..Cardinality(between) |->
                                         Queued(CHOOSE u \in between : TRUE, "modify", 0, happened + 1 + 1)],
                                 Queued(v, "move", happened + 1, happened'))
             /\ UNCHANGED watches
  BY <1>1, <1>5, MoveQueued
<1>6. CASE /\ happened' = happened + 1 /\ watches' = Without(watches, w)
           /\ kqueue' = Append(kqueue, Queued(w, "ignored", 0, happened + 1))
  BY <1>1, <1>6, IgnoredQueued
<1> QED
  BY <1>3, <1>4, <1>5, <1>6 DEF KernelEvent

-----------------------------------------------------------------------------
(***************************************************************************)
(* What is reported.                                                       *)
(***************************************************************************)
\* The ids of the first notices.
LEMMA FirstIds ==
  ASSUME NEW q \in Seq(Notice), NEW j \in 1..Len(q)
  PROVE  Ids(SubSeq(q, 1, j - 1)) = {q[i].id : i \in 1..(j - 1)}
<1>1. Len(q) \in Nat /\ j - 1 \in 0..Len(q)
  OBVIOUS
<1> DEFINE m == j - 1
           u == SubSeq(q, 1, m)
<1>2. m \in 0..Len(q)
  BY <1>1
<1> HIDE DEF m
<1>3. u \in Seq(Notice) /\ Len(u) = m /\ \A i \in 1..m : u[i] = q[i]
  BY <1>2, CutTwo
<1> HIDE DEF u
<1>4. DOMAIN u = 1..m
  BY <1>3
<1>5. Ids(u) = {q[i].id : i \in 1..m}
  BY <1>3, <1>4 DEF Ids
<1> QED
  BY <1>5 DEF u, m

\* A notice is younger than all before it, or one of them is of the same event;
\* its path is right, or such a notice was given under a leftover descriptor.
LEMMA ReportsGrow ==
  ASSUME InotifyInv, NEW more \in Seq(Notice), reported' = reported \o more, style' = style,
         \A j \in 1..Len(more) :
           \/ /\ \A r \in ToSet(reported) : r.id < more[j].id
              /\ \A i \in 1..(j - 1) : more[i].id < more[j].id
           \/ /\ style = "service"
              /\ more[j].id \in Ids(reported) \/ \E i \in 1..(j - 1) : more[i].id = more[j].id,
         \A j \in 1..Len(more) :
           \/ more[j].path = more[j].was
           \/ Old(more[j].id)
           \/ \E i \in 1..j : more[i].id = more[j].id /\ more[i].old
  PROVE  /\ reported' \in Seq(Notice) /\ ToSet(reported') = ToSet(reported) \cup ToSet(more)
         /\ RightPath' /\ InOrder'
<1>1. reported \in Seq(Notice) /\ Len(reported) \in Nat /\ Len(more) \in Nat
  BY DEF InotifyInv, InotifyTypes
<1> DEFINE n == Len(reported)
<1>2. /\ reported' \in Seq(Notice) /\ Len(reported') = n + Len(more)
      /\ \A i \in 1..n : reported'[i] = reported[i]
      /\ \A i \in 1..Len(more) : reported'[n + i] = more[i]
  <2>1. /\ reported \o more \in Seq(Notice) /\ Len(reported \o more) = n + Len(more)
        /\ \A i \in 1..n : (reported \o more)[i] = reported[i]
        /\ \A i \in 1..Len(more) : (reported \o more)[n + i] = more[i]
    BY <1>1, Concat
  <2> QED
    BY <2>1
<1>3. ToSet(reported') = ToSet(reported) \cup ToSet(more)
  BY <1>1, ConcatSet
<1>4. n \in Nat /\ DOMAIN reported = 1..n /\ DOMAIN reported' = 1..(n + Len(more))
  BY <1>1, <1>2
<1>5. \A i \in 1..n : reported[i] \in ToSet(reported)
  BY <1>1, ToSetPlaces
<1>6. \A x : x \in Ids(reported) <=> \E i \in 1..n : reported[i].id = x
  BY <1>4 DEF Ids
<1>7. \A x : Old(x) <=> \E i \in 1..n : reported[i].id = x /\ reported[i].old
  BY <1>1, ToSetPlaces DEF Old
<1> HIDE DEF n
<1>8. ASSUME NEW j \in 1..(n + Len(more)), j > n
      PROVE  j - n \in 1..Len(more) /\ n + (j - n) = j /\ reported'[j] = more[j - n]
  <2>1. j - n \in 1..Len(more) /\ n + (j - n) = j
    BY <1>1, <1>4, <1>8
  <2> QED
    BY <1>2, <2>1
<1>9. ASSUME NEW j \in 1..Len(more), NEW i \in 1..j
      PROVE  n + i \in 1..(n + j) /\ reported'[n + i] = more[i]
  <2>1. n + i \in 1..(n + j) /\ i \in 1..Len(more)
    BY <1>1, <1>4
  <2> QED
    BY <1>2, <2>1
<1>10. RightPath'
  <2>1. SUFFICES ASSUME NEW j \in 1..(n + Len(more))
                 PROVE  \/ reported'[j].path = reported'[j].was
                        \/ \E i \in 1..j : reported'[i].id = reported'[j].id /\ reported'[i].old
    BY <1>4 DEF RightPath
  <2>2. CASE j <= n
    <3>1. j \in 1..n /\ \A i \in 1..j : i \in 1..n
      BY <1>4, <2>2
    <3>2. \/ reported[j].path = reported[j].was
          \/ \E i \in 1..j : reported[i].id = reported[j].id /\ reported[i].old
      BY <1>4, <3>1 DEF InotifyInv, RightPath
    <3> QED
      BY <1>2, <3>1, <3>2
  <2>3. CASE j > n
    <3> DEFINE m == j - n
    <3>1. m \in 1..Len(more) /\ n + m = j /\ reported'[j] = more[m]
      BY <1>8, <2>3
    <3> HIDE DEF m
    <3>2. CASE more[m].path = more[m].was
      BY <3>1, <3>2
    <3>3. CASE Old(more[m].id)
      <4>1. PICK i \in 1..n : reported[i].id = more[m].id /\ reported[i].old
        BY <1>7, <3>3
      <4>2. i \in 1..j /\ reported'[i] = reported[i]
        BY <1>2, <1>4, <2>3
      <4>3. reported'[i].id = reported'[j].id /\ reported'[i].old
        BY <3>1, <4>1, <4>2, Zenon
      <4> QED
        BY <4>2, <4>3, Zenon
    <3>4. CASE \E i \in 1..m : more[i].id = more[m].id /\ more[i].old
      <4>1. PICK i \in 1..m : more[i].id = more[m].id /\ more[i].old
        BY <3>4
      <4>2. n + i \in 1..j /\ reported'[n + i] = more[i]
        BY <1>9, <3>1
      <4>3. reported'[n + i].id = reported'[j].id /\ reported'[n + i].old
        BY <3>1, <4>1, <4>2, Zenon
      <4> QED
        BY <4>2, <4>3, Zenon
    <3> QED
      BY <3>1, <3>2, <3>3, <3>4
  <2> QED
    BY <1>1, <1>4, <2>2, <2>3
<1>11. InOrder'
  <2>1. SUFFICES ASSUME NEW i \in 1..(n + Len(more)), NEW j \in 1..(n + Len(more)), i < j
                 PROVE  \/ reported'[i].id < reported'[j].id
                        \/ style = "service" /\ reported'[j].id \in Ids(SubSeq(reported', 1, j - 1))
    BY <1>4 DEF InOrder
  <2>2. Ids(SubSeq(reported', 1, j - 1)) = {reported'[x].id : x \in 1..(j - 1)}
    BY <1>2, FirstIds
  <2>3. CASE j <= n
    <3>1. j \in 1..n /\ i \in 1..n /\ \A x \in 1..(j - 1) : x \in 1..n
      BY <1>4, <2>1, <2>3
    <3>2. \/ reported[i].id < reported[j].id
          \/ style = "service" /\ reported[j].id \in Ids(SubSeq(reported, 1, j - 1))
      BY <1>4, <2>1, <3>1 DEF InotifyInv, InOrder
    <3>3. Ids(SubSeq(reported, 1, j - 1)) = {reported[x].id : x \in 1..(j - 1)}
      BY <1>1, <3>1, FirstIds DEF n
    <3>4. reported'[i] = reported[i] /\ reported'[j] = reported[j] /\ \A x \in 1..(j - 1) : reported'[x] = reported[x]
      BY <1>2, <3>1
    <3>5. Ids(SubSeq(reported', 1, j - 1)) = Ids(SubSeq(reported, 1, j - 1))
      <4>1. {reported'[x].id : x \in 1..(j - 1)} = {reported[x].id : x \in 1..(j - 1)}
        BY ONLY <3>4
      <4> QED
        BY <2>2, <3>3, <4>1, Zenon
    <3> QED
      BY <3>2, <3>4, <3>5
  <2>4. CASE j > n
    <3> DEFINE m == j - n
    <3>1. m \in 1..Len(more) /\ n + m = j /\ reported'[j] = more[m]
      BY <1>8, <2>4
    <3>2. m \in Nat /\ \A x \in 1..(m - 1) : x \in 1..m /\ n + x \in 1..(j - 1)
      BY <1>1, <1>4, <3>1
    <3>3. \A x \in 1..n : x \in 1..(j - 1) /\ reported'[x] = reported[x]
      BY <1>2, <1>4, <2>4
    <3>4. \A x \in 1..(m - 1) : reported'[n + x] = more[x]
      BY <1>9, <3>1, <3>2
    <3>5. i <= n => i \in 1..n
      BY <1>4
    <3>6. i > n => i - n \in 1..(m - 1) /\ n + (i - n) = i
      BY <1>1, <1>4, <2>1, <3>1
    <3> HIDE DEF m
    <3>7. CASE /\ \A r \in ToSet(reported) : r.id < more[m].id
               /\ \A x \in 1..(m - 1) : more[x].id < more[m].id
      <4>1. CASE i <= n
        BY <1>5, <3>1, <3>3, <3>5, <3>7, <4>1
      <4>2. CASE i > n
        <5>1. reported'[i] = more[i - n]
          BY <3>4, <3>6, <4>2
        <5> QED
          BY <3>1, <3>6, <3>7, <4>2, <5>1
      <4> QED
        BY <1>4, <4>1, <4>2
    <3>8. CASE /\ style = "service"
               /\ more[m].id \in Ids(reported) \/ \E x \in 1..(m - 1) : more[x].id = more[m].id
      <4>1. CASE more[m].id \in Ids(reported)
        <5>1. PICK x \in 1..n : reported[x].id = more[m].id
          BY <1>6, <4>1
        <5>2. x \in 1..(j - 1) /\ reported'[x].id = reported'[j].id
          BY <3>1, <3>3, <5>1
        <5> QED
          BY <2>2, <3>8, <5>2
      <4>2. CASE \E x \in 1..(m - 1) : more[x].id = more[m].id
        <5>1. PICK x \in 1..(m - 1) : more[x].id = more[m].id
          BY <4>2
        <5>2. n + x \in 1..(j - 1) /\ reported'[n + x].id = reported'[j].id
          BY <3>1, <3>2, <3>4, <5>1
        <5> QED
          BY <2>2, <3>8, <5>2
      <4> QED
        BY <3>8, <4>1, <4>2
    <3> QED
      BY <3>1, <3>7, <3>8
  <2> QED
    BY <1>1, <1>4, <2>3, <2>4
<1> QED
  BY <1>2, <1>3, <1>10, <1>11

\* The first k events are taken from the buffer, and what is left of it is the
\* rest or, at its end, events that the service writes back.
LEMMA TakenKeeps ==
  ASSUME InotifyInv, NEW k \in 1..Len(buffer), NEW e, e = buffer[k],
         \A j \in 1..(k - 1) : buffer[j].kind # "ignored",
         NEW more \in Seq(Notice), reported' \in Seq(Notice),
         ToSet(reported') = ToSet(reported) \cup ToSet(more), RightPath', InOrder',
         \A r \in ToSet(more) : r.id \in Ids(reported) \cup Ids(SubSeq(buffer, 1, k)),
         \A j \in 1..k : buffer[j].id \in Ids(more) \/ (j = k /\ e.wd \notin DOMAIN files),
         dropped' = (IF e.wd \in DOMAIN files THEN dropped ELSE dropped \cup {e.id}),
         DOMAIN files' = DOMAIN files \ Forgotten(e), files' \in [DOMAIN files' -> Paths],
         \A w \in DOMAIN files' : files'[w] = files[w],
         leftover' = leftover \cap DOMAIN files',
         unheard' = unheard \cup Overtaken(e, files), erased' = erased \cup Mistaken(e),
         IsFiniteSet(DOMAIN cookies'), cookies' \in [DOMAIN cookies' -> Notice], CookieInv',
         \/ buffer' = SubSeq(buffer, k + 1, Len(buffer))
         \/ /\ k = Len(buffer) /\ style = "service" /\ buffer' \in Seq(Event)
            /\ \A f \in ToSet(buffer') : /\ Again(f) /\ f.id \in Ids(reported') /\ f.wd \in DOMAIN files'
                                         /\ files'[f.wd] = f.was \/ Old(f.id)',
         UNCHANGED <<style, watches, lastWd, kqueue, happened, adding, stale>>
  PROVE  InotifyInv'
<1> DEFINE u == SubSeq(buffer, 1, k)
           v == SubSeq(buffer, k + 1, Len(buffer))
<1>1. /\ InotifyTypes /\ lastWd \in Nat
      /\ kqueue \in Seq(Event) /\ buffer \in Seq(Event) /\ reported \in Seq(Notice)
  <2>1. InotifyTypes
    BY DEF InotifyInv
  <2> QED
    BY ONLY <2>1, InotifyAssumption DEF InotifyTypes
<1>2. /\ happened \in Nat
      /\ \A f \in ToSet(kqueue) \cup ToSet(buffer) \cup ToSet(reported) : f.id \in 1..happened
  BY HappenedLast
<1>3. /\ u \in Seq(Event) /\ v \in Seq(Event) /\ Len(u) = k /\ Len(v) = Len(buffer) - k
      /\ \A i \in 1..k : u[i] = buffer[i]
      /\ ToSet(buffer) = ToSet(u) \cup ToSet(v)
  <2>1. k \in 0..Len(buffer)
    OBVIOUS
  <2> QED
    <3>1. buffer \in Seq(Event)
      BY <1>1
    <3> QED
      BY ONLY <2>1, <3>1, CutSet
<1>4. Increasing(buffer) => Increasing(v) /\ Before(u, v)
  <2>1. k \in 0..Len(buffer)
    OBVIOUS
  <2> QED
    BY <1>1, <2>1, IncreasingCut
<1>5. k = Len(buffer) => ToSet(v) = {}
  <2>1. SUFFICES ASSUME k = Len(buffer) PROVE ToSet(v) = {}
    OBVIOUS
  <2>2. Len(v) = 0
    <3>1. Len(buffer) \in Nat
      BY <1>1
    <3> QED
      BY <1>3, <2>1, <3>1
  <2> HIDE DEF v
  <2>3. \A f \in ToSet(v) : \E i \in 1..Len(v) : v[i] = f
    BY <1>3, ToSetPlaces
  <2> QED
    BY <2>2, <2>3
<1> HIDE DEF u, v
<1>6. \A f \in ToSet(u) : \E i \in 1..k : buffer[i] = f
  <2>1. \A f \in ToSet(u) : \E i \in 1..Len(u) : u[i] = f
    BY <1>3, ToSetPlaces
  <2> QED
    BY <1>3, <2>1
<1>7. k \in Nat /\ k >= 1 /\ e \in ToSet(u) /\ e \in ToSet(buffer) /\ e \in Event
  <2>1. k \in Nat /\ k >= 1 /\ k \in 1..k
    OBVIOUS
  <2>2. u[k] = e /\ u[k] \in ToSet(u)
    BY <1>3, <2>1, ToSetPlaces
  <2> QED
    BY <1>1, <1>3, <2>1, <2>2, ToSetPlaces
<1>8. \A f \in ToSet(u) : f.kind = "ignored" => f = e
  <2>1. SUFFICES ASSUME NEW i \in 1..k, buffer[i].kind = "ignored" PROVE i = k
    BY <1>6
  <2>2. i \notin 1..(k - 1)
    BY <2>1
  <2> QED
    BY <1>7, <2>2
<1>9. Ids(reported') = Ids(reported) \cup Ids(more)
  BY IdsOf
<1>10. \A n : Old(n) => Old(n)'
  BY DEF Old
<1>11. buffer' \in Seq(Event)
  BY <1>3 DEF v
<1>12. InotifyTypes'
  <2>1. DOMAIN files' \subseteq Wds /\ leftover' \subseteq DOMAIN files'
    BY <1>1 DEF InotifyTypes
  <2> QED
    BY <1>1, <1>11, <2>1 DEF InotifyTypes
\* what may be left in the buffer
<1>13. \A f \in ToSet(buffer') : \/ f \in ToSet(v)
                                   \/ /\ Again(f) /\ f.id \in Ids(reported') /\ f.wd \in DOMAIN files'
                                      /\ files'[f.wd] = f.was \/ Old(f.id)'
  BY DEF v
<1>14. ToSet(v) \subseteq ToSet(buffer')
  BY <1>5 DEF v
<1>15. \A f : Again(f)' = Again(f)
  BY DEF Again
<1>16. ASSUME Before(reported, kqueue), Before(buffer, kqueue) \/ \A f \in ToSet(buffer) : f.id \in Ids(reported)
       PROVE  Before(reported', kqueue)
  <2>1. SUFFICES ASSUME NEW r \in ToSet(more), NEW f \in ToSet(kqueue) PROVE r.id < f.id
    BY <1>16 DEF Before
  <2>2. r.id \in Ids(reported) \/ r.id \in Ids(buffer)
    BY <1>3, IdsOf DEF u
  <2>3. ASSUME r.id \in Ids(reported) PROVE r.id < f.id
    BY <1>16, <2>3, IdsOf DEF Before
  <2>4. ASSUME r.id \in Ids(buffer) PROVE r.id < f.id
    <3>1. PICK g \in ToSet(buffer) : g.id = r.id
      BY <2>4, IdsOf
    <3>2. CASE Before(buffer, kqueue)
      BY <3>1, <3>2 DEF Before
    <3>3. CASE \A h \in ToSet(buffer) : h.id \in Ids(reported)
      BY <2>3, <3>1, <3>3
    <3> QED
      BY <1>16, <3>2, <3>3
  <2> QED
    BY <2>2, <2>3, <2>4
<1>17. ASSUME Untouched(buffer), Before(buffer, kqueue) 
       PROVE  Increasing(v) /\ Before(reported', v) /\ Before(v, kqueue) /\ \A f \in ToSet(v) : ~Again(f)
  <2>1. Increasing(v) /\ Before(u, v) /\ \A f \in ToSet(v) : ~Again(f)
    BY <1>3, <1>4, <1>17 DEF Untouched
  <2>2. Before(v, kqueue) /\ Before(reported, v)
    BY <1>3, <1>17 DEF Before, Untouched
  <2>3. ASSUME NEW r \in ToSet(more), NEW f \in ToSet(v) PROVE r.id < f.id
    <3>1. CASE r.id \in Ids(reported)
      BY <2>2, <3>1, IdsOf DEF Before
    <3>2. CASE r.id \in Ids(u)
      BY <2>1, <3>2, IdsOf DEF Before
    <3> QED
      BY <3>1, <3>2 DEF u
  <2> QED
    BY <2>1, <2>2, <2>3 DEF Before
<1>18. QueuesInv'
  <2>1. Untouched(kqueue)
    BY DEF InotifyInv, QueuesInv
  <2>2. \/ Untouched(buffer) /\ Before(buffer, kqueue)
        \/ style = "service" /\ \A f \in ToSet(buffer) : Again(f) /\ f.id \in Ids(reported)
    BY DEF InotifyInv, QueuesInv
  <2>3. Untouched(kqueue)'
    <3>1. Before(reported', kqueue)
      BY <1>16, <2>1, <2>2 DEF Untouched
    <3> QED
      BY <1>15, <2>1, <3>1 DEF Untouched, Before, Increasing
  <2>4. CASE buffer' = v /\ Untouched(buffer) /\ Before(buffer, kqueue)
    <3>1. Untouched(buffer)' /\ Before(buffer', kqueue')
      <4>1. Increasing(v) /\ Before(reported', v) /\ Before(v, kqueue) /\ \A f \in ToSet(v) : ~Again(f)
        BY <1>17, <2>4
      <4>2. Increasing(buffer') /\ Before(reported', buffer') /\ Before(buffer', kqueue') /\ \A f \in ToSet(buffer') : ~Again(f)
        BY <2>4, <4>1
      <4> QED
        BY <4>2 DEF Untouched, Before, Increasing, Again
    <3> QED
      BY <2>3, <3>1 DEF QueuesInv, Before
  <2>5. CASE buffer' = v /\ style = "service" /\ \A f \in ToSet(buffer) : Again(f) /\ f.id \in Ids(reported)
    <3>1. style' = "service" /\ \A f \in ToSet(buffer') : Again(f) /\ f.id \in Ids(reported')
      BY <1>3, <1>9, <2>5
    <3> QED
      BY <1>15, <2>3, <3>1 DEF QueuesInv
  <2>6. CASE style = "service" /\ \A f \in ToSet(buffer') : Again(f) /\ f.id \in Ids(reported')
    BY <1>15, <2>3, <2>6 DEF QueuesInv
  <2> QED
    BY <2>2, <2>4, <2>5, <2>6 DEF v
<1>19. Fresh' \subseteq Fresh
  <2>1. Fresh' = {f \in ToSet(kqueue) \cup ToSet(buffer') : ~Again(f) /\ f.id \notin stale}
    BY <1>15 DEF Fresh
  <2> QED
    BY <1>3, <1>13, <2>1 DEF Fresh
<1>20. FreshInv'
  <2>1. ASSUME NEW f \in Fresh'
        PROVE  /\ f.wd <= lastWd
               /\ f.wd \in DOMAIN watches => f.was = watches[f.wd] /\ f.kind # "ignored"
               /\ f.wd = adding[1] => f.was = adding[2]
               /\ f.wd \in DOMAIN files' \ leftover' => files'[f.wd] = f.was
               /\ f.kind = "ignored" => \A g \in Fresh' : g.wd = f.wd => g.id <= f.id
    <3>1. /\ f.wd <= lastWd
          /\ f.wd \in DOMAIN watches => f.was = watches[f.wd] /\ f.kind # "ignored"
          /\ f.wd = adding[1] => f.was = adding[2]
          /\ f.wd \in DOMAIN files \ leftover => files[f.wd] = f.was
          /\ f.kind = "ignored" => \A g \in Fresh : g.wd = f.wd => g.id <= f.id
      BY <1>19 DEF InotifyInv, FreshInv
    <3> QED
      BY <1>19, <3>1
  <2> QED
    BY <2>1 DEF FreshInv
<1>21. AgainInv'
  <2>1. SUFFICES ASSUME NEW f \in ToSet(buffer'), Again(f), f.id \notin stale
                 PROVE  /\ f.wd \in DOMAIN files' => files'[f.wd] = f.was \/ Old(f.id)'
                        /\ f.wd \notin DOMAIN files' => f.wd <= lastWd /\ f.wd # adding[1] /\ f.wd \notin DOMAIN watches
    BY <1>15 DEF AgainInv
  <2>2. CASE f \in ToSet(v)
    <3>1. f \in ToSet(buffer)
      BY <1>3, <2>2
    <3>2. /\ f.wd \in DOMAIN files => files[f.wd] = f.was \/ Old(f.id)
          /\ f.wd \notin DOMAIN files => f.wd <= lastWd /\ f.wd # adding[1] /\ f.wd \notin DOMAIN watches
      BY <2>1, <3>1 DEF InotifyInv, AgainInv
    <3>3. Again(e)
      BY <1>7, <2>1, <3>1 DEF InotifyInv, QueuesInv, Untouched
    <3>4. DOMAIN files' = DOMAIN files
      BY <3>3 DEF Again, Forgotten
    <3> QED
      BY <1>10, <3>2, <3>4
  <2>3. CASE f \notin ToSet(v)
    BY <1>13, <2>3
  <2> QED
    BY <2>2, <2>3
<1>22. WatchInv'
  BY DEF InotifyInv, WatchInv
<1>23. ASSUME NEW w, Pending(w) PROVE Pending(w)' \/ (e.kind = "ignored" /\ e.wd = w /\ e.id \notin stale)
  <2>1. Pending(w)' <=> \E f \in ToSet(kqueue') \cup ToSet(buffer') : f.wd = w /\ f.kind = "ignored" /\ f.id \notin stale'
    BY DEF Pending, ToSet
  <2>2. PICK f \in ToSet(kqueue) \cup ToSet(buffer) : f.wd = w /\ f.kind = "ignored" /\ f.id \notin stale
    BY <1>23, PendingSet
  <2>3. CASE f \in ToSet(kqueue)
    <3>1. f \in ToSet(kqueue') \cup ToSet(buffer') /\ f.wd = w /\ f.kind = "ignored" /\ f.id \notin stale'
      BY <2>2, <2>3
    <3> QED
      BY ONLY <2>1, <3>1
  <2>4. CASE f \in ToSet(u)
    BY <1>8, <2>2, <2>4
  <2>5. CASE f \in ToSet(v)
    <3>1. f \in ToSet(kqueue') \cup ToSet(buffer') /\ f.wd = w /\ f.kind = "ignored" /\ f.id \notin stale'
      BY <1>14, <2>2, <2>5
    <3> QED
      BY ONLY <2>1, <3>1
  <2> QED
    BY <1>3, <2>3, <2>4, <2>5
<1>24. AddInv'
  <2>1. e.kind = "ignored" /\ e.wd = adding[1] /\ e.id \notin stale => adding[1] \in unheard'
    BY DEF Overtaken, Forgotten
  <2> QED
    BY <1>23, <2>1 DEF InotifyInv, AddInv
<1>25. FilesFollowKernel'
  <2>1. ASSUME NEW w \in DOMAIN watches PROVE w \in DOMAIN files' \/ w = adding[1] \/ w \in erased'
    <3>1. e.kind = "ignored" => ~Again(e)
      BY DEF Again
    <3>2. e.kind = "ignored" /\ e.id \notin stale => e.wd # w
      BY <1>7, <3>1 DEF InotifyInv, FreshInv, Fresh
    <3>3. w \in DOMAIN files \/ w = adding[1] \/ w \in erased
      BY DEF InotifyInv, FilesFollowKernel
    <3>4. w \in Forgotten(e) => e.kind = "ignored" /\ e.wd = w
      BY DEF Forgotten
    <3>5. w \in Forgotten(e) /\ e.id \in stale => w \in erased'
      BY DEF Mistaken
    <3> QED
      BY <3>2, <3>3, <3>4, <3>5
  <2>2. ASSUME NEW w \in DOMAIN files'
        PROVE  w \in DOMAIN watches \/ Pending(w)' \/ w \in leftover' \/ w \in unheard'
    <3>1. w \in DOMAIN files /\ ~(e.kind = "ignored" /\ e.wd = w)
      BY DEF Forgotten
    <3>2. w \in DOMAIN watches \/ Pending(w) \/ w \in leftover \/ w \in unheard
      BY <3>1 DEF InotifyInv, FilesFollowKernel
    <3> QED
      BY <1>23, <3>1, <3>2
  <2> QED
    BY <2>1, <2>2 DEF FilesFollowKernel
<1>26. Accounted'
  <2>1. 1..happened = Ids(reported) \cup Ids(kqueue) \cup Ids(buffer) \cup dropped
    BY DEF InotifyInv, Accounted
  <2>2. Ids(buffer) = Ids(u) \cup Ids(v)
    BY <1>3, IdsOf
  <2>3. Ids(u) \subseteq Ids(more) \cup dropped'
    <3>1. SUFFICES ASSUME NEW f \in ToSet(u) PROVE f.id \in Ids(more) \cup dropped'
      BY IdsOf
    <3>2. PICK i \in 1..k : buffer[i] = f
      BY <1>6
    <3> QED
      BY <3>2
  <2>4. Ids(v) \subseteq Ids(buffer') /\ Ids(buffer') \subseteq Ids(v) \cup Ids(reported')
    <3>1. Ids(v) \subseteq Ids(buffer')
      BY <1>14, IdsOf
    <3>2. ASSUME NEW f \in ToSet(buffer') PROVE f.id \in Ids(v) \cup Ids(reported')
      <4>1. CASE f \in ToSet(v)
        BY <4>1, IdsOf
      <4> QED
        BY <1>13, <4>1
    <3>3. Ids(buffer') = {f.id : f \in ToSet(buffer')}
      BY IdsOf
    <3> QED
      BY <3>1, <3>2, <3>3
  <2>5. Ids(more) \subseteq Ids(reported) \cup Ids(u)
    BY IdsOf DEF u
  <2>6. dropped \subseteq dropped' /\ dropped' \subseteq dropped \cup Ids(u)
    BY <1>7, IdsOf
  <2>7. 1..happened = Ids(reported') \cup Ids(kqueue) \cup Ids(buffer') \cup dropped'
    BY <1>9, <2>1, <2>2, <2>3, <2>4, <2>5, <2>6
  <2> QED
    BY <2>7 DEF Accounted
<1>27. StaleInv'
  BY DEF InotifyInv, StaleInv
<1> QED
  BY <1>12, <1>18, <1>20, <1>21, <1>22, <1>24, <1>25, <1>26, <1>27 DEF InotifyInv

\* What is told of an event whose descriptor is in files_.
LEMMA ReportOf ==
  ASSUME InotifyInv, NEW e \in ToSet(buffer), e.wd \in DOMAIN files
  PROVE  /\ Report(e, files) \in Notice /\ Report(e, files).id = e.id
         /\ Report(e, files).kind = e.kind
         /\ \/ Report(e, files).path = Report(e, files).was
            \/ Report(e, files).old
            \/ Old(e.id)
<1>1. InotifyTypes /\ e \in Event
  BY ToSetPlaces DEF InotifyInv, InotifyTypes
<1>2. e.id \in Nat /\ e.kind \in Kinds /\ e.was \in Paths /\ files[e.wd] \in Paths
  BY <1>1 DEF InotifyTypes, Event
<1>3. (IF style = "listener" THEN Callbacks(e.kind) ELSE {"event"}) \in SUBSET Calls
  <2>1. CASE e.kind = "modify"
    <3>1. Callbacks(e.kind) = {"on_event", "on_delete"} \cup {"on_modify"}
      BY <2>1 DEF Callbacks
    <3> QED
      BY <3>1 DEF Calls
  <2>2. CASE e.kind = "move"
    <3>1. Callbacks(e.kind) = {"on_event", "on_delete"} \cup {"on_moved"}
      BY <2>2 DEF Callbacks
    <3> QED
      BY <3>1 DEF Calls
  <2>3. CASE e.kind = "ignored"
    <3>1. Callbacks(e.kind) = {"on_event", "on_delete"} \cup {"on_disposed"}
      BY <2>3 DEF Callbacks
    <3> QED
      BY <3>1 DEF Calls
  <2> QED
    BY <1>2, <2>1, <2>2, <2>3 DEF Kinds
<1> DEFINE r == Report(e, files)
<1>4. /\ r.id = e.id /\ r.kind = e.kind /\ r.path = files[e.wd] /\ r.was = e.was
      /\ r.old <=> e.wd \in leftover \/ e.id \in stale
  BY DEF Report
<1>5. r \in Notice
  BY <1>2, <1>3 DEF Report, Notice
<1> HIDE DEF r
<1>6. r.path = r.was \/ r.old \/ Old(e.id)
  <2>1. CASE Again(e) /\ e.id \notin stale
    BY <1>4, <2>1 DEF InotifyInv, AgainInv
  <2>2. CASE ~Again(e) /\ e.id \notin stale
    <3>1. e \in Fresh
      BY <2>2 DEF Fresh
    <3> QED
      BY <1>4, <3>1 DEF InotifyInv, FreshInv
  <2>3. CASE e.id \in stale
    BY <1>4, <2>3
  <2> QED
    BY <2>1, <2>2, <2>3
<1> QED
  BY <1>4, <1>5, <1>6 DEF r

\* What erase() leaves of files_.
LEMMA ForgetFiles ==
  ASSUME InotifyInv, NEW e
  PROVE  /\ DOMAIN ForgetFile(files, e) = DOMAIN files \ Forgotten(e)
         /\ ForgetFile(files, e) \in [DOMAIN ForgetFile(files, e) -> Paths]
         /\ \A w \in DOMAIN ForgetFile(files, e) : ForgetFile(files, e)[w] = files[w]
<1>1. files \in [DOMAIN files -> Paths]
  BY DEF InotifyInv, InotifyTypes
<1>2. CASE e.kind = "ignored"
  <2>1. ForgetFile(files, e) = Without(files, e.wd) /\ Forgotten(e) = {e.wd}
    BY <1>2 DEF ForgetFile, Forgotten
  <2>2. Without(files, e.wd) \in [DOMAIN Without(files, e.wd) -> Paths]
    BY <1>1, WithoutType
  <2>3. /\ DOMAIN Without(files, e.wd) = DOMAIN files \ {e.wd}
        /\ \A x \in DOMAIN files : x # e.wd => Without(files, e.wd)[x] = files[x]
    BY WithoutKey
  <2> QED
    BY ONLY <2>1, <2>2, <2>3
<1>3. CASE e.kind # "ignored"
  <2>1. ForgetFile(files, e) = files /\ Forgotten(e) = {}
    BY <1>3 DEF ForgetFile, Forgotten
  <2> QED
    BY <1>1, <2>1
<1> QED
  BY <1>2, <1>3

\* One turn of the listener's loop.
LEMMA ListenerKeeps ==
  ASSUME InotifyInv, ListenerNotify
  PROVE  InotifyInv'
<1> DEFINE e == Head(buffer)
           known == e.wd \in DOMAIN files
           more == IF known THEN <<Report(e, files)>> ELSE <<>>
<1>1. /\ style = "listener" /\ buffer # <<>> /\ buffer' = Tail(buffer)
      /\ leftover' = leftover \cap DOMAIN files'
      /\ dropped' = (IF known THEN dropped ELSE dropped \cup {e.id})
      /\ unheard' = unheard \cup Overtaken(e, files) /\ erased' = erased \cup Mistaken(e)
      /\ UNCHANGED <<style, watches, lastWd, kqueue, happened, adding, cookies, stale>>
  BY DEF ListenerNotify, kernel
<1>2. IF known THEN reported' = Append(reported, Report(e, files)) /\ files' = ForgetFile(files, e)
               ELSE UNCHANGED <<reported, files>>
  BY DEF ListenerNotify
<1>3. /\ InotifyTypes /\ buffer \in Seq(Event) /\ reported \in Seq(Notice)
      /\ IsFiniteSet(DOMAIN cookies) /\ cookies \in [DOMAIN cookies -> Notice]
  BY DEF InotifyInv, InotifyTypes
<1>4. Len(buffer) \in Nat \ {0} /\ 1 \in 1..Len(buffer)
  BY <1>1, <1>3
<1>5. e = buffer[1] /\ e \in ToSet(buffer) /\ Tail(buffer) = SubSeq(buffer, 1 + 1, Len(buffer))
  <2>1. e = buffer[1]
    BY <1>3, <1>4
  <2>2. buffer[1] \in ToSet(buffer)
    BY <1>3, <1>4, ToSetPlaces
  <2> DEFINE t == Tail(buffer)
             s == SubSeq(buffer, 1 + 1, Len(buffer))
  <2>3. t \in Seq(Event) /\ Len(t) = Len(buffer) - 1 /\ \A i \in 1..(Len(buffer) - 1) : t[i] = buffer[1 + i]
    BY <1>3, <1>4
  <2>4. s \in Seq(Event) /\ Len(s) = Len(buffer) - 1 /\ \A i \in 1..(Len(buffer) - 1) : s[i] = buffer[1 + i]
    <3> DEFINE o == 1
    <3>1. o \in 0..Len(buffer) /\ buffer \in Seq(Event)
      BY <1>3, <1>4
    <3> HIDE DEF o
    <3> DEFINE z == SubSeq(buffer, o + 1, Len(buffer))
    <3>2. z \in Seq(Event) /\ Len(z) = Len(buffer) - o /\ \A i \in 1..(Len(buffer) - o) : z[i] = buffer[o + i]
      BY ONLY <3>1, CutTwo
    <3>3. z = s
      BY DEF o
    <3> HIDE DEF z, s
    <3> QED
      BY <3>2, <3>3 DEF o
  <2> HIDE DEF t, s
  <2>5. t = s
    BY <2>3, <2>4, SameSeq
  <2> QED
    BY <2>1, <2>2, <2>5 DEF t, s
<1> HIDE DEF e
<1>6. Untouched(buffer)
  BY <1>1 DEF InotifyInv, QueuesInv
<1> DEFINE n == Report(e, files)
<1>7. known => n \in Notice /\ n.id = e.id /\ (n.path = n.was \/ n.old \/ Old(n.id))
  BY <1>5, ReportOf
<1> HIDE DEF n
<1>8. /\ more \in Seq(Notice) /\ reported' = reported \o more
      /\ IF known THEN Len(more) = 1 /\ more[1] = n ELSE Len(more) = 0
  <2>1. CASE known
    <3>1. more = <<n>>
      BY <2>1 DEF n
    <3>2. reported' = Append(reported, n)
      BY <1>2, <2>1 DEF n
    <3>3. <<n>> \in Seq(Notice) /\ Len(<<n>>) = 1 /\ <<n>>[1] = n
      BY <1>7, <2>1
    <3>4. Append(reported, n) = reported \o <<n>>
      BY <1>3, <1>7, <2>1
    <3> HIDE DEF more, known
    <3> QED
      BY <2>1, <3>1, <3>2, <3>3, <3>4
  <2>2. CASE ~known
    <3>1. more = <<>> /\ reported' = reported
      BY <1>2, <2>2
    <3> QED
      BY <1>3, <2>2, <3>1
  <2> QED
    BY <2>1, <2>2
<1> HIDE DEF more
<1>9. \A j \in 1..Len(more) : j = 1 /\ known /\ more[j] = n
  <2>1. CASE known
    <3>1. Len(more) = 1 /\ more[1] = n
      BY <1>8, <2>1
    <3> QED
      BY <2>1, <3>1
  <2>2. CASE ~known
    <3>1. Len(more) = 0
      BY <1>8, <2>2
    <3> QED
      BY <3>1
  <2> QED
    BY <2>1, <2>2
<1>10. /\ reported' \in Seq(Notice) /\ ToSet(reported') = ToSet(reported) \cup ToSet(more)
       /\ RightPath' /\ InOrder'
  <2>1. ASSUME NEW j \in 1..Len(more)
        PROVE  /\ \A r \in ToSet(reported) : r.id < more[j].id
               /\ \A i \in 1..(j - 1) : more[i].id < more[j].id
    <3>1. j = 1 /\ known /\ more[j] = n
      BY <1>9
    <3>2. \A r \in ToSet(reported) : r.id < e.id
      BY <1>5, <1>6 DEF Untouched, Before
    <3> QED
      BY <1>7, <3>1, <3>2
  <2>2. ASSUME NEW j \in 1..Len(more)
        PROVE  \/ more[j].path = more[j].was
               \/ Old(more[j].id)
               \/ \E i \in 1..j : more[i].id = more[j].id /\ more[i].old
    <3>1. j = 1 /\ known /\ more[j] = n /\ j \in 1..j
      <4>1. j = 1 /\ known /\ more[j] = n
        BY <1>9
      <4> QED
        BY <4>1
    <3> QED
      BY <1>7, <3>1, Zenon
  <2>3. style' = style
    BY <1>1
  <2> QED
    BY <1>8, <2>1, <2>2, <2>3, ReportsGrow
<1>11. \A r \in ToSet(more) : r.id \in Ids(reported) \cup Ids(SubSeq(buffer, 1, 1))
  <2> DEFINE u == SubSeq(buffer, 1, 1)
  <2>1. /\ u \in Seq(Event) /\ Len(u) = 1 /\ \A i \in 1..1 : u[i] = buffer[i]
    <3>1. 1 \in 0..Len(buffer) /\ buffer \in Seq(Event)
      BY <1>3, <1>4
    <3> QED
      BY ONLY <3>1, CutTwo
  <2> HIDE DEF u
  <2>2. u[1] = e /\ 1 \in DOMAIN u
    BY <1>5, <2>1
  <2>3. e.id \in Ids(u)
    BY <2>2 DEF Ids
  <2>4. TAKE r \in ToSet(more)
  <2>5. PICK j \in 1..Len(more) : more[j] = r
    BY <1>8, ToSetPlaces
  <2>6. r.id = e.id
    BY <1>7, <1>9, <2>5
  <2> QED
    BY <2>3, <2>6 DEF u
<1>12. \A j \in 1..1 : buffer[j].id \in Ids(more) \/ (j = 1 /\ e.wd \notin DOMAIN files)
  <2>1. ASSUME known PROVE e.id \in Ids(more)
    <3>1. 1 \in DOMAIN more /\ more[1].id = e.id
      BY <1>7, <1>8, <2>1
    <3> QED
      BY <3>1 DEF Ids
  <2>2. \A j \in 1..1 : j = 1
    OBVIOUS
  <2> QED
    BY <1>5, <2>1, <2>2
<1>13. /\ DOMAIN files' = DOMAIN files \ Forgotten(e) /\ files' \in [DOMAIN files' -> Paths]
       /\ \A w \in DOMAIN files' : files'[w] = files[w]
  <2>1. CASE known
    BY <1>2, <2>1, ForgetFiles
  <2>2. CASE ~known
    <3>1. files' = files /\ e.wd \notin DOMAIN files
      BY <1>2, <2>2
    <3>2. DOMAIN files \ Forgotten(e) = DOMAIN files
      BY <3>1 DEF Forgotten
    <3> QED
      BY <1>3, <3>1, <3>2 DEF InotifyTypes
  <2> QED
    BY <2>1, <2>2
<1>14. CookieInv' /\ IsFiniteSet(DOMAIN cookies') /\ cookies' \in [DOMAIN cookies' -> Notice]
  <2>1. Ids(reported) \subseteq Ids(reported') /\ \A x : Old(x) => Old(x)'
    BY <1>10, IdsOf DEF Old
  <2> QED
    BY <1>1, <1>3, <2>1 DEF InotifyInv, CookieInv
<1>15. \A j \in 1..(1 - 1) : buffer[j].kind # "ignored"
  OBVIOUS
<1>16. buffer' = SubSeq(buffer, 1 + 1, Len(buffer))
  BY <1>1, <1>5
<1> QED
  BY <1>1, <1>4, <1>5, <1>8, <1>10, <1>11, <1>12, <1>13, <1>14, <1>15, <1>16, TakenKeeps

\* The loop of do_notify() ends at the first event that is not the first half of a move.
LEMMA LastTakenIs ==
  ASSUME InotifyInv, buffer # <<>>
  PROVE  /\ LastTaken \in 1..Len(buffer) /\ ~GoesOn(LastTaken)
         /\ \A j \in 1..(LastTaken - 1) : GoesOn(j)
<1>1. buffer \in Seq(Event)
  BY DEF InotifyInv, InotifyTypes
<1>2. Len(buffer) \in Nat \ {0} /\ DOMAIN buffer = 1..Len(buffer)
  BY <1>1
<1> DEFINE T == {i \in 1..Len(buffer) : ~GoesOn(i)}
<1>3. Len(buffer) \in T
  BY <1>2 DEF GoesOn
<1>4. T \in SUBSET Nat /\ T # {}
  BY <1>2, <1>3
<1>5. PICK x \in T : \A y \in T : x <= y
  <2> HIDE DEF T
  <2> QED
    BY <1>4, LeastNumber
<1>6. x \in 1..Len(buffer) /\ ~GoesOn(x)
  OBVIOUS
<1>7. ASSUME NEW j \in 1..(x - 1) PROVE GoesOn(j)
  <2>1. j \in 1..Len(buffer) /\ ~(x <= j)
    BY <1>2, <1>6
  <2>2. j \notin T
    BY <1>5, <2>1
  <2> QED
    BY <2>1, <2>2
<1>8. \E i \in DOMAIN buffer : ~GoesOn(i) /\ \A j \in 1..(i - 1) : GoesOn(j)
  BY <1>2, <1>6, <1>7
<1>9. /\ LastTaken \in DOMAIN buffer /\ ~GoesOn(LastTaken)
      /\ \A j \in 1..(LastTaken - 1) : GoesOn(j)
  BY <1>8 DEF LastTaken
<1> QED
  BY <1>2, <1>9

\* The numbers of the first places are finitely many, and so are their cookies.
LEMMA FinitePlaces ==
  ASSUME NEW n \in Nat, NEW f
  PROVE  IsFiniteSet({f[i] : i \in 1..n})
<1> DEFINE T == {f[i] : i \in 1..n}
           g == [i \in 1..n |-> f[i]]
<1>1. g \in Surjection(1..n, T)
  BY DEF Surjection
<1>2. IsFiniteSet(1..n)
  BY FS_Interval
<1> HIDE DEF T, g
<1>3. IsFiniteSet(T)
  BY <1>1, <1>2, FS_Surjection
<1> QED
  BY <1>3 DEF T

\* What cookies_ holds after the first halves are stored.
LEMMA StoredIs ==
  ASSUME InotifyInv, NEW k \in 1..Len(buffer), \A j \in 1..(k - 1) : GoesOn(j)
  PROVE  /\ IsFiniteSet(DOMAIN Stored(k)) /\ Stored(k) \in [DOMAIN Stored(k) -> Notice]
         /\ DOMAIN Stored(k) = DOMAIN cookies \cup {buffer[i].cookie : i \in 1..(k - 1)}
         /\ \A c \in DOMAIN Stored(k) :
              /\ Stored(k)[c].kind = "move"
              /\ \/ /\ Stored(k)[c].id \in Ids(reported)
                    /\ Stored(k)[c].path = Stored(k)[c].was \/ Old(Stored(k)[c].id)
                 \/ k > 1 /\ Stored(k)[c] = Report(buffer[1], files)
<1>1. /\ buffer \in Seq(Event) /\ IsFiniteSet(DOMAIN cookies) /\ cookies \in [DOMAIN cookies -> Notice]
  BY DEF InotifyInv, InotifyTypes
<1>2. Len(buffer) \in Nat /\ k \in Nat /\ k - 1 \in Nat
  BY <1>1
<1> DEFINE all == {buffer[i].cookie : i \in 1..(k - 1)}
           new == all \ DOMAIN cookies
           r == Report(buffer[1], files)
<1>3. IsFiniteSet(all)
  <2> DEFINE f == [i \in 1..(k - 1) |-> buffer[i].cookie]
  <2>1. IsFiniteSet({f[i] : i \in 1..(k - 1)})
    <3> HIDE DEF f
    <3> QED
      BY <1>2, FinitePlaces
  <2>2. {f[i] : i \in 1..(k - 1)} = all
    OBVIOUS
  <2> QED
    BY <2>1, <2>2
<1>4. DOMAIN Stored(k) = DOMAIN cookies \cup all
  BY DEF Stored
<1>5. \A c \in DOMAIN Stored(k) : Stored(k)[c] = IF c \in new THEN r ELSE cookies[c]
  BY DEF Stored
<1>6. new # {} => k > 1 /\ buffer[1].wd \in DOMAIN files /\ buffer[1].kind = "move" /\ buffer[1] \in ToSet(buffer)
  <2>1. SUFFICES ASSUME NEW i \in 1..(k - 1)
                 PROVE  k > 1 /\ buffer[1].wd \in DOMAIN files /\ buffer[1].kind = "move" /\ buffer[1] \in ToSet(buffer)
    OBVIOUS
  <2>2. k > 1 /\ 1 \in 1..(k - 1) /\ 1 \in 1..Len(buffer)
    BY <1>2, <2>1
  <2>3. GoesOn(1)
    BY <2>2
  <2> QED
    BY <1>1, <2>2, <2>3, ToSetPlaces DEF GoesOn, IsMove
<1>7. new # {} => r \in Notice /\ r.kind = "move"
  BY <1>6, ReportOf
<1>8. \A c \in DOMAIN cookies : cookies[c] \in Notice
  BY <1>1
<1>9. IsFiniteSet(DOMAIN cookies \cup all)
  <2> HIDE DEF all
  <2> QED
    BY <1>1, <1>3, FS_Union
<1> HIDE DEF r
<1>10. ASSUME NEW c \in DOMAIN Stored(k)
       PROVE  /\ Stored(k)[c] \in Notice /\ Stored(k)[c].kind = "move"
              /\ \/ /\ Stored(k)[c].id \in Ids(reported)
                    /\ Stored(k)[c].path = Stored(k)[c].was \/ Old(Stored(k)[c].id)
                 \/ k > 1 /\ Stored(k)[c] = r
  <2>1. CASE c \in new
    <3>1. Stored(k)[c] = r /\ new # {}
      BY <1>5, <2>1
    <3> HIDE DEF new
    <3> QED
      BY <1>6, <1>7, <3>1
  <2>2. CASE c \notin new
    <3>1. c \in DOMAIN cookies
      BY <1>4, <2>2
    <3>2. Stored(k)[c] = cookies[c]
      BY <1>5, <2>2
    <3>3. /\ cookies[c].kind = "move" /\ cookies[c].id \in Ids(reported)
          /\ cookies[c].path = cookies[c].was \/ Old(cookies[c].id)
      BY <3>1 DEF InotifyInv, CookieInv
    <3> QED
      BY <1>8, <3>1, <3>2, <3>3
  <2> QED
    BY <2>1, <2>2
<1>11. Stored(k) \in [DOMAIN Stored(k) -> Notice]
  <2>1. Stored(k) = [c \in DOMAIN Stored(k) |-> Stored(k)[c]]
    BY DEF Stored
  <2> QED
    BY <1>10, <2>1
<1> QED
  BY <1>4, <1>9, <1>10, <1>11 DEF r

\* What is written back into the buffer.
LEMMA PutBackIs ==
  ASSUME NEW ck, NEW fs, IsFiniteSet(DOMAIN ck), ck \in [DOMAIN ck -> Notice],
         DOMAIN fs \subseteq Wds, fs \in [DOMAIN fs -> Paths],
         \A c \in DOMAIN ck : ck[c].kind = "move",
         PutBack(ck, fs)
  PROVE  /\ buffer' \in Seq(Event)
         /\ \A f \in ToSet(buffer') :
              /\ Again(f) /\ f.wd \in DOMAIN fs
              /\ \E c \in DOMAIN ck : f.id = ck[c].id /\ f.was = ck[c].was /\ fs[f.wd] = ck[c].path
<1> DEFINE left == {x \in (DOMAIN ck) \X (DOMAIN fs) : fs[x[2]] = ck[x[1]].path}
           m == Cardinality(left)
<1>1. m \in Nat
  <2>1. IsFiniteSet(DOMAIN fs)
    <3>1. IsFiniteSet(Wds)
      BY FS_Interval, InotifyAssumption DEF Wds
    <3> QED
      BY <3>1, FS_Subset
  <2>2. IsFiniteSet((DOMAIN ck) \X (DOMAIN fs))
    BY <2>1, FS_Product
  <2>3. IsFiniteSet(left)
    BY <2>2, FS_Subset
  <2> HIDE DEF left
  <2> QED
    BY <2>3, FS_CardinalityType
<1>2. PICK q \in SetToSeqs(left) :
        buffer' = [i \in DOMAIN q |-> [id |-> ck[q[i][1]].id, wd |-> q[i][2], kind |-> ck[q[i][1]].kind,
                                       cookie |-> 0, was |-> ck[q[i][1]].was]]
  BY DEF PutBack
<1>3. q \in [1..m -> left]
  BY <1>2 DEF SetToSeqs
<1> DEFINE ev(i) == [id |-> ck[q[i][1]].id, wd |-> q[i][2], kind |-> ck[q[i][1]].kind,
                     cookie |-> 0, was |-> ck[q[i][1]].was]
<1>4. buffer' = [i \in 1..m |-> ev(i)]
  BY <1>2, <1>3
<1>5. \A i \in 1..m : q[i][1] \in DOMAIN ck /\ q[i][2] \in DOMAIN fs /\ fs[q[i][2]] = ck[q[i][1]].path
  BY <1>3
<1> HIDE DEF left, m
<1>6. ASSUME NEW i \in 1..m
      PROVE  /\ ev(i) \in Event /\ Again(ev(i)) /\ ev(i).wd \in DOMAIN fs
             /\ \E c \in DOMAIN ck : ev(i).id = ck[c].id /\ ev(i).was = ck[c].was /\ fs[ev(i).wd] = ck[c].path
  <2> DEFINE c == q[i][1]
             w == q[i][2]
  <2>1. c \in DOMAIN ck /\ w \in DOMAIN fs /\ fs[w] = ck[c].path
    BY <1>5
  <2>2. ck[c] \in Notice /\ ck[c].kind = "move"
    BY <2>1
  <2>3. ck[c].id \in Nat /\ ck[c].was \in Paths /\ w \in Wds /\ "move" \in Kinds
    BY <2>1, <2>2 DEF Notice, Kinds
  <2> DEFINE f == [id |-> ck[c].id, wd |-> w, kind |-> ck[c].kind, cookie |-> 0, was |-> ck[c].was]
  <2>4. f.id = ck[c].id /\ f.wd = w /\ f.kind = "move" /\ f.cookie = 0 /\ f.was = ck[c].was
    BY <2>2
  <2> HIDE DEF c, w
  <2>5. f \in Event
    BY <2>2, <2>3 DEF Event
  <2> HIDE DEF f
  <2>6. Again(f) /\ \E x \in DOMAIN ck : f.id = ck[x].id /\ f.was = ck[x].was /\ fs[f.wd] = ck[x].path
    BY <2>1, <2>4 DEF Again
  <2> QED
    BY <2>1, <2>4, <2>5, <2>6 DEF f, c, w
<1> HIDE DEF ev
<1>7. buffer' \in Seq(Event) /\ Len(buffer') = m /\ \A i \in 1..m : buffer'[i] = ev(i)
  <2>1. \A i \in 1..m : ev(i) \in Event
    BY <1>6
  <2>2. [i \in 1..m |-> ev(i)] \in Seq(Event)
    BY <1>1, <2>1
  <2>3. Len([i \in 1..m |-> ev(i)]) = m
    BY <1>1
  <2> QED
    BY <1>4, <2>2, <2>3
<1>8. ASSUME NEW f \in ToSet(buffer') PROVE \E i \in 1..m : f = ev(i)
  <2>1. PICK i \in 1..Len(buffer') : buffer'[i] = f
    BY <1>7, ToSetPlaces
  <2> QED
    BY <1>7, <2>1
<1> QED
  BY <1>6, <1>7, <1>8

\* do_notify() of the service.
LEMMA ServiceKeeps ==
  ASSUME InotifyInv, ServiceNotify
  PROVE  InotifyInv'
<1> DEFINE k == LastTaken
           e == buffer[k]
           known == e.wd \in DOMAIN files
           m == IF known THEN k ELSE k - 1
           told == [i \in 1..m |-> Report(buffer[i], files)]
           both == known /\ Paired(k)
           n == Stored(k)[e.cookie]
           ck == IF both THEN Without(Stored(k), e.cookie) ELSE Stored(k)
           more == IF both THEN Append(told, n) ELSE told
<1>1. /\ style = "service" /\ buffer # <<>> /\ reported' = reported \o more
      /\ files' = ForgetFile(files, e)
      /\ leftover' = leftover \cap DOMAIN files'
      /\ dropped' = (IF known THEN dropped ELSE dropped \cup {e.id})
      /\ unheard' = unheard \cup Overtaken(e, files) /\ erased' = erased \cup Mistaken(e)
      /\ UNCHANGED <<style, watches, lastWd, kqueue, happened, adding, stale>>
  BY DEF ServiceNotify, kernel
<1>2. IF known /\ ck # <<>> /\ k = Len(buffer)
      THEN PutBack(ck, files') /\ cookies' = <<>>
      ELSE buffer' = SubSeq(buffer, k + 1, Len(buffer)) /\ cookies' = ck
  BY DEF ServiceNotify
<1>3. InotifyTypes /\ buffer \in Seq(Event) /\ reported \in Seq(Notice)
  BY DEF InotifyInv, InotifyTypes
<1>4. k \in 1..Len(buffer) /\ \A j \in 1..(k - 1) : GoesOn(j)
  BY <1>1, LastTakenIs
<1>5. /\ IsFiniteSet(DOMAIN Stored(k)) /\ Stored(k) \in [DOMAIN Stored(k) -> Notice]
      /\ DOMAIN Stored(k) = DOMAIN cookies \cup {buffer[i].cookie : i \in 1..(k - 1)}
      /\ \A c \in DOMAIN Stored(k) :
           /\ Stored(k)[c].kind = "move"
           /\ \/ /\ Stored(k)[c].id \in Ids(reported)
                 /\ Stored(k)[c].path = Stored(k)[c].was \/ Old(Stored(k)[c].id)
              \/ k > 1 /\ Stored(k)[c] = Report(buffer[1], files)
  <2> HIDE DEF k
  <2> QED
    BY <1>4, StoredIs
<1>6. both => e.cookie \in DOMAIN Stored(k)
  BY <1>5 DEF Paired
<1> HIDE DEF k
<1>7. k \in Nat /\ k >= 1 /\ Len(buffer) \in Nat /\ m \in Nat /\ m <= k
  BY <1>3, <1>4
<1>8. \A i \in 1..m : i \in 1..k /\ i \in 1..Len(buffer) /\ buffer[i].wd \in DOMAIN files
  <2>1. SUFFICES ASSUME NEW i \in 1..m PROVE i \in 1..k /\ i \in 1..Len(buffer) /\ buffer[i].wd \in DOMAIN files
    OBVIOUS
  <2>2. i \in 1..k /\ i \in 1..Len(buffer)
    BY <1>4, <1>7
  <2>3. CASE i \in 1..(k - 1)
    BY <1>4, <2>2, <2>3 DEF GoesOn
  <2>4. CASE i = k
    BY <1>7, <2>1, <2>2, <2>4
  <2> QED
    BY <1>7, <2>2, <2>3, <2>4
\* the queue, untouched or written back
<1>9. \/ Untouched(buffer)
      \/ k = 1 /\ ~Paired(1) /\ \A f \in ToSet(buffer) : f.id \in Ids(reported)
  <2>1. SUFFICES ASSUME \A f \in ToSet(buffer) : Again(f) /\ f.id \in Ids(reported)
                 PROVE  k = 1 /\ ~Paired(1)
    BY DEF InotifyInv, QueuesInv
  <2>2. buffer[1] \in ToSet(buffer)
    BY <1>3, <1>4, <1>7, ToSetPlaces
  <2>3. ~IsMove(buffer[1])
    BY <2>1, <2>2 DEF Again, IsMove
  <2>4. ~Paired(1) /\ ~GoesOn(1)
    BY <2>3 DEF Paired, GoesOn
  <2>5. 1 \notin 1..(k - 1)
    BY <1>4, <2>4
  <2> QED
    BY <1>7, <2>4, <2>5
\* the notices
<1>10. \A i \in 1..m : /\ told[i] \in Notice /\ told[i].id = buffer[i].id
                       /\ told[i].path = told[i].was \/ told[i].old \/ Old(told[i].id)
  <2>1. SUFFICES ASSUME NEW i \in 1..m
                 PROVE  /\ told[i] \in Notice /\ told[i].id = buffer[i].id
                        /\ told[i].path = told[i].was \/ told[i].old \/ Old(told[i].id)
    OBVIOUS
  <2>2. told[i] = Report(buffer[i], files)
    OBVIOUS
  <2>3. buffer[i] \in ToSet(buffer) /\ buffer[i].wd \in DOMAIN files
    BY <1>3, <1>8, ToSetPlaces
  <2> HIDE DEF told
  <2> QED
    BY <2>2, <2>3, ReportOf
<1>11. told \in Seq(Notice) /\ Len(told) = m
  <2>1. \A i \in 1..m : Report(buffer[i], files) \in Notice
    BY <1>10
  <2> HIDE DEF m
  <2> QED
    BY <1>7, <2>1
<1>12. both => n \in Notice
  BY <1>5, <1>6
<1>13. k > 1 => 1 \in 1..m /\ told[1] = Report(buffer[1], files)
  BY <1>7
<1> HIDE DEF n, told
<1>14. /\ more \in Seq(Notice) /\ (both => Len(more) = m + 1 /\ more[m + 1] = n) /\ (~both => Len(more) = m)
       /\ \A i \in 1..m : more[i] = told[i]
  <2>1. CASE both
    <3>1. more = Append(told, n)
      BY <2>1
    <3>2. n \in Notice
      BY <1>12, <2>1
    <3> HIDE DEF m, more, both
    <3>3. /\ Append(told, n) \in Seq(Notice) /\ Len(Append(told, n)) = m + 1 /\ Append(told, n)[m + 1] = n
          /\ \A i \in 1..m : Append(told, n)[i] = told[i]
      BY <1>11, <3>2
    <3> QED
      BY <2>1, <3>1, <3>3
  <2>2. CASE ~both
    <3>1. more = told
      BY <2>2
    <3> HIDE DEF m, more, both
    <3> QED
      BY <1>11, <2>2, <3>1
  <2> QED
    BY <2>1, <2>2
<1>15. both => /\ m = k
               /\ \/ n.id \in Ids(reported) /\ (n.path = n.was \/ Old(n.id))
                  \/ k > 1 /\ n = told[1]
  <2>1. SUFFICES ASSUME both
                 PROVE  /\ m = k
                        /\ \/ n.id \in Ids(reported) /\ (n.path = n.was \/ Old(n.id))
                           \/ k > 1 /\ n = told[1]
    OBVIOUS
  <2>2. m = k /\ e.cookie \in DOMAIN Stored(k)
    BY <1>6, <2>1
  <2>3. \/ n.id \in Ids(reported) /\ (n.path = n.was \/ Old(n.id))
        \/ k > 1 /\ n = Report(buffer[1], files)
    BY <1>5, <2>2 DEF n
  <2> QED
    BY <1>13, <2>2, <2>3
<1> HIDE DEF more
<1>16. \A j \in 1..Len(more) : j \in 1..m \/ (both /\ j = m + 1)
  <2>1. CASE both
    <3>1. Len(more) = m + 1
      BY <1>14, <2>1
    <3> HIDE DEF m, both
    <3> QED
      BY <1>7, <2>1, <3>1
  <2>2. CASE ~both
    BY <1>14, <2>2
  <2> QED
    BY <2>1, <2>2
<1>17. ~both \/ Untouched(buffer)
  BY <1>9
<1> HIDE DEF m, both
<1>18. ASSUME NEW j \in 1..Len(more)
       PROVE  \/ /\ \A r \in ToSet(reported) : r.id < more[j].id
                 /\ \A i \in 1..(j - 1) : more[i].id < more[j].id
              \/ /\ style = "service"
                 /\ more[j].id \in Ids(reported) \/ \E i \in 1..(j - 1) : more[i].id = more[j].id
  <2>1. CASE j \in 1..m /\ Untouched(buffer)
    <3>1. more[j].id = buffer[j].id /\ buffer[j] \in ToSet(buffer)
      BY <1>3, <1>8, <1>10, <1>14, <2>1, ToSetPlaces
    <3>2. \A r \in ToSet(reported) : r.id < more[j].id
      BY <2>1, <3>1 DEF Untouched, Before
    <3>3. ASSUME NEW i \in 1..(j - 1) PROVE more[i].id < more[j].id
      <4>1. i \in 1..m /\ i < j
        BY <1>7, <2>1, <3>3
      <4>2. i \in DOMAIN buffer /\ j \in DOMAIN buffer
        BY <1>3, <1>8, <2>1, <4>1
      <4>3. more[i].id = buffer[i].id
        BY <1>10, <1>14, <4>1
      <4> QED
        BY <2>1, <3>1, <4>1, <4>2, <4>3 DEF Untouched, Increasing
    <3> QED
      BY <3>2, <3>3
  <2>2. CASE j \in 1..m /\ ~Untouched(buffer)
    <3>1. more[j].id = buffer[j].id /\ buffer[j] \in ToSet(buffer)
      BY <1>3, <1>8, <1>10, <1>14, <2>2, ToSetPlaces
    <3> QED
      BY <1>1, <1>9, <2>2, <3>1
  <2>3. CASE both /\ j = m + 1
    <3>1. more[j] = n
      BY <1>14, <2>3
    <3>2. CASE n.id \in Ids(reported)
      BY <1>1, <3>1, <3>2
    <3>3. CASE k > 1 /\ n = told[1]
      <4>1. 1 \in 1..m /\ more[1] = n
        BY <1>13, <1>14, <3>3
      <4>2. 1 \in 1..(j - 1)
        BY <1>7, <2>3, <4>1
      <4> QED
        BY <1>1, <3>1, <4>1, <4>2
    <3> QED
      BY <1>15, <2>3, <3>2, <3>3
  <2> QED
    BY <1>16, <2>1, <2>2, <2>3
<1>19. ASSUME NEW j \in 1..Len(more)
       PROVE  \/ more[j].path = more[j].was
              \/ Old(more[j].id)
              \/ \E i \in 1..j : more[i].id = more[j].id /\ more[i].old
  <2>1. j \in 1..j
    OBVIOUS
  <2>2. CASE j \in 1..m
    <3>1. more[j] = told[j] /\ (told[j].path = told[j].was \/ told[j].old \/ Old(told[j].id))
      BY <1>10, <1>14, <2>2
    <3> QED
      BY <2>1, <3>1, Zenon
  <2>3. CASE both /\ j = m + 1
    <3>1. more[j] = n
      BY <1>14, <2>3
    <3>2. CASE n.path = n.was \/ Old(n.id)
      BY <3>1, <3>2
    <3>3. CASE k > 1 /\ n = told[1]
      <4>1. 1 \in 1..m /\ more[1] = n
        BY <1>13, <1>14, <3>3
      <4>2. 1 \in 1..j
        BY <1>7, <2>3, <4>1
      <4>3. n.path = n.was \/ n.old \/ Old(n.id)
        BY <1>10, <3>3, <4>1
      <4> QED
        BY <3>1, <4>1, <4>2, <4>3, Zenon
    <3> QED
      BY <1>15, <2>3, <3>2, <3>3
  <2> QED
    BY <1>16, <2>2, <2>3
<1>20. /\ reported' \in Seq(Notice) /\ ToSet(reported') = ToSet(reported) \cup ToSet(more)
       /\ RightPath' /\ InOrder'
  <2>1. style' = style /\ reported' = reported \o more /\ more \in Seq(Notice)
    BY <1>1, <1>14
  <2> QED
    BY <1>18, <1>19, <2>1, ReportsGrow
\* what the events have become
<1>21. \A r \in ToSet(more) : r.id \in Ids(reported) \cup Ids(SubSeq(buffer, 1, k))
  <2> DEFINE u == SubSeq(buffer, 1, k)
  <2>1. /\ u \in Seq(Event) /\ Len(u) = k /\ \A i \in 1..k : u[i] = buffer[i]
    <3>1. k \in 0..Len(buffer) /\ buffer \in Seq(Event)
      BY <1>3, <1>4, <1>7
    <3> QED
      BY ONLY <3>1, CutTwo
  <2> HIDE DEF u
  <2>2. \A i \in 1..m : told[i].id \in Ids(u)
    <3>1. DOMAIN u = 1..k
      BY <2>1
    <3> QED
      BY <1>8, <1>10, <2>1, <3>1 DEF Ids
  <2>3. TAKE r \in ToSet(more)
  <2>4. PICK j \in 1..Len(more) : more[j] = r
    BY <1>14, ToSetPlaces
  <2>5. CASE j \in 1..m
    BY <1>14, <2>2, <2>4, <2>5 DEF u
  <2>6. CASE both /\ j = m + 1
    <3>1. r = n
      BY <1>14, <2>4, <2>6
    <3> QED
      BY <1>13, <1>15, <2>2, <2>6, <3>1 DEF u
  <2> QED
    BY <1>16, <2>5, <2>6
<1>22. \A j \in 1..k : buffer[j].id \in Ids(more) \/ (j = k /\ e.wd \notin DOMAIN files)
  <2>1. \A j \in 1..m : j \in DOMAIN more
    <3>1. Len(more) \in Nat /\ Len(more) >= m /\ DOMAIN more = 1..Len(more)
      BY <1>7, <1>14
    <3> QED
      BY <1>7, <3>1
  <2>2. ASSUME NEW j \in 1..m PROVE buffer[j].id \in Ids(more)
    <3>1. more[j].id = buffer[j].id /\ j \in DOMAIN more
      BY <1>10, <1>14, <2>1
    <3> QED
      BY <3>1 DEF Ids
  <2>3. \A j \in 1..k : j \in 1..m \/ (j = k /\ ~known)
    BY <1>7 DEF m
  <2> QED
    BY <2>2, <2>3
<1>23. /\ DOMAIN files' = DOMAIN files \ Forgotten(e) /\ files' \in [DOMAIN files' -> Paths]
       /\ \A w \in DOMAIN files' : files'[w] = files[w]
  <2>1. files' = ForgetFile(files, e)
    BY <1>1
  <2> HIDE DEF e
  <2> QED
    BY <2>1, ForgetFiles
<1> DEFINE OldNow(x) == \E r \in ToSet(reported') : r.id = x /\ r.old
<1>24. Ids(reported') = Ids(reported) \cup Ids(more) /\ \A x : Old(x) => OldNow(x)
  BY <1>20, IdsOf DEF Old
<1> HIDE DEF OldNow
<1>25. ASSUME NEW c \in DOMAIN Stored(k)
       PROVE  /\ Stored(k)[c].kind = "move" /\ Stored(k)[c].id \in Ids(reported')
              /\ Stored(k)[c].path = Stored(k)[c].was \/ OldNow(Stored(k)[c].id)
  <2> DEFINE s == Stored(k)[c]
  <2>1. /\ s.kind = "move"
        /\ \/ s.id \in Ids(reported) /\ (s.path = s.was \/ Old(s.id))
           \/ k > 1 /\ s = Report(buffer[1], files)
    BY <1>5
  <2> HIDE DEF s
  <2>2. CASE s.id \in Ids(reported) /\ (s.path = s.was \/ Old(s.id))
    BY <1>24, <2>1, <2>2 DEF s
  <2>3. CASE k > 1 /\ s = Report(buffer[1], files)
    <3>1. 1 \in 1..m /\ s = told[1] /\ more[1] = s
      BY <1>13, <1>14, <2>3
    <3>2. s.id \in Ids(more) /\ s \in ToSet(more)
      <4>1. 1 \in 1..k /\ ~(1 = k)
        BY <1>7, <2>3
      <4>2. s.id \in Ids(more)
        BY <1>10, <1>22, <3>1, <4>1
      <4>3. 1 \in 1..Len(more)
        BY <1>7, <1>14, <3>1
      <4> QED
        BY <1>14, <3>1, <4>2, <4>3, ToSetPlaces
    <3>3. s.path = s.was \/ s.old \/ Old(s.id)
      BY <1>10, <3>1
    <3>4. s.old => OldNow(s.id)
      <4>1. s \in ToSet(reported')
        BY <1>20, <3>2
      <4> QED
        BY <4>1 DEF OldNow
    <3> QED
      BY <1>24, <2>1, <3>2, <3>3, <3>4 DEF s
  <2> QED
    BY <2>1, <2>2, <2>3
<1>26. /\ IsFiniteSet(DOMAIN ck) /\ ck \in [DOMAIN ck -> Notice]
       /\ \A c \in DOMAIN ck : c \in DOMAIN Stored(k) /\ ck[c] = Stored(k)[c]
  <2>1. CASE both
    <3> DEFINE w == Without(Stored(k), e.cookie)
    <3>1. ck = w
      BY <2>1
    <3>2. DOMAIN w = DOMAIN Stored(k) \ {e.cookie} /\ \A c \in DOMAIN Stored(k) : c # e.cookie => w[c] = Stored(k)[c]
      BY WithoutKey
    <3>3. w \in [DOMAIN w -> Notice]
      BY <1>5, WithoutType
    <3> HIDE DEF w, ck
    <3>4. IsFiniteSet(DOMAIN w)
      BY <1>5, <3>2, FS_Subset
    <3> QED
      BY <3>1, <3>2, <3>3, <3>4
  <2>2. CASE ~both
    <3>1. ck = Stored(k)
      BY <2>2
    <3> HIDE DEF ck
    <3> QED
      BY <1>5, <3>1
  <2> QED
    BY <2>1, <2>2
<1> HIDE DEF ck
<1>27. \A c \in DOMAIN ck : /\ ck[c].kind = "move" /\ ck[c].id \in Ids(reported')
                            /\ ck[c].path = ck[c].was \/ OldNow(ck[c].id)
  BY <1>25, <1>26
<1>28. CASE known /\ ck # <<>> /\ k = Len(buffer)
  <2>1. PutBack(ck, files') /\ cookies' = <<>>
    BY <1>2, <1>28
  <2>2. DOMAIN files' \subseteq Wds
    BY <1>3, <1>23 DEF InotifyTypes
  <2>3. \A c \in DOMAIN ck : ck[c].kind = "move"
    BY <1>27
  <2>4. /\ buffer' \in Seq(Event)
        /\ \A f \in ToSet(buffer') :
             /\ Again(f) /\ f.wd \in DOMAIN files'
             /\ \E c \in DOMAIN ck : f.id = ck[c].id /\ f.was = ck[c].was /\ files'[f.wd] = ck[c].path
    BY <1>23, <1>26, <2>1, <2>2, <2>3, PutBackIs
  <2>5. \A f \in ToSet(buffer') : /\ Again(f) /\ f.id \in Ids(reported') /\ f.wd \in DOMAIN files'
                                  /\ files'[f.wd] = f.was \/ Old(f.id)'
    <3>1. TAKE f \in ToSet(buffer')
    <3>2. PICK c \in DOMAIN ck : f.id = ck[c].id /\ f.was = ck[c].was /\ files'[f.wd] = ck[c].path
      BY <2>4
    <3>3. Again(f) /\ f.wd \in DOMAIN files'
      BY <2>4
    <3>4. ck[c].id \in Ids(reported') /\ (ck[c].path = ck[c].was \/ OldNow(ck[c].id))
      BY <1>27
    <3>5. OldNow(f.id) = Old(f.id)'
      BY DEF OldNow, Old
    <3> QED
      BY <3>2, <3>3, <3>4, <3>5
  <2>6. IsFiniteSet(DOMAIN cookies') /\ cookies' \in [DOMAIN cookies' -> Notice] /\ CookieInv'
    BY <2>1, EmptySet, FS_EmptySet DEF CookieInv
  <2>7. \A j \in 1..(k - 1) : buffer[j].kind # "ignored"
    BY <1>4 DEF GoesOn, IsMove
  <2> QED
    BY <1>1, <1>4, <1>14, <1>20, <1>21, <1>22, <1>23, <1>28, <2>4, <2>5, <2>6, <2>7, TakenKeeps
<1>29. CASE ~(known /\ ck # <<>> /\ k = Len(buffer))
  <2>1. buffer' = SubSeq(buffer, k + 1, Len(buffer)) /\ cookies' = ck
    BY <1>2, <1>29
  <2>2. IsFiniteSet(DOMAIN cookies') /\ cookies' \in [DOMAIN cookies' -> Notice] /\ CookieInv'
    BY <1>26, <1>27, <2>1 DEF CookieInv, OldNow, Old
  <2>3. \A j \in 1..(k - 1) : buffer[j].kind # "ignored"
    BY <1>4 DEF GoesOn, IsMove
  <2> QED
    BY <1>1, <1>4, <1>14, <1>20, <1>21, <1>22, <1>23, <2>1, <2>2, <2>3, TakenKeeps
<1> QED
  BY <1>28, <1>29

-----------------------------------------------------------------------------
(***************************************************************************)
(* inotify: the theorems.                                                  *)
(***************************************************************************)
\* The invariant holds, for every number of paths, descriptors and events.
THEOREM InotifyInvariant == InotifySpec => []InotifyInv
<1>1. InotifyInit => InotifyInv
  BY InotifyStart
<1>2. InotifyInv /\ [InotifyNext]_inotifyVars => InotifyInv'
  <2> SUFFICES ASSUME InotifyInv, [InotifyNext]_inotifyVars PROVE InotifyInv'
    OBVIOUS
  <2>1. CASE OpenAndStart \/ ServiceOpen
    BY <2>1, OpenKeeps DEF OpenAndStart, ServiceOpen
  <2>2. CASE CloseInotify \/ ServiceClose
    BY <2>2, CloseKeeps DEF CloseInotify, ServiceClose
  <2>3. CASE AddEmplace
    BY <2>3, AddEmplaceKeeps
  <2>4. CASE ReadEvents
    BY <2>4, ReadEventsKeeps
  <2>5. ASSUME NEW p \in Paths, AddWatch(p) PROVE InotifyInv'
    BY <2>5, AddWatchKeeps
  <2>6. ASSUME NEW p \in Paths, RemoveWatch(p) \/ ServiceRemove(p) PROVE InotifyInv'
    BY <2>6, RemoveKeeps DEF RemoveWatch, ServiceRemove
  <2>7. ASSUME NEW w \in 1..MaxWd, KernelEvent(w) PROVE InotifyInv'
    BY <2>7, KernelKeeps
  <2>8. CASE ListenerNotify
    BY <2>8, ListenerKeeps
  <2>9. CASE ServiceNotify
    BY <2>9, ServiceKeeps
  <2>10. CASE UNCHANGED inotifyVars
    BY <2>10, SeenKeeps DEF inotifyVars, Seen
  <2> QED
    BY <2>1, <2>2, <2>3, <2>4, <2>5, <2>6, <2>7, <2>8, <2>9, <2>10 DEF InotifyNext
<1> QED
  BY <1>1, <1>2, PTL DEF InotifySpec

\* A live watch is in files_, or about to be entered by add(), or an IN_IGNORED that
\* close() left in the buffer took its entry; an entry of files_ is a live watch,
\* waits for its IN_IGNORED, was left by close(), or is one whose IN_IGNORED
\* overtook add() (inotify_listener.hpp:69-111, 148-154).
THEOREM InotifyFollows == InotifySpec => []FilesFollowKernel
<1>1. InotifyInv => FilesFollowKernel
  BY DEF InotifyInv
<1> QED
  BY <1>1, InotifyInvariant, PTL

\* Every event of a watch in files_ is reported, in the order of the kernel and, but
\* for what close() left behind, under the path that was watched; by the listener
\* once, by the service for the first time (inotify_listener.hpp:121-155,
\* inotify_service.hpp:181-184, 298-348).
THEOREM InotifyReported == InotifySpec => []EventsReported
<1>1. InotifyInv => EventsReported
  BY DEF InotifyInv, EventsReported, DeliveredInOrder, Accounted, InOrder
<1> QED
  BY <1>1, InotifyInvariant, PTL

-----------------------------------------------------------------------------
(***************************************************************************)
(* netlink: counting.                                                      *)
(***************************************************************************)
\* The places of a sequence that hold a value.
Times(s, c) == {i \in DOMAIN s : s[i] = c}

LEMMA TimesFinite ==
  ASSUME NEW S, NEW s \in Seq(S), NEW c
  PROVE  IsFiniteSet(Times(s, c)) /\ Cardinality(Times(s, c)) \in Nat
<1>1. Len(s) \in Nat /\ DOMAIN s = 1..Len(s)
  OBVIOUS
<1>2. IsFiniteSet(1..Len(s))
  BY <1>1, FS_Interval
<1>3. Times(s, c) \subseteq 1..Len(s)
  BY <1>1 DEF Times
<1>4. IsFiniteSet(Times(s, c))
  BY <1>2, <1>3, FS_Subset
<1> QED
  BY <1>4, FS_CardinalityType

\* Moving a set of numbers does not change how many they are.
LEMMA Moved ==
  ASSUME NEW n \in Nat, NEW T \in SUBSET Nat, IsFiniteSet(T)
  PROVE  IsFiniteSet({n + j : j \in T}) /\ Cardinality({n + j : j \in T}) = Cardinality(T)
<1> DEFINE U == {n + j : j \in T}
           f == [j \in T |-> n + j]
<1>1. f \in Bijection(T, U)
  <2>1. f \in [T -> U]
    OBVIOUS
  <2>2. \A a, b \in T : f[a] = f[b] => a = b
    OBVIOUS
  <2>3. \A u \in U : \E a \in T : f[a] = u
    OBVIOUS
  <2> HIDE DEF U, f
  <2> QED
    BY <2>1, <2>2, <2>3 DEF Bijection, Injection, Surjection, IsInjective
<1> HIDE DEF U, f
<1>2. IsFiniteSet(U) /\ Cardinality(U) = Cardinality(T)
  <2>1. ExistsBijection(T, U)
    BY <1>1 DEF ExistsBijection
  <2> QED
    BY <2>1, FS_Bijection
<1> QED
  BY <1>2 DEF U

\* A value stands in a concatenation as often as in the two parts.
LEMMA TimesConcat ==
  ASSUME NEW S, NEW s \in Seq(S), NEW t \in Seq(S), NEW c
  PROVE  Cardinality(Times(s \o t, c)) = Cardinality(Times(s, c)) + Cardinality(Times(t, c))
<1> DEFINE A == Times(s, c)
           B == Times(t, c)
           n == Len(s)
           U == {n + j : j \in B}
<1>1. n \in Nat /\ Len(t) \in Nat /\ DOMAIN s = 1..n /\ DOMAIN t = 1..Len(t)
  OBVIOUS
<1>2. /\ DOMAIN (s \o t) = 1..(n + Len(t))
      /\ \A i \in 1..n : (s \o t)[i] = s[i]
      /\ \A i \in 1..Len(t) : (s \o t)[n + i] = t[i]
  <2>1. /\ s \o t \in Seq(S) /\ Len(s \o t) = n + Len(t)
        /\ \A i \in 1..n : (s \o t)[i] = s[i]
        /\ \A i \in 1..Len(t) : (s \o t)[n + i] = t[i]
    BY Concat
  <2>2. DOMAIN (s \o t) = 1..Len(s \o t)
    BY <2>1
  <2> QED
    BY <2>1, <2>2
<1>3. /\ IsFiniteSet(A) /\ Cardinality(A) \in Nat /\ IsFiniteSet(B) /\ Cardinality(B) \in Nat
      /\ A \subseteq 1..n /\ B \subseteq 1..Len(t) /\ B \in SUBSET Nat
  <2>1. A \subseteq 1..n /\ B \subseteq 1..Len(t) /\ B \in SUBSET Nat
    BY <1>1 DEF Times
  <2> QED
    BY <2>1, TimesFinite
<1> DEFINE q == s \o t
<1> HIDE DEF q, n
<1>4. Times(q, c) = A \cup U
  <2>1. ASSUME NEW i \in Times(q, c) PROVE i \in A \cup U
    <3>1. i \in 1..(n + Len(t)) /\ q[i] = c
      BY <1>2 DEF Times, q
    <3>2. CASE i <= n
      <4>1. i \in 1..n
        BY <1>1, <3>1, <3>2
      <4> QED
        BY <1>1, <1>2, <3>1, <4>1 DEF Times, q
    <3>3. CASE i > n
      <4>1. i - n \in 1..Len(t) /\ n + (i - n) = i
        BY <1>1, <3>1, <3>3
      <4>2. t[i - n] = c
        BY <1>2, <3>1, <4>1 DEF q
      <4>3. i - n \in B
        BY <1>1, <4>1, <4>2 DEF Times
      <4> QED
        BY <4>1, <4>3
    <3> QED
      BY <1>1, <3>1, <3>2, <3>3
  <2>2. ASSUME NEW i \in A PROVE i \in Times(q, c)
    <3>1. i \in 1..n /\ s[i] = c /\ i \in 1..(n + Len(t))
      BY <1>1, <1>3 DEF Times
    <3> QED
      BY <1>2, <3>1 DEF Times, q
  <2>3. ASSUME NEW j \in B PROVE n + j \in Times(q, c)
    <3>1. j \in 1..Len(t) /\ t[j] = c /\ n + j \in 1..(n + Len(t))
      BY <1>1, <1>3 DEF Times
    <3> QED
      BY <1>2, <3>1 DEF Times, q
  <2> QED
    BY <2>1, <2>2, <2>3
<1>5. IsFiniteSet(U) /\ Cardinality(U) = Cardinality(B)
  <2> HIDE DEF B
  <2> QED
    BY <1>1, <1>3, Moved
<1>6. A \cap U = {}
  <2>1. \A j \in B : n + j > n
    BY <1>1, <1>3
  <2>2. \A i \in A : i <= n
    BY <1>1, <1>3
  <2> QED
    BY <1>1, <1>3, <2>1, <2>2
<1> HIDE DEF A, B, U
<1>7. Cardinality(A \cup U) = Cardinality(A) + Cardinality(U) - Cardinality(A \cap U)
  BY <1>3, <1>5, FS_Union
<1>8. Cardinality(A \cap U) = 0
  BY <1>6, FS_EmptySet
<1>9. Cardinality(Times(q, c)) = Cardinality(A) + Cardinality(B)
  BY <1>3, <1>4, <1>5, <1>7, <1>8
<1> QED
  BY <1>9 DEF q, A, B

\* One value, or none.
LEMMA TimesOne ==
  ASSUME NEW b \in BOOLEAN, NEW x, NEW c
  PROVE  Cardinality(Times(IF b THEN <<x>> ELSE <<>>, c)) = IF b /\ x = c THEN 1 ELSE 0
<1>1. CASE b /\ x = c
  <2>1. Times(IF b THEN <<x>> ELSE <<>>, c) = {1}
    BY <1>1 DEF Times
  <2> QED
    BY <1>1, <2>1, FS_Singleton
<1>2. CASE ~(b /\ x = c)
  <2>1. Times(IF b THEN <<x>> ELSE <<>>, c) = {}
    BY <1>2 DEF Times
  <2> QED
    BY <1>2, <2>1, FS_EmptySet
<1> QED
  BY <1>1, <1>2

\* Sequences put together, one or two of them.
LEMMA FlattenOne ==
  ASSUME NEW a
  PROVE  FlattenSeq(<<a>>) = a
<1> DEFINE def(f) == f = [i \in 1..Len(<<a>>) |-> IF i = 1 THEN <<a>>[i] ELSE f[i - 1] \o <<a>>[i]]
           g == [i \in {1} |-> a]
<1>1. Len(<<a>>) = 1 /\ <<a>>[1] = a /\ 1..1 = {1}
  OBVIOUS
<1>2. def(g)
  BY <1>1
<1>3. def(CHOOSE f : def(f))
  <2> HIDE DEF def, g
  <2> QED
    BY <1>2
<1>4. (CHOOSE f : def(f))[1] = a
  <2> DEFINE h == CHOOSE f : def(f)
  <2> HIDE DEF h
  <2>1. h = [i \in 1..Len(<<a>>) |-> IF i = 1 THEN <<a>>[i] ELSE h[i - 1] \o <<a>>[i]]
    BY <1>3 DEF h
  <2>2. h[1] = a
    BY ONLY <1>1, <2>1
  <2> QED
    BY <2>2 DEF h
<1>5. FlattenSeq(<<a>>) = (CHOOSE f : def(f))[Len(<<a>>)]
  BY <1>1 DEF FlattenSeq
<1> HIDE DEF def
<1> QED
  BY <1>1, <1>4, <1>5

LEMMA FlattenTwo ==
  ASSUME NEW a, NEW b
  PROVE  FlattenSeq(<<a, b>>) = a \o b
<1> DEFINE s == <<a, b>>
           def(f) == f = [i \in 1..Len(s) |-> IF i = 1 THEN s[i] ELSE f[i - 1] \o s[i]]
           g == [i \in {1, 2} |-> IF i = 1 THEN a ELSE a \o b]
<1>1. Len(s) = 2 /\ s[1] = a /\ s[2] = b /\ 1..2 = {1, 2}
  OBVIOUS
<1>2. def(g)
  <2>1. \A i \in {1, 2} : g[i] = IF i = 1 THEN s[i] ELSE g[i - 1] \o s[i]
    BY <1>1
  <2> HIDE DEF s
  <2> QED
    BY <1>1, <2>1
<1>3. def(CHOOSE f : def(f))
  <2> HIDE DEF def, g
  <2> QED
    BY <1>2
<1> HIDE DEF s
<1>4. (CHOOSE f : def(f))[2] = a \o b
  <2> DEFINE h == CHOOSE f : def(f)
  <2> HIDE DEF h
  <2>1. h = [i \in 1..Len(s) |-> IF i = 1 THEN s[i] ELSE h[i - 1] \o s[i]]
    BY <1>3 DEF h
  <2>2. h[1] = a
    BY ONLY <1>1, <2>1
  <2>3. h[2] = h[1] \o b
    <3>1. 2 \in 1..Len(s) /\ 2 # 1 /\ 2 - 1 = 1
      BY ONLY <1>1
    <3>2. h[2] = IF 2 = 1 THEN s[2] ELSE h[2 - 1] \o s[2]
      BY ONLY <2>1, <3>1, Zenon
    <3> QED
      BY ONLY <1>1, <3>1, <3>2
  <2> QED
    BY <2>2, <2>3 DEF h
<1>5. FlattenSeq(s) = (CHOOSE f : def(f))[Len(s)]
  BY <1>1 DEF FlattenSeq
<1> HIDE DEF def
<1> QED
  BY <1>1, <1>4, <1>5 DEF s

LEMMA FlattenNone == FlattenSeq(<<>>) = <<>>
BY DEF FlattenSeq

-----------------------------------------------------------------------------
(***************************************************************************)
(* netlink: what a message is reported as.                                 *)
(***************************************************************************)
NlMessages == LinkMsgs \cup AddrMsgs
NlCalls == {"on_link", "on_stats", "on_ifaddr", "on_neighbor"} \X NlMessages
NlEnds == {EndMsg, CutMsg}

\* The calls that the derived class has asked for.
Asked(f, m) ==
  /\ m.new /\ m.family # "bridge" /\ Tag(<<f, m>>) \in category
  /\ m.kind = (CASE f \in {"on_link", "on_stats"} -> "link" [] f = "on_ifaddr" -> "ifaddr"
                 [] f = "on_neighbor" -> "neighbor")
  /\ f = "on_stats" => m.stats

Dispatched(x) == DispatchLink(x) \o DispatchIfaddr(x) \o DispatchNeighbor(x)

LEMMA ReceivedIs ==
  ASSUME NEW x \in Received
  PROVE  /\ x \in NlMessages /\ x \notin NlEnds
         /\ x.kind \in {"link", "ifaddr", "neighbor"} /\ x.new \in BOOLEAN /\ x.stats \in BOOLEAN
         /\ x.kind = "link" => x.family \in {"unspec", "bridge"}
<1>1. x \in NlMessages
  BY DEF Received, NlMessages
<1>2. CASE x \in LinkMsgs
  <2>1. \E n, b \in BOOLEAN, f \in {"unspec", "bridge"} : x = Msg("link", n, f, b)
    BY <1>2 DEF LinkMsgs
  <2> QED
    BY <1>1, <2>1 DEF Msg, NlEnds, EndMsg, CutMsg
<1>3. CASE x \in AddrMsgs
  <2>1. \E k \in {"ifaddr", "neighbor"} : \E b \in BOOLEAN : \E f \in {"v4", "v6"} : x = Msg(k, b, f, FALSE)
    BY <1>3, SMTT(30) DEF AddrMsgs, Msg
  <2> QED
    BY <1>1, <2>1 DEF Msg, NlEnds, EndMsg, CutMsg
<1> QED
  BY <1>1, <1>2, <1>3 DEF NlMessages

\* A value that is there on a condition.
OneIf(b, y) == IF b THEN <<y>> ELSE <<>>

LEMMA OneIfIs ==
  ASSUME NEW S, NEW b \in BOOLEAN, NEW y \in S, NEW c
  PROVE  /\ OneIf(b, y) \in Seq(S)
         /\ Cardinality(Times(OneIf(b, y), c)) = IF b /\ y = c THEN 1 ELSE 0
         /\ \A z \in ToSet(OneIf(b, y)) : b /\ z = y
<1>1. OneIf(b, y) \in Seq(S)
  BY DEF OneIf
<1>2. Cardinality(Times(OneIf(b, y), c)) = IF b /\ y = c THEN 1 ELSE 0
  BY TimesOne DEF OneIf
<1>3. \A z \in ToSet(OneIf(b, y)) : b /\ z = y
  BY DEF OneIf, ToSet
<1> QED
  BY <1>1, <1>2, <1>3

IsLink(x) == x.kind = "link" /\ x.new /\ x.family = "unspec"
LinkOn(x) == IsLink(x) /\ <<"link">> \in category
StatsOn(x) == IsLink(x) /\ <<"stats">> \in category /\ x.stats
IfaddrOn(x) == x.kind = "ifaddr" /\ x.new /\ <<"ifaddr", x.family>> \in category
NeighborOn(x) == x.kind = "neighbor" /\ x.new /\ <<"neighbor", x.family>> \in category

LEMMA DispatchedParts ==
  ASSUME NEW x \in Received
  PROVE  /\ Dispatched(x) = OneIf(LinkOn(x), <<"on_link", x>>) \o OneIf(StatsOn(x), <<"on_stats", x>>)
                              \o OneIf(IfaddrOn(x), <<"on_ifaddr", x>>)
                              \o OneIf(NeighborOn(x), <<"on_neighbor", x>>)
         /\ LinkOn(x) \in BOOLEAN /\ StatsOn(x) \in BOOLEAN /\ IfaddrOn(x) \in BOOLEAN
         /\ NeighborOn(x) \in BOOLEAN
<1>1. x.new \in BOOLEAN /\ x.stats \in BOOLEAN
  BY ReceivedIs
<1>2. LinkOn(x) \in BOOLEAN /\ StatsOn(x) \in BOOLEAN /\ IfaddrOn(x) \in BOOLEAN /\ NeighborOn(x) \in BOOLEAN
  BY <1>1 DEF LinkOn, StatsOn, IfaddrOn, NeighborOn, IsLink
<1>3. DispatchLink(x) = OneIf(LinkOn(x), <<"on_link", x>>) \o OneIf(StatsOn(x), <<"on_stats", x>>)
  <2>1. CASE IsLink(x)
    BY <2>1, Zenon DEF DispatchLink, OneIf, LinkOn, StatsOn, IsLink
  <2>2. CASE ~IsLink(x)
    <3>1. DispatchLink(x) = <<>>
      BY <2>2 DEF DispatchLink, IsLink
    <3>2. OneIf(LinkOn(x), <<"on_link", x>>) = <<>> /\ OneIf(StatsOn(x), <<"on_stats", x>>) = <<>>
      BY <2>2 DEF OneIf, LinkOn, StatsOn
    <3>3. <<>> \o <<>> = <<>>
      OBVIOUS
    <3> QED
      BY <3>1, <3>2, <3>3
  <2> QED
    BY <2>1, <2>2
<1>4. DispatchIfaddr(x) = OneIf(IfaddrOn(x), <<"on_ifaddr", x>>)
  BY DEF DispatchIfaddr, OneIf, IfaddrOn
<1>5. DispatchNeighbor(x) = OneIf(NeighborOn(x), <<"on_neighbor", x>>)
  BY DEF DispatchNeighbor, OneIf, NeighborOn
<1> QED
  BY <1>2, <1>3, <1>4, <1>5 DEF Dispatched

\* Four parts, counted.
LEMMA FourParts ==
  ASSUME NEW S, NEW p \in Seq(S), NEW q \in Seq(S), NEW r \in Seq(S), NEW s \in Seq(S)
  PROVE  /\ p \o q \o r \o s \in Seq(S)
         /\ ToSet(p \o q \o r \o s) = ToSet(p) \cup ToSet(q) \cup ToSet(r) \cup ToSet(s)
         /\ \A c : Cardinality(Times(p \o q \o r \o s, c)) =
              Cardinality(Times(p, c)) + Cardinality(Times(q, c))
              + Cardinality(Times(r, c)) + Cardinality(Times(s, c))
<1> DEFINE a == p \o q
           b == a \o r
           d == b \o s
<1>1. /\ a \in Seq(S) /\ ToSet(a) = ToSet(p) \cup ToSet(q)
      /\ \A c : Cardinality(Times(a, c)) = Cardinality(Times(p, c)) + Cardinality(Times(q, c))
  BY Concat, ConcatSet, TimesConcat
<1> HIDE DEF a
<1>2. /\ b \in Seq(S) /\ ToSet(b) = ToSet(a) \cup ToSet(r)
      /\ \A c : Cardinality(Times(b, c)) = Cardinality(Times(a, c)) + Cardinality(Times(r, c))
  BY <1>1, Concat, ConcatSet, TimesConcat
<1> HIDE DEF b
<1>3. /\ d \in Seq(S) /\ ToSet(d) = ToSet(b) \cup ToSet(s)
      /\ \A c : Cardinality(Times(d, c)) = Cardinality(Times(b, c)) + Cardinality(Times(s, c))
  BY <1>2, Concat, ConcatSet, TimesConcat
<1> HIDE DEF d
<1> QED
  BY <1>1, <1>2, <1>3 DEF d, b, a

\* A message is reported for tags of the derived class only, once for each.
LEMMA DispatchedIs ==
  ASSUME NEW x \in Received
  PROVE  /\ Dispatched(x) \in Seq(NlCalls)
         /\ \A c \in ToSet(Dispatched(x)) : Tag(c) \in category
         /\ \A f \in {"on_link", "on_stats", "on_ifaddr", "on_neighbor"}, m \in Received : Asked(f, m) =>
              Cardinality(Times(Dispatched(x), <<f, m>>)) = IF x = m THEN 1 ELSE 0
<1> DEFINE A == <<"on_link", x>>
           B == <<"on_stats", x>>
           C == <<"on_ifaddr", x>>
           D == <<"on_neighbor", x>>
           p == OneIf(LinkOn(x), A)
           q == OneIf(StatsOn(x), B)
           r == OneIf(IfaddrOn(x), C)
           s == OneIf(NeighborOn(x), D)
<1>1. A \in NlCalls /\ B \in NlCalls /\ C \in NlCalls /\ D \in NlCalls
  BY ReceivedIs DEF NlCalls
<1>2. /\ Dispatched(x) = p \o q \o r \o s
      /\ LinkOn(x) \in BOOLEAN /\ StatsOn(x) \in BOOLEAN /\ IfaddrOn(x) \in BOOLEAN /\ NeighborOn(x) \in BOOLEAN
  BY DispatchedParts
<1> HIDE DEF A, B, C, D
<1>3. p \in Seq(NlCalls) /\ q \in Seq(NlCalls) /\ r \in Seq(NlCalls) /\ s \in Seq(NlCalls)
  BY <1>1, <1>2, OneIfIs
<1>4. /\ \A z \in ToSet(p) : LinkOn(x) /\ z = A
      /\ \A z \in ToSet(q) : StatsOn(x) /\ z = B
      /\ \A z \in ToSet(r) : IfaddrOn(x) /\ z = C
      /\ \A z \in ToSet(s) : NeighborOn(x) /\ z = D
  BY <1>1, <1>2, OneIfIs
<1>5. ASSUME NEW c
      PROVE  /\ Cardinality(Times(p, c)) = IF LinkOn(x) /\ A = c THEN 1 ELSE 0
             /\ Cardinality(Times(q, c)) = IF StatsOn(x) /\ B = c THEN 1 ELSE 0
             /\ Cardinality(Times(r, c)) = IF IfaddrOn(x) /\ C = c THEN 1 ELSE 0
             /\ Cardinality(Times(s, c)) = IF NeighborOn(x) /\ D = c THEN 1 ELSE 0
  <2>1. Cardinality(Times(p, c)) = IF LinkOn(x) /\ A = c THEN 1 ELSE 0
    BY <1>2, TimesOne DEF OneIf
  <2>2. Cardinality(Times(q, c)) = IF StatsOn(x) /\ B = c THEN 1 ELSE 0
    BY <1>2, TimesOne DEF OneIf
  <2>3. Cardinality(Times(r, c)) = IF IfaddrOn(x) /\ C = c THEN 1 ELSE 0
    BY <1>2, TimesOne DEF OneIf
  <2>4. Cardinality(Times(s, c)) = IF NeighborOn(x) /\ D = c THEN 1 ELSE 0
    BY <1>2, TimesOne DEF OneIf
  <2> QED
    BY <2>1, <2>2, <2>3, <2>4
<1> HIDE DEF p, q, r, s
<1>6. Dispatched(x) \in Seq(NlCalls)
  BY <1>2, <1>3, FourParts
<1>7. ASSUME NEW c \in ToSet(Dispatched(x)) PROVE Tag(c) \in category
  <2>1. c \in ToSet(p) \cup ToSet(q) \cup ToSet(r) \cup ToSet(s)
    <3>1. ToSet(p \o q \o r \o s) = ToSet(p) \cup ToSet(q) \cup ToSet(r) \cup ToSet(s)
      BY <1>3, FourParts
    <3> QED
      BY <1>2, <3>1
  <2>2. CASE LinkOn(x) /\ c = A
    BY <2>2 DEF LinkOn, A, Tag
  <2>3. CASE StatsOn(x) /\ c = B
    BY <2>3 DEF StatsOn, B, Tag
  <2>4. CASE IfaddrOn(x) /\ c = C
    BY <2>4 DEF IfaddrOn, C, Tag
  <2>5. CASE NeighborOn(x) /\ c = D
    BY <2>5 DEF NeighborOn, D, Tag
  <2> QED
    BY <1>4, <2>1, <2>2, <2>3, <2>4, <2>5
<1>8. ASSUME NEW f \in {"on_link", "on_stats", "on_ifaddr", "on_neighbor"}, NEW m \in Received, Asked(f, m)
      PROVE  Cardinality(Times(Dispatched(x), <<f, m>>)) = IF x = m THEN 1 ELSE 0
  <2> DEFINE c == <<f, m>>
  <2>1. Cardinality(Times(Dispatched(x), c)) =
          Cardinality(Times(p, c)) + Cardinality(Times(q, c)) + Cardinality(Times(r, c)) + Cardinality(Times(s, c))
    <3> HIDE DEF c
    <3> QED
      BY <1>2, <1>3, FourParts
  <2>2. /\ A = c <=> f = "on_link" /\ x = m
        /\ B = c <=> f = "on_stats" /\ x = m
        /\ C = c <=> f = "on_ifaddr" /\ x = m
        /\ D = c <=> f = "on_neighbor" /\ x = m
    BY DEF A, B, C, D
  <2>3. CASE x # m
    <3>1. A # c /\ B # c /\ C # c /\ D # c
      BY <2>2, <2>3
    <3> HIDE DEF c
    <3>3. Cardinality(Times(p, c)) = 0 /\ Cardinality(Times(q, c)) = 0 /\ Cardinality(Times(r, c)) = 0 /\ Cardinality(Times(s, c)) = 0
      BY <1>5, <3>1
    <3> QED
      BY <2>1, <2>3, <3>3 DEF c
  <2>4. CASE x = m /\ f = "on_link"
    <3>1. LinkOn(x)
      BY <1>8, <2>4, ReceivedIs DEF LinkOn, IsLink, Asked, Tag
    <3>2. A = c /\ B # c /\ C # c /\ D # c
      BY <2>2, <2>4
    <3> HIDE DEF c
    <3>3. Cardinality(Times(p, c)) = 1 /\ Cardinality(Times(q, c)) = 0 /\ Cardinality(Times(r, c)) = 0 /\ Cardinality(Times(s, c)) = 0
      BY <1>5, <3>1, <3>2
    <3> QED
      BY <2>1, <2>4, <3>3 DEF c
  <2>5. CASE x = m /\ f = "on_stats"
    <3>1. StatsOn(x)
      BY <1>8, <2>5, ReceivedIs DEF StatsOn, IsLink, Asked, Tag
    <3>2. A # c /\ B = c /\ C # c /\ D # c
      BY <2>2, <2>5
    <3> HIDE DEF c
    <3>3. Cardinality(Times(p, c)) = 0 /\ Cardinality(Times(q, c)) = 1 /\ Cardinality(Times(r, c)) = 0 /\ Cardinality(Times(s, c)) = 0
      BY <1>5, <3>1, <3>2
    <3> QED
      BY <2>1, <2>5, <3>3 DEF c
  <2>6. CASE x = m /\ f = "on_ifaddr"
    <3>1. IfaddrOn(x)
      BY <1>8, <2>6 DEF IfaddrOn, Asked, Tag
    <3>2. A # c /\ B # c /\ C = c /\ D # c
      BY <2>2, <2>6
    <3> HIDE DEF c
    <3>3. Cardinality(Times(p, c)) = 0 /\ Cardinality(Times(q, c)) = 0 /\ Cardinality(Times(r, c)) = 1 /\ Cardinality(Times(s, c)) = 0
      BY <1>5, <3>1, <3>2
    <3> QED
      BY <2>1, <2>6, <3>3 DEF c
  <2>7. CASE x = m /\ f = "on_neighbor"
    <3>1. NeighborOn(x)
      BY <1>8, <2>7 DEF NeighborOn, Asked, Tag
    <3>2. A # c /\ B # c /\ C # c /\ D = c
      BY <2>2, <2>7
    <3> HIDE DEF c
    <3>3. Cardinality(Times(p, c)) = 0 /\ Cardinality(Times(q, c)) = 0 /\ Cardinality(Times(r, c)) = 0 /\ Cardinality(Times(s, c)) = 1
      BY <1>5, <3>1, <3>2
    <3> QED
      BY <2>1, <2>7, <3>3 DEF c
  <2> QED
    BY <2>3, <2>4, <2>5, <2>6, <2>7
<1> QED
  BY <1>6, <1>7, <1>8

-----------------------------------------------------------------------------
(***************************************************************************)
(* netlink: the walk through a datagram.                                   *)
(***************************************************************************)
LEMMA DatagramIs ==
  ASSUME NEW d \in Datagrams
  PROVE  d \in Seq(Received \cup NlEnds) /\ Len(d) \in 1..2
<1>1. CASE \E m \in Received : d = <<m>>
  <2>1. PICK m \in Received : d = <<m>>
    BY <1>1
  <2>2. <<m>> \in Seq(Received \cup NlEnds) /\ Len(<<m>>) = 1
    OBVIOUS
  <2> QED
    BY <2>1, <2>2
<1>2. CASE \E m, n \in Received \cup NlEnds : d = <<m, n>>
  <2>1. PICK m, n \in Received \cup NlEnds : d = <<m, n>>
    BY <1>2
  <2>2. <<m, n>> \in Seq(Received \cup NlEnds) /\ Len(<<m, n>>) = 2
    OBVIOUS
  <2> QED
    BY <2>1, <2>2
<1> QED
  BY <1>1, <1>2 DEF Datagrams, NlEnds

\* What is walked of a datagram is what stands before an end.
Before2(d, m) == {j \in 1..2 : j \in DOMAIN d /\ d[j] = m /\ \A k \in 1..j : d[k] \notin NlEnds}

LEMMA WalkedIs ==
  ASSUME NEW d \in Datagrams
  PROVE  /\ Walked(d) \in Seq(Received) /\ Len(Walked(d)) \in 0..2
         /\ \A m : Times(Walked(d), m) = Before2(d, m)
<1>1. d \in Seq(Received \cup NlEnds) /\ Len(d) \in 1..2 /\ DOMAIN d = 1..Len(d)
  BY DatagramIs
<1> DEFINE I == {i \in 1..Len(d) : d[i] \in NlEnds}
<1>2. Whole(d) = IF I # {} THEN Min(I) ELSE 0
  BY DEF Whole, SelectInSeq, NlEnds
<1>3. CASE I = {}
  <2>1. Walked(d) = d
    BY <1>2, <1>3 DEF Walked
  <2>2. \A i \in 1..Len(d) : d[i] \in Received /\ d[i] \notin NlEnds
    BY <1>1, <1>3
  <2>3. d \in Seq(Received)
    BY <1>1, <2>2
  <2>4. Len(d) \in 0..2
    BY <1>1
  <2>5. ASSUME NEW m PROVE Times(d, m) = Before2(d, m)
    <3>1. \A j \in 1..Len(d) : j \in 1..2 /\ \A k \in 1..j : k \in 1..Len(d)
      BY <1>1
    <3> QED
      BY <1>1, <2>2, <3>1 DEF Times, Before2
  <2> QED
    BY <2>1, <2>3, <2>4, <2>5
<1>4. CASE I # {}
  <2>1. PICK w \in I : w = Min(I) /\ \A i \in I : w <= i
    <3>1. I \in SUBSET Nat
      BY <1>1
    <3>2. \E x \in I : \A y \in I : x <= y
      <4> HIDE DEF I
      <4> QED
        BY <1>4, <3>1, LeastNumber
    <3> HIDE DEF I
    <3> QED
      BY <3>2 DEF Min
  <2>2. w \in 1..Len(d) /\ d[w] \in NlEnds /\ \A i \in 1..(w - 1) : i \in 1..Len(d) /\ d[i] \notin NlEnds
    <3>1. w \in 1..Len(d) /\ d[w] \in NlEnds
      BY <2>1
    <3>2. \A i \in 1..(w - 1) : i \in 1..Len(d) /\ ~(w <= i)
      BY <1>1, <3>1
    <3> QED
      BY <2>1, <3>1, <3>2
  <2>3. Walked(d) = SubSeq(d, 1, w - 1)
    <3>1. Whole(d) = w /\ w # 0
      BY <1>1, <1>2, <1>4, <2>1, <2>2
    <3> QED
      BY <3>1 DEF Walked
  <2> DEFINE n == w - 1
             v == SubSeq(d, 1, n)
  <2>4. n \in 0..Len(d) /\ n \in 0..2 /\ n + 1 = w
    BY <1>1, <2>2
  <2> HIDE DEF n
  <2>5. v \in Seq(Received \cup NlEnds) /\ Len(v) = n /\ \A i \in 1..n : v[i] = d[i]
    BY <1>1, <2>4, CutTwo
  <2> HIDE DEF v
  <2>6. \A i \in 1..n : d[i] \in Received /\ d[i] \notin NlEnds
    <3>1. \A i \in 1..n : i \in 1..Len(d) /\ d[i] \notin NlEnds
      BY <2>2 DEF n
    <3> QED
      BY <1>1, <3>1
  <2>7. v \in Seq(Received)
    BY <2>4, <2>5, <2>6
  <2>8. ASSUME NEW m PROVE Times(v, m) = Before2(d, m)
    <3>1. DOMAIN v = 1..n
      BY <2>5
    <3>2. ASSUME NEW j \in Times(v, m) PROVE j \in Before2(d, m)
      <4>1. j \in 1..n /\ d[j] = m
        BY <2>5, <3>1 DEF Times
      <4>2. j \in 1..2 /\ j \in 1..Len(d) /\ \A k \in 1..j : k \in 1..n
        BY <1>1, <2>4, <4>1
      <4> QED
        BY <1>1, <2>6, <4>1, <4>2 DEF Before2
    <3>3. ASSUME NEW j \in Before2(d, m) PROVE j \in Times(v, m)
      <4>1. j \in 1..Len(d) /\ d[j] = m /\ \A k \in 1..j : d[k] \notin NlEnds
        BY <1>1 DEF Before2
      <4>2. w \notin 1..j
        BY <2>2, <4>1
      <4>3. j \in 1..n
        BY <1>1, <2>2, <2>4, <4>1, <4>2
      <4> QED
        BY <2>5, <3>1, <4>1, <4>3 DEF Times
    <3> QED
      BY <3>2, <3>3
  <2>9. Walked(d) = v
    BY <2>3 DEF v, n
  <2> QED
    BY <2>4, <2>5, <2>7, <2>8, <2>9
<1> QED
  BY <1>3, <1>4

\* The calls that a walk makes.
CallsOf(w) == FlattenSeq([i \in DOMAIN w |-> Dispatched(w[i])])

LEMMA TimesHere ==
  ASSUME NEW x, NEW c
  PROVE  Cardinality(Times(<<x>>, c)) = IF x = c THEN 1 ELSE 0
<1>1. Cardinality(Times(IF TRUE THEN <<x>> ELSE <<>>, c)) = IF TRUE /\ x = c THEN 1 ELSE 0
  BY TimesOne
<1> QED
  BY <1>1

LEMMA CallsOfIs ==
  ASSUME NEW w \in Seq(Received), Len(w) \in 0..2
  PROVE  /\ CallsOf(w) \in Seq(NlCalls)
         /\ \A c \in ToSet(CallsOf(w)) : Tag(c) \in category
         /\ \A f \in {"on_link", "on_stats", "on_ifaddr", "on_neighbor"}, m \in Received : Asked(f, m) =>
              Cardinality(Times(CallsOf(w), <<f, m>>)) = Cardinality(Times(w, m))
<1>1. CASE Len(w) = 0
  <2>1. w = <<>> /\ DOMAIN w = {}
    BY <1>1
  <2>2. [i \in DOMAIN w |-> Dispatched(w[i])] = <<>>
    BY <2>1
  <2>3. CallsOf(w) = <<>>
    BY <2>2, FlattenNone DEF CallsOf
  <2>4. \A c : Times(<<>>, c) = {}
    BY DEF Times
  <2>5. <<>> \in Seq(NlCalls) /\ ToSet(<<>>) = {}
    BY DEF ToSet
  <2> QED
    BY <2>1, <2>3, <2>4, <2>5
<1>2. CASE Len(w) = 1
  <2> DEFINE x == w[1]
  <2>1. w = <<x>> /\ DOMAIN w = {1} /\ x \in Received
    BY <1>2
  <2>2. [i \in DOMAIN w |-> Dispatched(w[i])] = <<Dispatched(x)>>
    BY <2>1
  <2>3. CallsOf(w) = Dispatched(x)
    BY <2>2, FlattenOne DEF CallsOf
  <2> HIDE DEF x
  <2>4. \A m : Cardinality(Times(w, m)) = IF x = m THEN 1 ELSE 0
    BY <2>1, TimesHere
  <2> QED
    BY <2>1, <2>3, <2>4, DispatchedIs
<1>3. CASE Len(w) = 2
  <2> DEFINE x == w[1]
             y == w[2]
             p == Dispatched(x)
             q == Dispatched(y)
  <2>1. DOMAIN w = 1..2 /\ x \in Received /\ y \in Received
    BY <1>3
  <2>2. w = <<x>> \o <<y>>
    BY <1>3, <2>1
  <2>3. [i \in DOMAIN w |-> Dispatched(w[i])] = <<p, q>>
    BY <2>1
  <2>4. CallsOf(w) = p \o q
    <3>1. FlattenSeq(<<p, q>>) = p \o q
      BY FlattenTwo
    <3> QED
      BY <2>3, <3>1 DEF CallsOf
  <2> HIDE DEF x, y
  <2>5. /\ p \in Seq(NlCalls) /\ \A c \in ToSet(p) : Tag(c) \in category
        /\ \A f \in {"on_link", "on_stats", "on_ifaddr", "on_neighbor"}, m \in Received : Asked(f, m) =>
             Cardinality(Times(p, <<f, m>>)) = IF x = m THEN 1 ELSE 0
    BY <2>1, DispatchedIs
  <2>6. /\ q \in Seq(NlCalls) /\ \A c \in ToSet(q) : Tag(c) \in category
        /\ \A f \in {"on_link", "on_stats", "on_ifaddr", "on_neighbor"}, m \in Received : Asked(f, m) =>
             Cardinality(Times(q, <<f, m>>)) = IF y = m THEN 1 ELSE 0
    BY <2>1, DispatchedIs
  <2> HIDE DEF p, q
  <2>7. p \o q \in Seq(NlCalls) /\ ToSet(p \o q) = ToSet(p) \cup ToSet(q)
    BY <2>5, <2>6, Concat, ConcatSet
  <2>8. ASSUME NEW f \in {"on_link", "on_stats", "on_ifaddr", "on_neighbor"}, NEW m \in Received, Asked(f, m)
        PROVE  Cardinality(Times(p \o q, <<f, m>>)) = Cardinality(Times(w, m))
    <3>1. Cardinality(Times(p \o q, <<f, m>>)) = Cardinality(Times(p, <<f, m>>)) + Cardinality(Times(q, <<f, m>>))
      BY <2>5, <2>6, TimesConcat
    <3>2. Cardinality(Times(<<x>> \o <<y>>, m)) = Cardinality(Times(<<x>>, m)) + Cardinality(Times(<<y>>, m))
      <4>1. <<x>> \in Seq(Received) /\ <<y>> \in Seq(Received)
        BY <2>1
      <4> QED
        BY <4>1, TimesConcat
    <3>3. /\ Cardinality(Times(p, <<f, m>>)) = IF x = m THEN 1 ELSE 0
          /\ Cardinality(Times(q, <<f, m>>)) = IF y = m THEN 1 ELSE 0
      BY <2>5, <2>6, <2>8
    <3>4. /\ Cardinality(Times(<<x>>, m)) = IF x = m THEN 1 ELSE 0
          /\ Cardinality(Times(<<y>>, m)) = IF y = m THEN 1 ELSE 0
      BY TimesHere
    <3> QED
      BY <2>2, <3>1, <3>2, <3>3, <3>4
  <2> QED
    BY <2>4, <2>5, <2>6, <2>7, <2>8
<1> QED
  BY <1>1, <1>2, <1>3

-----------------------------------------------------------------------------
(***************************************************************************)
(* netlink: the theorem.                                                   *)
(***************************************************************************)
NetlinkInv ==
  /\ datagrams \in Seq(Datagrams) /\ handed \in Seq(Datagrams) /\ callbacks \in Seq(NlCalls)
  /\ ReportedAsSubscribed

\* The counts of the property, in the terms of the lemmas.
LEMMA SubscribedIs ==
  ReportedAsSubscribed <=>
    /\ \A c \in ToSet(callbacks) : Tag(c) \in category
    /\ \A f \in {"on_link", "on_stats", "on_ifaddr", "on_neighbor"}, m \in Received : Asked(f, m) =>
         Cardinality(Times(callbacks, <<f, m>>)) = Cardinality(Arrived(m))
<1>1. (\A i \in DOMAIN callbacks : Tag(callbacks[i]) \in category) <=> (\A c \in ToSet(callbacks) : Tag(c) \in category)
  BY DEF ToSet
<1>2. \A f, m : Reported(<<f, m>>) = Cardinality(Times(callbacks, <<f, m>>))
  BY DEF Reported, Times
<1> QED
  BY <1>1, <1>2 DEF ReportedAsSubscribed, Asked

\* A datagram that is handed over adds its own places to those of a message.
LEMMA ArrivedGrows ==
  ASSUME handed \in Seq(Datagrams), NEW d \in Datagrams, handed' = Append(handed, d), NEW m
  PROVE  Cardinality(Arrived(m)') = Cardinality(Arrived(m)) + Cardinality(Times(Walked(d), m))
<1> DEFINE n == Len(handed)
           J == Before2(d, m)
           At(q) == {x \in (DOMAIN q) \X (1..2) :
                       /\ x[2] \in DOMAIN q[x[1]] /\ q[x[1]][x[2]] = m
                       /\ \A k \in 1..x[2] : q[x[1]][k] \notin NlEnds}
           New == {n + 1} \X J
<1>1. n \in Nat /\ DOMAIN handed = 1..n
  OBVIOUS
<1>2. /\ DOMAIN handed' = 1..(n + 1) /\ handed'[n + 1] = d
      /\ \A i \in 1..n : handed'[i] = handed[i]
  <2>1. /\ Append(handed, d) \in Seq(Datagrams) /\ Len(Append(handed, d)) = n + 1
        /\ Append(handed, d)[n + 1] = d /\ \A i \in 1..n : Append(handed, d)[i] = handed[i]
    OBVIOUS
  <2> QED
    BY <2>1
<1>3. Arrived(m) = At(handed) /\ Arrived(m)' = At(handed')
  BY DEF Arrived, NlEnds
<1>4. IsFiniteSet(At(handed)) /\ IsFiniteSet(J) /\ Cardinality(J) \in Nat /\ Cardinality(At(handed)) \in Nat
  <2>1. IsFiniteSet(1..n) /\ IsFiniteSet(1..2)
    <3>1. n \in Int /\ 1 \in Int /\ 2 \in Int
      BY <1>1
    <3> HIDE DEF n
    <3> QED
      BY ONLY <3>1, FS_Interval
  <2>2. IsFiniteSet((1..n) \X (1..2))
    BY <2>1, FS_Product
  <2>3. At(handed) \subseteq (1..n) \X (1..2) /\ J \subseteq 1..2
    BY <1>1 DEF Before2
  <2> HIDE DEF At, J
  <2>4. IsFiniteSet(At(handed)) /\ IsFiniteSet(J)
    BY <2>1, <2>2, <2>3, FS_Subset
  <2> QED
    BY <2>4, FS_CardinalityType
<1>5. At(handed') = At(handed) \cup New
  <2>1. ASSUME NEW i \in 1..(n + 1), NEW j \in 1..2
        PROVE  <<i, j>> \in At(handed') <=> <<i, j>> \in At(handed) \cup New
    <3>1. CASE i \in 1..n
      <4>1. handed'[i] = handed[i] /\ i # n + 1
        BY <1>1, <1>2, <3>1
      <4> QED
        BY <1>1, <1>2, <3>1, <4>1
    <3>2. CASE i = n + 1
      <4>1. handed'[i] = d /\ i \notin 1..n
        BY <1>1, <1>2, <3>2
      <4> QED
        BY <1>1, <1>2, <3>2, <4>1 DEF Before2
    <3> QED
      BY <1>1, <3>1, <3>2
  <2>2. At(handed') \subseteq (1..(n + 1)) \X (1..2)
    BY <1>2
  <2>3. At(handed) \subseteq (1..(n + 1)) \X (1..2)
    BY <1>1
  <2>4. New \subseteq (1..(n + 1)) \X (1..2)
    BY <1>1 DEF Before2
  <2> HIDE DEF At, New
  <2>5. \A x \in (1..(n + 1)) \X (1..2) : x \in At(handed') <=> x \in At(handed) \cup New
    <3>1. TAKE x \in (1..(n + 1)) \X (1..2)
    <3>2. x = <<x[1], x[2]>> /\ x[1] \in 1..(n + 1) /\ x[2] \in 1..2
      OBVIOUS
    <3>3. <<x[1], x[2]>> \in At(handed') <=> <<x[1], x[2]>> \in At(handed) \cup New
      BY <2>1, <3>2
    <3> QED
      BY ONLY <3>2, <3>3
  <2> QED
    BY <2>2, <2>3, <2>4, <2>5
<1>6. At(handed) \cap New = {}
  <2>1. n + 1 \notin 1..n
    BY <1>1
  <2> QED
    BY <1>1, <2>1
<1> HIDE DEF At, J
<1>7. IsFiniteSet(New) /\ Cardinality(New) = Cardinality(J)
  <2>1. IsFiniteSet({n + 1}) /\ Cardinality({n + 1}) = 1
    BY FS_Singleton
  <2>2. IsFiniteSet(New) /\ Cardinality(New) = 1 * Cardinality(J)
    BY <1>4, <2>1, FS_Product
  <2> QED
    BY <1>4, <2>2
<1> HIDE DEF New
<1>8. Cardinality(At(handed) \cup New) = Cardinality(At(handed)) + Cardinality(New) - Cardinality(At(handed) \cap New)
  BY <1>4, <1>7, FS_Union
<1>9. Cardinality(At(handed) \cap New) = 0
  BY <1>6, FS_EmptySet
<1>10. Cardinality(At(handed')) = Cardinality(At(handed)) + Cardinality(J)
  BY <1>4, <1>5, <1>7, <1>8, <1>9
<1>11. Times(Walked(d), m) = J
  BY WalkedIs DEF J
<1> QED
  BY <1>3, <1>10, <1>11

LEMMA DispatchKeeps ==
  ASSUME NetlinkInv, Dispatch
  PROVE  NetlinkInv'
<1> DEFINE d == Head(datagrams)
           w == Walked(d)
           new == CallsOf(w)
<1>1. /\ datagrams # <<>> /\ datagrams' = Tail(datagrams) /\ handed' = Append(handed, d)
      /\ callbacks' = callbacks \o new /\ category' = category
  BY DEF Dispatch, CallsOf, Dispatched
<1>2. datagrams \in Seq(Datagrams) /\ handed \in Seq(Datagrams) /\ callbacks \in Seq(NlCalls)
  BY DEF NetlinkInv
<1>3. Received' = Received /\ Datagrams' = Datagrams
  BY <1>1 DEF Received, Subscribed, Datagrams
<1>4. d \in Datagrams /\ Tail(datagrams) \in Seq(Datagrams)
  BY <1>1, <1>2
<1> HIDE DEF d
<1>5. w \in Seq(Received) /\ Len(w) \in 0..2
  BY <1>4, WalkedIs
<1> HIDE DEF w
<1>6. /\ new \in Seq(NlCalls) /\ \A c \in ToSet(new) : Tag(c) \in category
      /\ \A f \in {"on_link", "on_stats", "on_ifaddr", "on_neighbor"}, m \in Received : Asked(f, m) =>
           Cardinality(Times(new, <<f, m>>)) = Cardinality(Times(w, m))
  BY <1>5, CallsOfIs
<1> HIDE DEF new
<1>7. callbacks' \in Seq(NlCalls) /\ ToSet(callbacks') = ToSet(callbacks) \cup ToSet(new)
  <2>1. callbacks \o new \in Seq(NlCalls)
    BY <1>2, <1>6, Concat
  <2> QED
    BY <1>1, <1>2, <1>6, <2>1, ConcatSet
<1>8. handed' \in Seq(Datagrams)
  BY <1>1, <1>2, <1>4
<1>9. /\ \A c \in ToSet(callbacks) : Tag(c) \in category
      /\ \A f \in {"on_link", "on_stats", "on_ifaddr", "on_neighbor"}, m \in Received : Asked(f, m) =>
           Cardinality(Times(callbacks, <<f, m>>)) = Cardinality(Arrived(m))
  BY SubscribedIs DEF NetlinkInv
<1>10. ASSUME NEW f \in {"on_link", "on_stats", "on_ifaddr", "on_neighbor"}, NEW m \in Received, Asked(f, m)
       PROVE  Cardinality(Times(callbacks', <<f, m>>)) = Cardinality(Arrived(m)')
  <2>1. Cardinality(Times(callbacks \o new, <<f, m>>)) =
          Cardinality(Times(callbacks, <<f, m>>)) + Cardinality(Times(new, <<f, m>>))
    BY <1>2, <1>6, TimesConcat
  <2>2. Cardinality(Arrived(m)') = Cardinality(Arrived(m)) + Cardinality(Times(w, m))
    BY <1>1, <1>2, <1>4, ArrivedGrows DEF w
  <2>3. /\ Cardinality(Times(new, <<f, m>>)) = Cardinality(Times(w, m))
        /\ Cardinality(Times(callbacks, <<f, m>>)) = Cardinality(Arrived(m))
    BY <1>6, <1>9, <1>10
  <2> QED
    BY <1>1, <2>1, <2>2, <2>3
<1>11. ReportedAsSubscribed'
  <2>1. \A c \in ToSet(callbacks') : Tag(c) \in category'
    BY <1>1, <1>6, <1>7, <1>9
  <2>2. \A f, m : Asked(f, m)' = Asked(f, m)
    BY <1>1 DEF Asked
  <2>3. \A f \in {"on_link", "on_stats", "on_ifaddr", "on_neighbor"}, m \in Received' : Asked(f, m)' =>
          Cardinality(Times(callbacks', <<f, m>>)) = Cardinality(Arrived(m)')
    BY <1>3, <1>10, <2>2
  <2>4. (\A i \in DOMAIN callbacks' : Tag(callbacks'[i]) \in category')
    BY <2>1 DEF ToSet
  <2>5. \A f, m : Reported(<<f, m>>)' = Cardinality(Times(callbacks', <<f, m>>))
    BY DEF Reported, Times
  <2> QED
    BY <2>2, <2>3, <2>4, <2>5 DEF ReportedAsSubscribed, Asked
<1> QED
  BY <1>1, <1>3, <1>4, <1>7, <1>8, <1>11 DEF NetlinkInv

\* The other steps leave what was handed over and called back.
LEMMA HandedKeeps ==
  ASSUME NetlinkInv, UNCHANGED <<category, handed, callbacks>>, datagrams' \in Seq(Datagrams)
  PROVE  NetlinkInv'
<1>1. Received' = Received /\ Datagrams' = Datagrams
  BY DEF Received, Subscribed, Datagrams
<1>2. \A m : Arrived(m)' = Arrived(m)
  BY DEF Arrived
<1>3. \A c : Reported(c)' = Reported(c)
  BY DEF Reported
<1>4. ReportedAsSubscribed'
  BY <1>1, <1>2, <1>3 DEF NetlinkInv, ReportedAsSubscribed
<1> QED
  BY <1>1, <1>4 DEF NetlinkInv

LEMMA NetlinkInitially == ASSUME NetlinkInit PROVE NetlinkInv
<1>1. datagrams = <<>> /\ handed = <<>> /\ callbacks = <<>>
  BY DEF NetlinkInit
<1>2. DOMAIN handed = {} /\ DOMAIN callbacks = {}
  BY <1>1
<1>3. \A m : Arrived(m) = {}
  BY <1>2 DEF Arrived
<1>4. \A c : Reported(c) = 0
  <2>1. \A c : {i \in DOMAIN callbacks : callbacks[i] = c} = {}
    BY <1>2
  <2> QED
    BY <2>1, FS_EmptySet DEF Reported
<1>5. \A m : Cardinality(Arrived(m)) = 0
  BY <1>3, FS_EmptySet
<1>6. ReportedAsSubscribed
  BY <1>2, <1>4, <1>5 DEF ReportedAsSubscribed
<1> QED
  BY <1>1, <1>6 DEF NetlinkInv

\* Whatever tags the derived class chooses and however many datagrams come: callbacks
\* are made for these tags only, and each new link, address or neighbour of such a tag
\* that stands in a datagram before its end is reported once (netlink_listener.hpp:107-130,
\* link_impl.hpp:19-96, ifaddr_impl.hpp:16-92, neighbor_impl.hpp:17-98).
THEOREM NetlinkReported == NetlinkSpec => []ReportedAsSubscribed
<1>1. NetlinkInit => NetlinkInv
  BY NetlinkInitially
<1>2. NetlinkInv /\ [NetlinkNext]_netlinkVars => NetlinkInv'
  <2> SUFFICES ASSUME NetlinkInv, [NetlinkNext]_netlinkVars PROVE NetlinkInv'
    OBVIOUS
  <2>1. datagrams \in Seq(Datagrams)
    BY DEF NetlinkInv
  <2>2. CASE NetlinkStart
    BY <2>1, <2>2, HandedKeeps DEF NetlinkStart
  <2>3. CASE NetlinkClose
    <3>1. <<>> \in Seq(Datagrams)
      OBVIOUS
    <3> QED
      BY <2>3, <3>1, HandedKeeps DEF NetlinkClose
  <2>4. CASE Dispatch
    BY <2>4, DispatchKeeps
  <2>5. CASE DispatchError
    BY <2>1, <2>5, HandedKeeps DEF DispatchError
  <2>6. ASSUME NEW d \in Datagrams, KernelMulticast(d) PROVE NetlinkInv'
    <3>1. datagrams' \in Seq(Datagrams)
      <4>1. datagrams' = Append(datagrams, d) \/ datagrams' = datagrams
        BY <2>6 DEF KernelMulticast
      <4>2. Append(datagrams, d) \in Seq(Datagrams)
        BY <2>1
      <4> QED
        BY <2>1, <4>1, <4>2
    <3> QED
      BY <2>6, <3>1, HandedKeeps DEF KernelMulticast
  <2>7. CASE UNCHANGED netlinkVars
    BY <2>1, <2>7, HandedKeeps DEF netlinkVars
  <2> QED
    BY <2>2, <2>3, <2>4, <2>5, <2>6, <2>7 DEF NetlinkNext
<1>3. NetlinkInv => ReportedAsSubscribed
  BY DEF NetlinkInv
<1> QED
  BY <1>1, <1>2, <1>3, PTL DEF NetlinkSpec
=============================================================================
