--------------------------- MODULE ContainerProofs --------------------------
(***************************************************************************)
(* First the LRU containers: they keep their list, their hash set and      *)
(* their nodes in step and implement LruSpec, for every number of          *)
(* containers and keys and every limit.                                    *)
(*                                                                         *)
(* Then sequenced_map and sequenced_multimap: they keep the order they     *)
(* promise, for every number of keys and entries.                          *)
(***************************************************************************)
EXTENDS LruCache, SequencedMap, SequenceLemmas, FiniteSetTheorems


-----------------------------------------------------------------------------
(***************************************************************************)
(* A list L, a hash set H and nodes N that describe the same entries: no   *)
(* node is twice in the list, the nodes that exist are those in the list,  *)
(* and the hash set leads from the key a node holds to that node and knows *)
(* no other key.                                                           *)
(***************************************************************************)
Linked(L, H, N) ==
  /\ L \in Seq(Nodes)
  /\ DOMAIN H \subseteq Keys /\ H \in [DOMAIN H -> Nodes]
  /\ DOMAIN N \subseteq Nodes /\ N \in [DOMAIN N -> NodeVal]
  /\ \A i, j \in 1..Len(L) : L[i] = L[j] => i = j
  /\ \A i \in 1..Len(L) : L[i] \in DOMAIN N
  /\ \A n \in DOMAIN N : \E i \in 1..Len(L) : L[i] = n
  /\ \A i \in 1..Len(L) : N[L[i]].key \in DOMAIN H /\ H[N[L[i]].key] = L[i]
  /\ \A k \in DOMAIN H : \E i \in 1..Len(L) : N[L[i]].key = k

\* The stamps of the nodes do not grow along the list, and none is later than t.
Aged(L, N, t) ==
  /\ \A i \in 1..Len(L) : N[L[i]].stamp <= t
  /\ \A i, j \in 1..Len(L) : i < j => N[L[i]].stamp >= N[L[j]].stamp

\* The entries as they are shown.
Shown(L, N) == [i \in 1..Len(L) |-> [key |-> N[L[i]].key, val |-> N[L[i]].val]]
EntryOf(e) == [key |-> e.key, val |-> e.val]
EntrySet == [key : Keys, val : Vals]

\* What With() maps to what.
LEMMA WithFacts ==
  ASSUME NEW f, NEW x, NEW y
  PROVE  /\ DOMAIN With(f, x, y) = DOMAIN f \cup {x}
         /\ With(f, x, y)[x] = y
         /\ \A z \in DOMAIN f : z # x => With(f, x, y)[z] = f[z]
BY DEF With

\* With() keeps the types.
LEMMA WithType ==
  ASSUME NEW D, NEW T, NEW f, DOMAIN f \subseteq D, f \in [DOMAIN f -> T],
         NEW x \in D, NEW y \in T
  PROVE  /\ DOMAIN With(f, x, y) \subseteq D
         /\ With(f, x, y) \in [DOMAIN With(f, x, y) -> T]
BY DEF With

\* What Without() leaves.
LEMMA WithoutFacts ==
  ASSUME NEW f, NEW n
  PROVE  /\ DOMAIN Without(f, n) = {k \in DOMAIN f : f[k] # n}
         /\ \A k \in DOMAIN f : f[k] # n => Without(f, n)[k] = f[k]
         /\ \A D, T : DOMAIN f \subseteq D /\ f \in [DOMAIN f -> T] =>
              DOMAIN Without(f, n) \subseteq D /\ Without(f, n) \in [DOMAIN Without(f, n) -> T]
BY DEF Without, Restrict

\* A node holds a key and a value, and what is shown is a sequence of entries.
LEMMA NodeTypes ==
  ASSUME NEW L, NEW H, NEW N, Linked(L, H, N)
  PROVE  /\ Len(L) \in Nat
         /\ \A i \in 1..Len(L) : /\ L[i] \in Nodes
                                 /\ N[L[i]] \in NodeVal
                                 /\ N[L[i]].key \in Keys /\ N[L[i]].val \in Vals
                                 /\ N[L[i]].stamp \in 0..MaxNow
         /\ Shown(L, N) \in Seq(EntrySet)
         /\ Len(Shown(L, N)) = Len(L)
<1>1. Len(L) \in Nat /\ \A i \in 1..Len(L) : L[i] \in Nodes
  BY DEF Linked
<1>2. ASSUME NEW i \in 1..Len(L)
      PROVE  N[L[i]] \in NodeVal
  BY DEF Linked
<1>3. ASSUME NEW i \in 1..Len(L)
      PROVE  N[L[i]].key \in Keys /\ N[L[i]].val \in Vals /\ N[L[i]].stamp \in 0..MaxNow
  BY <1>2 DEF NodeVal
<1>4. \A i \in 1..Len(L) : [key |-> N[L[i]].key, val |-> N[L[i]].val] \in EntrySet
  BY <1>3 DEF EntrySet
<1>5. Shown(L, N) \in Seq(EntrySet) /\ Len(Shown(L, N)) = Len(L)
  BY <1>1, <1>4 DEF Shown
<1> QED
  BY <1>1, <1>2, <1>3, <1>5

\* Keys are unique.
LEMMA KeysDiffer ==
  ASSUME NEW L, NEW H, NEW N, Linked(L, H, N),
         NEW i \in 1..Len(L), NEW j \in 1..Len(L), N[L[i]].key = N[L[j]].key
  PROVE  i = j
<1>1. H[N[L[i]].key] = L[i] /\ H[N[L[j]].key] = L[j]
  BY DEF Linked
<1>2. L[i] = L[j]
  BY <1>1
<1> QED
  BY <1>2 DEF Linked

-----------------------------------------------------------------------------
(***************************************************************************)
(* The three cases of push().                                              *)
(***************************************************************************)
\* HH is the hash set H once the node at place p has the key k.
Rehashed(L, H, N, p, k, HH) ==
  /\ DOMAIN HH \subseteq Keys /\ HH \in [DOMAIN HH -> Nodes]
  /\ k \in DOMAIN HH /\ HH[k] = L[p]
  /\ \A i \in 1..Len(L) : i # p => N[L[i]].key \in DOMAIN HH /\ HH[N[L[i]].key] = L[i]
  /\ \A kk \in DOMAIN HH : kk # k => \E i \in 1..Len(L) : i # p /\ N[L[i]].key = kk

\* The node at place p has got the entry e and gone to the front.
Moved(L, N, t, p, e, HH) ==
  LET LL == <<L[p]>> \o RemoveAt(L, p)
      NN == With(N, L[p], e)
  IN  /\ Linked(LL, HH, NN) /\ Aged(LL, NN, t)
      /\ Len(LL) = Len(L)
      /\ Shown(LL, NN) = <<EntryOf(e)>> \o RemoveAt(Shown(L, N), p)

\* It may, whatever it held.
LEMMA MoveToFront ==
  ASSUME NEW L, NEW H, NEW N, Linked(L, H, N), NEW t \in Nat, Aged(L, N, t),
         NEW p \in 1..Len(L), NEW e \in NodeVal, e.stamp = t,
         NEW HH, Rehashed(L, H, N, p, e.key, HH)
  PROVE  Moved(L, N, t, p, e, HH)
<1> DEFINE LL == <<L[p]>> \o RemoveAt(L, p)
           NN == With(N, L[p], e)
           from(i) == FromPlace(p, i)
<1>1. /\ L \in Seq(Nodes) /\ Len(L) \in Nat /\ p \in 1..Len(L)
      /\ \A i \in 1..Len(L) : L[i] \in Nodes
  <2>1. L \in Seq(Nodes)
    BY DEF Linked
  <2> QED
    BY <2>1
<1>3. /\ LL \in Seq(Nodes) /\ Len(LL) = Len(L)
      /\ LL[1] = L[p] /\ \A i \in 2..Len(L) : LL[i] = L[from(i)]
  BY <1>1, ReplaceFirst
<1> HIDE DEF LL
<1>4. ASSUME NEW i \in 1..Len(L)
      PROVE  /\ from(i) \in 1..Len(L) /\ LL[i] = L[from(i)]
             /\ i = 1 <=> from(i) = p
  <2>1. CASE i = 1
    BY <1>1, <1>3, <2>1 DEF FromPlace
  <2>2. CASE i # 1
    <3>1. i \in 2..Len(L)
      BY <1>1, <2>2
    <3>2. from(i) \in 1..Len(L) /\ from(i) # p
      BY <1>1, <2>2 DEF FromPlace
    <3> QED
      BY <1>3, <2>2, <3>1, <3>2
  <2> QED
    BY <2>1, <2>2
<1>5. ASSUME NEW i \in 1..Len(L), NEW j \in 1..Len(L), from(i) = from(j)
      PROVE  i = j
  BY <1>1, <1>5 DEF FromPlace
<1>6. ASSUME NEW i \in 1..Len(L)
      PROVE  \E j \in 1..Len(L) : from(j) = i
  <2>1. CASE i = p
    <3>1. 1 \in 1..Len(L) /\ from(1) = p
      BY <1>1 DEF FromPlace
    <3> QED
      BY <2>1, <3>1
  <2>2. CASE i < p
    <3>1. i + 1 \in 1..Len(L) /\ from(i + 1) = i
      BY <1>1, <2>2 DEF FromPlace
    <3> QED
      BY <3>1
  <2>3. CASE i > p
    <3>1. i \in 1..Len(L) /\ from(i) = i
      BY <1>1, <2>3 DEF FromPlace
    <3> QED
      BY <3>1
  <2> QED
    BY <1>1, <2>1, <2>2, <2>3
<1>7. ASSUME NEW i \in 1..Len(L), NEW j \in 1..Len(L), i < j, from(i) # p
      PROVE  from(i) < from(j)
  BY <1>1, <1>7 DEF FromPlace
<1> HIDE DEF from
<1>8. /\ DOMAIN NN = DOMAIN N /\ DOMAIN NN \subseteq Nodes /\ NN \in [DOMAIN NN -> NodeVal]
      /\ NN[L[p]] = e /\ \A n \in DOMAIN N : n # L[p] => NN[n] = N[n]
  <2>1. L[p] \in DOMAIN N /\ L[p] \in Nodes
    BY <1>1 DEF Linked
  <2>2. DOMAIN N \subseteq Nodes /\ N \in [DOMAIN N -> NodeVal]
    BY DEF Linked
  <2>3. DOMAIN NN \subseteq Nodes /\ NN \in [DOMAIN NN -> NodeVal]
    BY <2>1, <2>2, WithType
  <2>4. /\ DOMAIN NN = DOMAIN N \cup {L[p]}
        /\ NN[L[p]] = e /\ \A n \in DOMAIN N : n # L[p] => NN[n] = N[n]
    BY DEF With
  <2>5. DOMAIN NN = DOMAIN N
    BY <2>1, <2>4
  <2> HIDE DEF NN
  <2> QED
    BY <2>3, <2>4, <2>5
<1> HIDE DEF NN
<1>9. ASSUME NEW i \in 1..Len(L)
      PROVE  /\ i = 1 => NN[LL[i]] = e
             /\ i # 1 => NN[LL[i]] = N[L[from(i)]]
  <2>1. CASE i = 1
    BY <1>3, <1>4, <1>8, <2>1
  <2>2. CASE i # 1
    <3>1. L[from(i)] # L[p] /\ L[from(i)] \in DOMAIN N
      BY <1>1, <1>4, <2>2 DEF Linked
    <3> QED
      BY <1>4, <1>8, <2>2, <3>1
  <2> QED
    BY <2>1, <2>2
<1>10. Linked(LL, HH, NN)
  <2>1. ASSUME NEW i \in 1..Len(LL), NEW j \in 1..Len(LL), LL[i] = LL[j]
        PROVE  i = j
    <3>1. L[from(i)] = L[from(j)] /\ from(i) \in 1..Len(L) /\ from(j) \in 1..Len(L)
      BY <1>3, <1>4, <2>1
    <3>2. from(i) = from(j)
      BY <3>1 DEF Linked
    <3> QED
      BY <1>3, <1>5, <3>2
  <2>2. ASSUME NEW i \in 1..Len(LL)
        PROVE  LL[i] \in DOMAIN NN
    BY <1>3, <1>4, <1>8 DEF Linked
  <2>3. ASSUME NEW n \in DOMAIN NN
        PROVE  \E i \in 1..Len(LL) : LL[i] = n
    <3>1. PICK i \in 1..Len(L) : L[i] = n
      BY <1>8 DEF Linked
    <3>2. PICK j \in 1..Len(L) : from(j) = i
      BY <1>6
    <3> QED
      BY <1>3, <1>4, <3>1, <3>2
  <2>4. ASSUME NEW i \in 1..Len(LL)
        PROVE  NN[LL[i]].key \in DOMAIN HH /\ HH[NN[LL[i]].key] = LL[i]
    <3>1. i \in 1..Len(L) /\ from(i) \in 1..Len(L) /\ LL[i] = L[from(i)]
      BY <1>3, <1>4
    <3>2. CASE i = 1
      <4>1. NN[LL[i]] = e /\ LL[i] = L[p]
        BY <1>3, <1>9, <3>1, <3>2
      <4> QED
        BY <4>1 DEF Rehashed
    <3>3. CASE i # 1
      <4>1. NN[LL[i]] = N[L[from(i)]] /\ from(i) # p
        BY <1>4, <1>9, <3>1, <3>3
      <4> QED
        BY <3>1, <4>1 DEF Rehashed
    <3> QED
      BY <3>2, <3>3
  <2>5. ASSUME NEW k \in DOMAIN HH
        PROVE  \E i \in 1..Len(LL) : NN[LL[i]].key = k
    <3>1. CASE k = e.key
      <4>1. 1 \in 1..Len(L)
        BY <1>1
      <4> QED
        BY <1>3, <1>9, <3>1, <4>1
    <3>2. CASE k # e.key
      <4>1. PICK i \in 1..Len(L) : i # p /\ N[L[i]].key = k
        BY <3>2 DEF Rehashed
      <4>2. PICK j \in 1..Len(L) : from(j) = i
        BY <1>6
      <4>3. j # 1
        BY <1>4, <4>1, <4>2
      <4> QED
        BY <1>3, <1>9, <4>1, <4>2, <4>3
    <3> QED
      BY <3>1, <3>2
  <2>6. DOMAIN HH \subseteq Keys /\ HH \in [DOMAIN HH -> Nodes]
    BY DEF Rehashed
  <2> QED
    BY <1>3, <1>8, <2>1, <2>2, <2>3, <2>4, <2>5, <2>6 DEF Linked
<1>11. Aged(LL, NN, t)
  <2>1. ASSUME NEW i \in 1..Len(LL)
        PROVE  NN[LL[i]].stamp <= t /\ NN[LL[i]].stamp \in Nat
    <3>1. i \in 1..Len(L) /\ from(i) \in 1..Len(L)
      BY <1>3, <1>4
    <3>2. N[L[from(i)]].stamp <= t /\ N[L[from(i)]].stamp \in Nat
      BY <3>1, NodeTypes DEF Aged
    <3>3. NN[LL[i]] = e \/ NN[LL[i]] = N[L[from(i)]]
      BY <1>9, <3>1
    <3> QED
      BY <3>2, <3>3
  <2>2. ASSUME NEW i \in 1..Len(LL), NEW j \in 1..Len(LL), i < j
        PROVE  NN[LL[i]].stamp >= NN[LL[j]].stamp
    <3>1. CASE i = 1
      <4>1. NN[LL[i]].stamp = t
        BY <1>3, <1>9, <3>1
      <4> QED
        BY <2>1, <4>1
    <3>2. CASE i # 1
      <4>1. /\ i \in 1..Len(L) /\ j \in 1..Len(L) /\ j # 1
            /\ from(i) \in 1..Len(L) /\ from(j) \in 1..Len(L) /\ from(i) # p
        BY <1>1, <1>3, <1>4, <2>2, <3>2
      <4>2. from(i) < from(j)
        BY <1>7, <2>2, <4>1
      <4>3. N[L[from(i)]].stamp >= N[L[from(j)]].stamp
        BY <4>1, <4>2 DEF Aged
      <4> QED
        BY <1>9, <3>2, <4>1, <4>3
    <3> QED
      BY <3>1, <3>2
  <2> QED
    BY <2>1, <2>2 DEF Aged
<1>12. Shown(LL, NN) = <<EntryOf(e)>> \o RemoveAt(Shown(L, N), p)
  <2> DEFINE s == Shown(L, N)
             u == <<EntryOf(e)>> \o RemoveAt(s, p)
  <2>1. s \in Seq(EntrySet) /\ Len(s) = Len(L)
    BY NodeTypes
  <2>2. \A i \in 1..Len(L) : s[i] = EntryOf(N[L[i]])
    BY DEF Shown, EntryOf
  <2>3. EntryOf(e) \in EntrySet
    BY DEF NodeVal, EntryOf, EntrySet
  <2> HIDE DEF s
  <2>4. p \in 1..Len(s)
    BY <2>1
  <2>5. /\ u \in Seq(EntrySet) /\ Len(u) = Len(s)
        /\ u[1] = EntryOf(e) /\ \A i \in 2..Len(s) : u[i] = s[from(i)]
    BY <2>1, <2>3, <2>4, ReplaceFirst DEF from
  <2> HIDE DEF u
  <2>6. Shown(LL, NN) \in Seq(EntrySet) /\ Len(Shown(LL, NN)) = Len(L)
    <3>1. Len(Shown(LL, NN)) = Len(LL) /\ Shown(LL, NN) \in Seq(EntrySet)
      BY <1>10, NodeTypes
    <3> QED
      BY <1>3, <3>1
  <2>7. ASSUME NEW i \in 1..Len(L)
        PROVE  Shown(LL, NN)[i] = u[i]
    <3>1. Shown(LL, NN)[i] = EntryOf(NN[LL[i]])
      BY <1>3 DEF Shown, EntryOf
    <3>2. CASE i = 1
      BY <1>9, <2>5, <3>1, <3>2
    <3>3. CASE i # 1
      <4>1. i \in 2..Len(s) /\ from(i) \in 1..Len(L)
        BY <1>1, <1>4, <2>1, <3>3
      <4>2. u[i] = EntryOf(N[L[from(i)]])
        BY <2>2, <2>5, <4>1
      <4> QED
        BY <1>9, <3>1, <3>3, <4>2
    <3> QED
      BY <3>2, <3>3
  <2>8. Shown(LL, NN) = u
    <3>1. Len(Shown(LL, NN)) = Len(u)
      BY <2>1, <2>5, <2>6
    <3> QED
      BY <2>5, <2>6, <2>7, <3>1, SameSeq
  <2> QED
    BY <2>8 DEF u, s
<1> QED
  BY <1>3, <1>10, <1>11, <1>12 DEF LL, NN, Moved

\* The places but the last are the front of a sequence.
LEMMA FrontRemoves ==
  ASSUME NEW S, NEW s \in Seq(S)
  PROVE  Front(s) = RemoveAt(s, Len(s))
<1>1. Len(s) \in Nat
  OBVIOUS
<1>2. SubSeq(s, Len(s) + 1, Len(s)) = << >>
  BY <1>1, SubSeqEmpty
<1>3. SubSeq(s, 1, Len(s) - 1) \in Seq(S)
  BY <1>1
<1>4. SubSeq(s, 1, Len(s) - 1) \o << >> = SubSeq(s, 1, Len(s) - 1)
  BY <1>3, ConcatEmptySeq
<1> QED
  BY <1>2, <1>4 DEF Front, RemoveAt

\* The node of e.key gets the entry e.
LEMMA UpdateLinks ==
  ASSUME NEW L, NEW H, NEW N, Linked(L, H, N), NEW t \in Nat, Aged(L, N, t),
         NEW p \in 1..Len(L), NEW e \in NodeVal, e.stamp = t, N[L[p]].key = e.key
  PROVE  Moved(L, N, t, p, e, H)
<1>1. Rehashed(L, H, N, p, e.key, H)
  <2>1. DOMAIN H \subseteq Keys /\ H \in [DOMAIN H -> Nodes]
    BY DEF Linked
  <2>2. e.key \in DOMAIN H /\ H[e.key] = L[p]
    BY DEF Linked
  <2>3. ASSUME NEW i \in 1..Len(L)
        PROVE  N[L[i]].key \in DOMAIN H /\ H[N[L[i]].key] = L[i]
    BY DEF Linked
  <2>4. ASSUME NEW k \in DOMAIN H, k # e.key
        PROVE  \E i \in 1..Len(L) : i # p /\ N[L[i]].key = k
    <3>1. PICK i \in 1..Len(L) : N[L[i]].key = k
      BY DEF Linked
    <3> QED
      BY <2>4, <3>1
  <2> QED
    BY <2>1, <2>2, <2>3, <2>4 DEF Rehashed
<1> QED
  BY <1>1, MoveToFront

\* The node at place p gets an entry whose key is new.
LEMMA ReuseLinks ==
  ASSUME NEW L, NEW H, NEW N, Linked(L, H, N), NEW t \in Nat, Aged(L, N, t),
         NEW p \in 1..Len(L), NEW e \in NodeVal, e.stamp = t, e.key \notin DOMAIN H
  PROVE  Moved(L, N, t, p, e, With(Without(H, L[p]), e.key, L[p]))
<1> DEFINE W == Without(H, L[p])
           HH == With(W, e.key, L[p])
<1>1. Rehashed(L, H, N, p, e.key, HH)
  <2>1. DOMAIN H \subseteq Keys /\ H \in [DOMAIN H -> Nodes]
    BY DEF Linked
  <2>2. /\ DOMAIN W = {k \in DOMAIN H : H[k] # L[p]}
        /\ \A k \in DOMAIN H : H[k] # L[p] => W[k] = H[k]
    BY DEF Without, Restrict
  <2>3. DOMAIN W \subseteq Keys /\ W \in [DOMAIN W -> Nodes]
    BY <2>1 DEF Without, Restrict
  <2> HIDE DEF W
  <2>4. e.key \in Keys /\ L[p] \in Nodes
    BY NodeTypes DEF NodeVal
  <2>5. DOMAIN HH \subseteq Keys /\ HH \in [DOMAIN HH -> Nodes]
    BY <2>3, <2>4, WithType
  <2>6. /\ DOMAIN HH = DOMAIN W \cup {e.key} /\ HH[e.key] = L[p]
        /\ \A k \in DOMAIN W : k # e.key => HH[k] = W[k]
    BY DEF With
  <2> HIDE DEF HH
  <2>7. ASSUME NEW i \in 1..Len(L), i # p
        PROVE  N[L[i]].key \in DOMAIN HH /\ HH[N[L[i]].key] = L[i]
    <3>1. N[L[i]].key \in DOMAIN H /\ H[N[L[i]].key] = L[i] /\ L[i] # L[p]
      BY <2>7 DEF Linked
    <3>2. N[L[i]].key # e.key
      BY <3>1
    <3> QED
      BY <2>2, <2>6, <3>1, <3>2
  <2>8. ASSUME NEW k \in DOMAIN HH, k # e.key
        PROVE  \E i \in 1..Len(L) : i # p /\ N[L[i]].key = k
    <3>1. k \in DOMAIN H /\ H[k] # L[p]
      BY <2>2, <2>6, <2>8
    <3>2. PICK i \in 1..Len(L) : N[L[i]].key = k
      BY <3>1 DEF Linked
    <3>3. H[k] = L[i]
      BY <3>2 DEF Linked
    <3> QED
      BY <3>1, <3>2, <3>3
  <2> QED
    BY <2>5, <2>6, <2>7, <2>8 DEF Rehashed
<1> QED
  BY <1>1, MoveToFront

\* There is a node for one more entry.
LEMMA FreshNode ==
  ASSUME NEW L, NEW H, NEW N, Linked(L, H, N)
  PROVE  \E n \in Nodes : n \notin DOMAIN N
<1>1. ASSUME Nodes \subseteq DOMAIN N
      PROVE  FALSE
  <2> DEFINE f == [n \in Nodes |-> N[n].key]
  <2>1. IsFiniteSet(Keys) /\ Cardinality(Keys) \in Nat
    BY LruAssumption, FS_CardinalityType
  <2>2. IsFiniteSet(Nodes) /\ Cardinality(Nodes) = Cardinality(Keys) + 1
    <3>1. 1 \in Int /\ Cardinality(Keys) + 1 \in Int /\ ~(1 > Cardinality(Keys) + 1)
      BY <2>1
    <3>2. IsFiniteSet(1..(Cardinality(Keys) + 1))
      BY <3>1, FS_Interval
    <3>3. Cardinality(1..(Cardinality(Keys) + 1)) = (Cardinality(Keys) + 1) - 1 + 1
      BY <3>1, FS_Interval
    <3> QED
      BY <2>1, <3>2, <3>3 DEF Nodes
  <2>3. f \in [Nodes -> Keys]
    <3>1. ASSUME NEW n \in Nodes
          PROVE  N[n].key \in Keys
      <4>1. N[n] \in NodeVal
        BY <1>1 DEF Linked
      <4> QED
        BY <4>1 DEF NodeVal
    <3> QED
      BY <3>1
  <2>4. Cardinality(Keys) < Cardinality(Nodes)
    BY <2>1, <2>2
  <2> HIDE DEF f
  <2>5. PICK x \in Nodes, y \in Nodes : x # y /\ f[x] = f[y]
    BY <2>1, <2>2, <2>3, <2>4, FS_PigeonHole
  <2>6. N[x].key = N[y].key
    BY <2>5 DEF f
  <2>7. PICK i \in 1..Len(L) : L[i] = x
    BY <1>1 DEF Linked
  <2>8. PICK j \in 1..Len(L) : L[j] = y
    BY <1>1 DEF Linked
  <2>9. i = j
    BY <2>6, <2>7, <2>8, KeysDiffer
  <2> QED
    BY <2>5, <2>7, <2>8, <2>9
<1> QED
  BY <1>1

\* A new node n with the entry e, whose key is new, goes to the front.
LEMMA GrowLinks ==
  ASSUME NEW L, NEW H, NEW N, Linked(L, H, N), NEW t \in Nat, Aged(L, N, t),
         NEW e \in NodeVal, e.stamp = t, e.key \notin DOMAIN H,
         NEW n \in Nodes, n \notin DOMAIN N
  PROVE  /\ Linked(<<n>> \o L, With(H, e.key, n), With(N, n, e))
         /\ Aged(<<n>> \o L, With(N, n, e), t)
         /\ Len(<<n>> \o L) = Len(L) + 1
         /\ Shown(<<n>> \o L, With(N, n, e)) = <<EntryOf(e)>> \o Shown(L, N)
<1> DEFINE LL == <<n>> \o L
           HH == With(H, e.key, n)
           NN == With(N, n, e)
<1>1. /\ L \in Seq(Nodes) /\ Len(L) \in Nat
      /\ \A i \in 1..Len(L) : L[i] \in Nodes
  <2>1. L \in Seq(Nodes)
    BY DEF Linked
  <2> QED
    BY <2>1
<1>2. /\ LL \in Seq(Nodes) /\ Len(LL) = Len(L) + 1
      /\ LL[1] = n /\ \A i \in 2..(Len(L) + 1) : LL[i] = L[i - 1]
  BY <1>1, PutFirst
<1> HIDE DEF LL
<1>3. \A i \in 1..Len(LL) : i = 1 \/ (i \in 2..(Len(L) + 1) /\ i - 1 \in 1..Len(L) /\ LL[i] = L[i - 1])
  BY <1>1, <1>2
<1>4. /\ DOMAIN NN \subseteq Nodes /\ NN \in [DOMAIN NN -> NodeVal]
      /\ DOMAIN NN = DOMAIN N \cup {n}
      /\ NN[n] = e /\ \A m \in DOMAIN N : NN[m] = N[m]
  <2>1. DOMAIN N \subseteq Nodes /\ N \in [DOMAIN N -> NodeVal]
    BY DEF Linked
  <2>2. DOMAIN NN \subseteq Nodes /\ NN \in [DOMAIN NN -> NodeVal]
    BY <2>1, WithType
  <2>3. /\ DOMAIN NN = DOMAIN N \cup {n}
        /\ NN[n] = e /\ \A m \in DOMAIN N : m # n => NN[m] = N[m]
    BY DEF With
  <2> HIDE DEF NN
  <2> QED
    BY <2>2, <2>3
<1>5. /\ DOMAIN HH \subseteq Keys /\ HH \in [DOMAIN HH -> Nodes]
      /\ DOMAIN HH = DOMAIN H \cup {e.key}
      /\ HH[e.key] = n /\ \A k \in DOMAIN H : HH[k] = H[k]
  <2>1. DOMAIN H \subseteq Keys /\ H \in [DOMAIN H -> Nodes] /\ e.key \in Keys
    BY DEF Linked, NodeVal
  <2>2. DOMAIN HH \subseteq Keys /\ HH \in [DOMAIN HH -> Nodes]
    BY <2>1, WithType
  <2>3. /\ DOMAIN HH = DOMAIN H \cup {e.key}
        /\ HH[e.key] = n /\ \A k \in DOMAIN H : k # e.key => HH[k] = H[k]
    BY DEF With
  <2> HIDE DEF HH
  <2> QED
    BY <2>2, <2>3
<1> HIDE DEF NN, HH
<1>6. ASSUME NEW i \in 1..Len(L)
      PROVE  /\ i + 1 \in 1..Len(LL) /\ LL[i + 1] = L[i]
             /\ L[i] # n /\ L[i] \in DOMAIN N /\ NN[L[i]] = N[L[i]]
  <2>1. i + 1 \in 1..Len(LL) /\ i + 1 \in 2..(Len(L) + 1) /\ (i + 1) - 1 = i
    BY <1>1, <1>2
  <2>2. L[i] \in DOMAIN N
    BY DEF Linked
  <2> QED
    BY <1>2, <1>4, <2>1, <2>2
<1>7. Linked(LL, HH, NN)
  <2>1. ASSUME NEW i \in 1..Len(LL), NEW j \in 1..Len(LL), LL[i] = LL[j]
        PROVE  i = j
    <3>0. ASSUME NEW k \in 1..Len(LL), k # 1
          PROVE  LL[k] # n
      <4>1. k - 1 \in 1..Len(L) /\ LL[k] = L[k - 1]
        BY <1>3, <3>0
      <4>2. L[k - 1] # n
        BY <1>6, <4>1
      <4> QED
        BY <4>1, <4>2, Zenon
    <3>1. CASE i = 1 \/ j = 1
      BY <1>2, <2>1, <3>0, <3>1, Zenon
    <3>2. CASE i # 1 /\ j # 1
      <4>1. i - 1 \in 1..Len(L) /\ j - 1 \in 1..Len(L) /\ L[i - 1] = L[j - 1]
        BY <1>3, <2>1, <3>2
      <4>2. i - 1 = j - 1
        BY <4>1 DEF Linked
      <4> QED
        BY <1>1, <1>2, <4>2
    <3> QED
      BY <3>1, <3>2
  <2>2. ASSUME NEW i \in 1..Len(LL)
        PROVE  LL[i] \in DOMAIN NN
    BY <1>2, <1>3, <1>4, <1>6
  <2>3. ASSUME NEW m \in DOMAIN NN
        PROVE  \E i \in 1..Len(LL) : LL[i] = m
    <3>1. CASE m = n
      <4>1. 1 \in 1..Len(LL)
        BY <1>1, <1>2
      <4> QED
        BY <1>2, <3>1, <4>1
    <3>2. CASE m # n
      <4>1. PICK i \in 1..Len(L) : L[i] = m
        BY <1>4, <3>2 DEF Linked
      <4> QED
        BY <1>6, <4>1
    <3> QED
      BY <3>1, <3>2
  <2>4. ASSUME NEW i \in 1..Len(LL)
        PROVE  NN[LL[i]].key \in DOMAIN HH /\ HH[NN[LL[i]].key] = LL[i]
    <3>1. CASE i = 1
      BY <1>2, <1>4, <1>5, <3>1
    <3>2. CASE i # 1
      <4>1. i - 1 \in 1..Len(L) /\ LL[i] = L[i - 1]
        BY <1>3, <3>2
      <4>2. NN[LL[i]] = N[L[i - 1]]
        BY <1>6, <4>1
      <4>3. N[L[i - 1]].key \in DOMAIN H /\ H[N[L[i - 1]].key] = L[i - 1]
        BY <4>1 DEF Linked
      <4> QED
        BY <1>5, <4>1, <4>2, <4>3
    <3> QED
      BY <3>1, <3>2
  <2>5. ASSUME NEW k \in DOMAIN HH
        PROVE  \E i \in 1..Len(LL) : NN[LL[i]].key = k
    <3>1. CASE k = e.key
      <4>1. 1 \in 1..Len(LL)
        BY <1>1, <1>2
      <4> QED
        BY <1>2, <1>4, <3>1, <4>1
    <3>2. CASE k # e.key
      <4>1. k \in DOMAIN H
        BY <1>5, <3>2
      <4>2. PICK i \in 1..Len(L) : N[L[i]].key = k
        BY <4>1 DEF Linked
      <4> QED
        BY <1>6, <4>2
    <3> QED
      BY <3>1, <3>2
  <2> QED
    BY <1>2, <1>4, <1>5, <2>1, <2>2, <2>3, <2>4, <2>5 DEF Linked
<1>8. Aged(LL, NN, t)
  <2>1. ASSUME NEW i \in 1..Len(LL)
        PROVE  NN[LL[i]].stamp <= t /\ NN[LL[i]].stamp \in Nat
    <3>1. CASE i = 1
      BY <1>2, <1>4, <3>1
    <3>2. CASE i # 1
      <4>1. i - 1 \in 1..Len(L) /\ NN[LL[i]] = N[L[i - 1]]
        BY <1>3, <1>6, <3>2
      <4>2. N[L[i - 1]].stamp \in 0..MaxNow
        BY <4>1, NodeTypes
      <4> QED
        BY <4>1, <4>2, LruAssumption DEF Aged
    <3> QED
      BY <3>1, <3>2
  <2>2. ASSUME NEW i \in 1..Len(LL), NEW j \in 1..Len(LL), i < j
        PROVE  NN[LL[i]].stamp >= NN[LL[j]].stamp
    <3>1. CASE i = 1
      <4>1. NN[LL[i]].stamp = t
        BY <1>2, <1>4, <3>1
      <4> QED
        BY <2>1, <4>1
    <3>2. CASE i # 1
      <4>1. /\ i - 1 \in 1..Len(L) /\ NN[LL[i]] = N[L[i - 1]]
            /\ j - 1 \in 1..Len(L) /\ NN[LL[j]] = N[L[j - 1]] /\ i - 1 < j - 1
        <5>1. i \in Nat /\ j \in Nat /\ j # 1 /\ i - 1 < j - 1
          BY <1>1, <1>2, <2>2, <3>2
        <5>2. i - 1 \in 1..Len(L) /\ NN[LL[i]] = N[L[i - 1]]
          BY <1>3, <1>6, <3>2
        <5>3. j - 1 \in 1..Len(L) /\ NN[LL[j]] = N[L[j - 1]]
          BY <1>3, <1>6, <5>1
        <5> QED
          BY <5>1, <5>2, <5>3
      <4> QED
        BY <4>1 DEF Aged
    <3> QED
      BY <3>1, <3>2
  <2> QED
    BY <2>1, <2>2 DEF Aged
<1>9. Shown(LL, NN) = <<EntryOf(e)>> \o Shown(L, N)
  <2> DEFINE s == Shown(L, N)
             u == <<EntryOf(e)>> \o s
  <2>1. s \in Seq(EntrySet) /\ Len(s) = Len(L)
    BY NodeTypes
  <2>2. \A i \in 1..Len(L) : s[i] = EntryOf(N[L[i]])
    BY DEF Shown, EntryOf
  <2>3. EntryOf(e) \in EntrySet
    BY DEF NodeVal, EntryOf, EntrySet
  <2> HIDE DEF s
  <2>4. /\ u \in Seq(EntrySet) /\ Len(u) = Len(s) + 1
        /\ u[1] = EntryOf(e) /\ \A i \in 2..(Len(s) + 1) : u[i] = s[i - 1]
    BY <2>1, <2>3, PutFirst
  <2> HIDE DEF u
  <2>5. Shown(LL, NN) \in Seq(EntrySet) /\ Len(Shown(LL, NN)) = Len(LL)
    BY <1>7, NodeTypes
  <2>6. ASSUME NEW i \in 1..Len(LL)
        PROVE  Shown(LL, NN)[i] = u[i]
    <3>1. Shown(LL, NN)[i] = EntryOf(NN[LL[i]])
      BY DEF Shown, EntryOf
    <3>2. CASE i = 1
      BY <1>2, <1>4, <2>4, <3>1, <3>2
    <3>3. CASE i # 1
      <4>1. i \in 2..(Len(s) + 1) /\ i - 1 \in 1..Len(L) /\ LL[i] = L[i - 1]
        BY <1>3, <2>1, <3>3
      <4> QED
        BY <1>6, <2>2, <2>4, <3>1, <4>1
    <3> QED
      BY <3>2, <3>3
  <2>7. Len(Shown(LL, NN)) = Len(u)
    BY <1>2, <2>1, <2>4, <2>5
  <2>8. \A i \in 1..Len(Shown(LL, NN)) : Shown(LL, NN)[i] = u[i]
    BY <2>5, <2>6
  <2>9. Shown(LL, NN) = u
    BY <2>4, <2>5, <2>7, <2>8, SameSeq
  <2> QED
    BY <2>9 DEF u, s
<1> QED
  BY <1>2, <1>7, <1>8, <1>9 DEF LL, HH, NN

-----------------------------------------------------------------------------
(***************************************************************************)
(* erase(), and limits.                                                    *)
(***************************************************************************)
\* The nodes at places i to j - 1 leave the list, the hash set and the nodes.
GoneNodes(L, i, j) == {L[k] : k \in i..(j - 1)}

\* The places i to j - 1 leave the list, and what they hold leaves the hash set and
\* the nodes.
LEMMA EraseLinks ==
  ASSUME NEW L, NEW H, NEW N, Linked(L, H, N), NEW t \in Nat, Aged(L, N, t),
         NEW i \in 1..(Len(L) + 1), NEW j \in i..(Len(L) + 1),
         NEW HH, HH = Restrict(H, {k \in DOMAIN H : H[k] \notin GoneNodes(L, i, j)}),
         NEW NN, NN = Restrict(N, DOMAIN N \ GoneNodes(L, i, j))
  PROVE  /\ Linked(Without2(L, i, j), HH, NN)
         /\ Aged(Without2(L, i, j), NN, t)
         /\ Len(Without2(L, i, j)) = Len(L) - (j - i)
         /\ Shown(Without2(L, i, j), NN) = Without2(Shown(L, N), i, j)
<1> DEFINE LL == Without2(L, i, j)
           gone == GoneNodes(L, i, j)
           place(k) == IF k < i THEN k ELSE k + (j - i)
<1>1. /\ L \in Seq(Nodes) /\ Len(L) \in Nat
      /\ \A k \in 1..Len(L) : L[k] \in Nodes
  <2>1. L \in Seq(Nodes)
    BY DEF Linked
  <2> QED
    BY <2>1
<1>2. i \in Nat /\ j \in Nat /\ 1 <= i /\ i <= j /\ j <= Len(L) + 1
  BY <1>1
<1>3. /\ LL \in Seq(Nodes) /\ Len(LL) = Len(L) - (j - i)
      /\ \A k \in 1..(i - 1) : LL[k] = L[k]
      /\ \A k \in i..(Len(L) - (j - i)) : LL[k] = L[k + (j - i)]
  BY <1>1, CutOut
<1> HIDE DEF LL
<1>4. Len(LL) \in Nat
  BY <1>1, <1>2, <1>3
<1>5. ASSUME NEW k \in 1..Len(LL)
      PROVE  /\ place(k) \in 1..Len(L) /\ LL[k] = L[place(k)]
             /\ ~(i <= place(k) /\ place(k) < j)
  <2>1. CASE k < i
    <3>1. k \in 1..(i - 1) /\ place(k) = k /\ k \in 1..Len(L)
      BY <1>1, <1>2, <1>3, <2>1
    <3> QED
      BY <1>2, <1>3, <2>1, <3>1
  <2>2. CASE ~(k < i)
    <3>1. k \in i..(Len(L) - (j - i)) /\ place(k) = k + (j - i) /\ k + (j - i) \in 1..Len(L)
      BY <1>1, <1>2, <1>3, <2>2
    <3> QED
      BY <1>2, <1>3, <2>2, <3>1
  <2> QED
    BY <2>1, <2>2
<1>6. ASSUME NEW k \in 1..Len(LL), NEW m \in 1..Len(LL), k < m
      PROVE  place(k) < place(m)
  BY <1>2, <1>4, <1>6
<1>7. ASSUME NEW k \in 1..Len(L), ~(i <= k /\ k < j)
      PROVE  \E m \in 1..Len(LL) : place(m) = k
  <2>1. CASE k < i
    <3>1. k \in 1..Len(LL) /\ place(k) = k
      BY <1>1, <1>2, <1>3, <2>1
    <3> QED
      BY <3>1
  <2>2. CASE k >= j
    <3>1. k - (j - i) \in 1..Len(LL) /\ place(k - (j - i)) = k
      BY <1>1, <1>2, <1>3, <2>2
    <3> QED
      BY <3>1
  <2>3. k < i \/ k >= j
    BY <1>1, <1>2, <1>7
  <2> QED
    BY <2>1, <2>2, <2>3
<1>8. ASSUME NEW k \in 1..Len(L)
      PROVE  L[k] \in gone <=> i <= k /\ k < j
  <2>1. ASSUME L[k] \in gone
        PROVE  i <= k /\ k < j
    <3>1. PICK m \in i..(j - 1) : L[k] = L[m]
      BY <2>1 DEF GoneNodes
    <3>2. m \in 1..Len(L)
      BY <1>1, <1>2
    <3>3. k = m
      BY <3>1, <3>2 DEF Linked
    <3> QED
      BY <1>2, <3>1, <3>3
  <2>2. ASSUME i <= k, k < j
        PROVE  L[k] \in gone
    <3>1. k \in i..(j - 1)
      BY <1>1, <1>2, <2>2
    <3> QED
      BY <3>1 DEF GoneNodes
  <2> QED
    BY <2>1, <2>2
<1> HIDE DEF place, gone
<1>9. /\ DOMAIN NN = DOMAIN N \ gone /\ \A n \in DOMAIN NN : NN[n] = N[n]
      /\ DOMAIN NN \subseteq Nodes /\ NN \in [DOMAIN NN -> NodeVal]
  <2>1. DOMAIN N \subseteq Nodes /\ N \in [DOMAIN N -> NodeVal]
    BY DEF Linked
  <2>2. NN = [n \in DOMAIN N \ gone |-> N[n]]
    BY DEF Restrict, gone
  <2> QED
    BY <2>1, <2>2
<1>10. /\ DOMAIN HH = {k \in DOMAIN H : H[k] \notin gone}
       /\ \A k \in DOMAIN HH : HH[k] = H[k]
       /\ DOMAIN HH \subseteq Keys /\ HH \in [DOMAIN HH -> Nodes]
  <2>1. DOMAIN H \subseteq Keys /\ H \in [DOMAIN H -> Nodes]
    BY DEF Linked
  <2>2. HH = [k \in {k \in DOMAIN H : H[k] \notin gone} |-> H[k]]
    BY DEF Restrict, gone
  <2> QED
    BY <2>1, <2>2
<1>11. ASSUME NEW k \in 1..Len(LL)
       PROVE  /\ LL[k] = L[place(k)] /\ place(k) \in 1..Len(L) /\ L[place(k)] \notin gone
              /\ LL[k] \in DOMAIN NN /\ NN[LL[k]] = N[L[place(k)]]
  <2>1. LL[k] = L[place(k)] /\ place(k) \in 1..Len(L) /\ L[place(k)] \notin gone
    BY <1>5, <1>8
  <2>2. L[place(k)] \in DOMAIN N
    BY <2>1 DEF Linked
  <2> QED
    BY <1>9, <2>1, <2>2
<1>12. Linked(LL, HH, NN)
  <2>1. ASSUME NEW k \in 1..Len(LL), NEW m \in 1..Len(LL), LL[k] = LL[m]
        PROVE  k = m
    <3>1. place(k) = place(m)
      <4>1. /\ place(k) \in 1..Len(L) /\ place(m) \in 1..Len(L)
            /\ L[place(k)] = L[place(m)]
        BY <1>11, <2>1
      <4> QED
        BY <4>1 DEF Linked
    <3>2. ~(place(k) < place(m)) /\ ~(place(m) < place(k))
      <4>1. place(k) \in 1..Len(L)
        BY <1>11
      <4> QED
        BY <1>1, <3>1, <4>1
    <3>3. k \in Nat /\ m \in Nat
      BY <1>4
    <3> QED
      BY <1>6, <3>2, <3>3
  <2>2. ASSUME NEW k \in 1..Len(LL)
        PROVE  LL[k] \in DOMAIN NN
    BY <1>11
  <2>3. ASSUME NEW n \in DOMAIN NN
        PROVE  \E k \in 1..Len(LL) : LL[k] = n
    <3>1. PICK k \in 1..Len(L) : L[k] = n
      BY <1>9 DEF Linked
    <3>2. ~(i <= k /\ k < j)
      BY <1>8, <1>9, <3>1
    <3>3. PICK m \in 1..Len(LL) : place(m) = k
      BY <1>7, <3>2
    <3> QED
      BY <1>11, <3>1, <3>3
  <2>4. ASSUME NEW k \in 1..Len(LL)
        PROVE  NN[LL[k]].key \in DOMAIN HH /\ HH[NN[LL[k]].key] = LL[k]
    <3>1. /\ LL[k] = L[place(k)] /\ place(k) \in 1..Len(L) /\ L[place(k)] \notin gone
          /\ NN[LL[k]] = N[L[place(k)]]
      BY <1>11
    <3>2. N[L[place(k)]].key \in DOMAIN H /\ H[N[L[place(k)]].key] = L[place(k)]
      BY <3>1 DEF Linked
    <3> QED
      BY <1>10, <3>1, <3>2
  <2>5. ASSUME NEW kk \in DOMAIN HH
        PROVE  \E k \in 1..Len(LL) : NN[LL[k]].key = kk
    <3>1. kk \in DOMAIN H /\ H[kk] \notin gone
      BY <1>10
    <3>2. PICK k \in 1..Len(L) : N[L[k]].key = kk
      BY <3>1 DEF Linked
    <3>3. H[kk] = L[k]
      BY <3>2 DEF Linked
    <3>4. ~(i <= k /\ k < j)
      BY <1>8, <3>1, <3>3
    <3>5. PICK m \in 1..Len(LL) : place(m) = k
      BY <1>7, <3>4
    <3> QED
      BY <1>11, <3>2, <3>5
  <2> QED
    BY <1>3, <1>9, <1>10, <2>1, <2>2, <2>3, <2>4, <2>5 DEF Linked
<1>13. Aged(LL, NN, t)
  <2>1. ASSUME NEW k \in 1..Len(LL)
        PROVE  NN[LL[k]].stamp <= t
    BY <1>11 DEF Aged
  <2>2. ASSUME NEW k \in 1..Len(LL), NEW m \in 1..Len(LL), k < m
        PROVE  NN[LL[k]].stamp >= NN[LL[m]].stamp
    <3>1. place(k) < place(m)
      BY <1>6, <2>2
    <3>2. /\ place(k) \in 1..Len(L) /\ NN[LL[k]] = N[L[place(k)]]
          /\ place(m) \in 1..Len(L) /\ NN[LL[m]] = N[L[place(m)]]
      BY <1>11
    <3> QED
      BY <3>1, <3>2 DEF Aged
  <2> QED
    BY <2>1, <2>2 DEF Aged
<1>14. Shown(LL, NN) = Without2(Shown(L, N), i, j)
  <2> DEFINE s == Shown(L, N)
             u == Without2(s, i, j)
  <2>1. s \in Seq(EntrySet) /\ Len(s) = Len(L)
    BY NodeTypes
  <2>2. \A k \in 1..Len(L) : s[k] = EntryOf(N[L[k]])
    BY DEF Shown, EntryOf
  <2> HIDE DEF s
  <2>3. i \in 1..(Len(s) + 1) /\ j \in i..(Len(s) + 1)
    BY <2>1
  <2>4. /\ u \in Seq(EntrySet) /\ Len(u) = Len(s) - (j - i)
        /\ \A k \in 1..(i - 1) : u[k] = s[k]
        /\ \A k \in i..(Len(s) - (j - i)) : u[k] = s[k + (j - i)]
    BY <2>1, <2>3, CutOut
  <2> HIDE DEF u
  <2>5. Shown(LL, NN) \in Seq(EntrySet) /\ Len(Shown(LL, NN)) = Len(LL)
    BY <1>12, NodeTypes
  <2>6. ASSUME NEW k \in 1..Len(LL)
        PROVE  Shown(LL, NN)[k] = u[k]
    <3>1. Shown(LL, NN)[k] = EntryOf(NN[LL[k]])
      BY DEF Shown, EntryOf
    <3>2. Shown(LL, NN)[k] = s[place(k)]
      BY <1>11, <2>2, <3>1
    <3>3. CASE k < i
      <4>1. k \in 1..(i - 1) /\ place(k) = k
        BY <1>2, <1>4, <3>3 DEF place
      <4> QED
        BY <2>4, <3>2, <4>1
    <3>4. CASE ~(k < i)
      <4>1. k \in i..(Len(s) - (j - i)) /\ place(k) = k + (j - i)
        BY <1>2, <1>3, <1>4, <2>1, <3>4 DEF place
      <4> QED
        BY <2>4, <3>2, <4>1
    <3> QED
      BY <3>3, <3>4
  <2>7. Len(Shown(LL, NN)) = Len(u)
    BY <1>3, <2>1, <2>4, <2>5
  <2>8. \A k \in 1..Len(Shown(LL, NN)) : Shown(LL, NN)[k] = u[k]
    BY <2>5, <2>6
  <2>9. Shown(LL, NN) = u
    BY <2>4, <2>5, <2>7, <2>8, SameSeq
  <2> QED
    BY <2>9 DEF u, s
<1> QED
  BY <1>3, <1>12, <1>13, <1>14 DEF LL

-----------------------------------------------------------------------------
(***************************************************************************)
(* The record of a container, field by field.                              *)
(***************************************************************************)
CacheOf(l, h, n, b, m, x) ==
  [list |-> l, hash |-> h, node |-> n, buckets |-> b, max_size |-> m, min_expire |-> x]
IsCache(c) == c = CacheOf(c.list, c.hash, c.node, c.buckets, c.max_size, c.min_expire)

SetLinks(c, l, h, n) == [c EXCEPT !.list = l, !.hash = h, !.node = n]
SetListHash(c, l, h) == [c EXCEPT !.list = l, !.hash = h]
SetListNode(c, l, n) == [c EXCEPT !.list = l, !.node = n]

\* The fields of a container of which some are replaced.
LEMMA SetFields ==
  ASSUME NEW c, IsCache(c), NEW l, NEW h, NEW n
  PROVE  /\ SetLinks(c, l, h, n) = CacheOf(l, h, n, c.buckets, c.max_size, c.min_expire)
         /\ SetListHash(c, l, h) = CacheOf(l, h, c.node, c.buckets, c.max_size, c.min_expire)
         /\ SetListNode(c, l, n) = CacheOf(l, c.hash, n, c.buckets, c.max_size, c.min_expire)
<1> DEFINE l0 == c.list
           h0 == c.hash
           n0 == c.node
           b0 == c.buckets
           m0 == c.max_size
           x0 == c.min_expire
<1>1. c = CacheOf(l0, h0, n0, b0, m0, x0)
  BY DEF IsCache
<1> HIDE DEF l0, h0, n0, b0, m0, x0
<1> DEFINE c1 == [c EXCEPT !.list = l]
           c2 == [c1 EXCEPT !.hash = h]
<1>2. /\ SetListNode(c, l, n) = [c1 EXCEPT !.node = n]
      /\ SetListHash(c, l, h) = c2
      /\ SetLinks(c, l, h, n) = [c2 EXCEPT !.node = n]
  BY DEF SetLinks, SetListHash, SetListNode
<1>3. c1 = CacheOf(l, h0, n0, b0, m0, x0)
  BY <1>1 DEF CacheOf
<1> HIDE DEF c1
<1>4. [c1 EXCEPT !.node = n] = CacheOf(l, h0, n, b0, m0, x0)
  BY <1>3 DEF CacheOf
<1>5. c2 = CacheOf(l, h, n0, b0, m0, x0)
  BY <1>3 DEF CacheOf
<1> HIDE DEF c2
<1>6. [c2 EXCEPT !.node = n] = CacheOf(l, h, n, b0, m0, x0)
  BY <1>5 DEF CacheOf
<1> QED
  BY <1>2, <1>4, <1>5, <1>6 DEF l0, h0, n0, b0, m0, x0

(***************************************************************************)
(* What holds of every container, when the latest stamp it may bear is t:  *)
(* its three structures are in step, and the table is large enough.        *)
(***************************************************************************)
Sound(c, t) ==
  /\ IsCache(c)
  /\ Linked(c.list, c.hash, c.node)
  /\ Aged(c.list, c.node, t)
  /\ c.buckets \in Nat /\ Len(c.list) <= c.buckets /\ MinBuckets <= c.buckets
  /\ c.max_size \in Limits \cup {NoLimit}
  /\ c.min_expire \in Expires \cup {NoExpire}

\* An untimed container has at most one entry too many.
Capped(c, kd) == kd = "lru" /\ c.max_size # NoLimit => Len(c.list) <= c.max_size + 1

\* The stamp an entry gets now.
StampOf(kd, nw) == IF kd = "lru" THEN 0 ELSE nw

\* What the iterators show, in terms of the list and the nodes.
LEMMA EntriesShown ==
  ASSUME NEW c
  PROVE  Entries(c) = Shown(c.list, c.node)
BY DEF Entries, Shown, Size

\* auto_rehash() changes the table only, and leaves room for every node.
LEMMA AutoRehashRoom ==
  ASSUME NEW c, NEW t,
         IsCache(c),
         Linked(c.list, c.hash, c.node), Aged(c.list, c.node, t),
         c.buckets \in Nat, MinBuckets <= c.buckets, Len(c.list) <= 2 * c.buckets,
         c.max_size \in Limits \cup {NoLimit}, c.min_expire \in Expires \cup {NoExpire}
  PROVE  /\ Sound(AutoRehash(c), t)
         /\ AutoRehash(c).list = c.list /\ AutoRehash(c).node = c.node
         /\ AutoRehash(c).max_size = c.max_size
<1>1. Len(c.list) \in Nat /\ MinBuckets \in Nat
  BY NodeTypes, LruAssumption
<1>2. ASSUME NEW b \in Nat, Len(c.list) <= b, MinBuckets <= b
      PROVE  /\ Sound(Rehash(c, b), t)
             /\ Rehash(c, b).list = c.list /\ Rehash(c, b).node = c.node
             /\ Rehash(c, b).max_size = c.max_size
  <2> DEFINE d == Rehash(c, b)
  <2>1. d = CacheOf(c.list, c.hash, c.node, b, c.max_size, c.min_expire)
    BY DEF Rehash, CacheOf, IsCache
  <2> HIDE DEF d
  <2>2. /\ d.list = c.list /\ d.hash = c.hash /\ d.node = c.node /\ d.buckets = b
        /\ d.max_size = c.max_size /\ d.min_expire = c.min_expire
    BY <2>1 DEF CacheOf
  <2>3. Sound(d, t)
    BY <1>2, <2>1, <2>2 DEF Sound, IsCache
  <2> QED
    BY <2>2, <2>3 DEF d
<1>3. CASE Len(c.list) > c.buckets
  <2>1. c.buckets * 2 \in Nat /\ Len(c.list) <= c.buckets * 2 /\ MinBuckets <= c.buckets * 2
    BY <1>1
  <2>2. AutoRehash(c) = Rehash(c, c.buckets * 2)
    BY <1>3 DEF AutoRehash, Size
  <2> QED
    BY <1>2, <2>1, <2>2
<1>4. CASE ~(Len(c.list) > c.buckets) /\ Len(c.list) > MinBuckets /\ Len(c.list) < c.buckets \div 2
  <2>1. c.buckets \div 2 \in Nat
    BY <1>1
  <2>2. Len(c.list) <= c.buckets \div 2 /\ MinBuckets <= c.buckets \div 2
    BY <1>1, <1>4, <2>1
  <2>3. AutoRehash(c) = Rehash(c, c.buckets \div 2)
    BY <1>4 DEF AutoRehash, Size
  <2> QED
    BY <1>2, <2>1, <2>2, <2>3
<1>5. CASE ~(Len(c.list) > c.buckets) /\ ~(Len(c.list) > MinBuckets /\ Len(c.list) < c.buckets \div 2)
  <2>1. AutoRehash(c) = c
    BY <1>5 DEF AutoRehash, Size
  <2>2. Len(c.list) <= c.buckets
    BY <1>1, <1>5
  <2>3. Sound(c, t)
    BY <2>2 DEF Sound
  <2> QED
    BY <2>1, <2>3
<1> QED
  BY <1>3, <1>4, <1>5

\* What push() of e makes of a container c, in the words of LruSpec.
Pushed(c, e, d, kd) ==
  \/ \E p \in 1..Len(Entries(c)) :
       /\ Entries(c)[p].key = e.key
       /\ Entries(d) = <<EntryOf(e)>> \o RemoveAt(Entries(c), p)
  \/ /\ \A p \in 1..Len(Entries(c)) : Entries(c)[p].key # e.key
     /\ kd = "lru" => ~OverLimit(c)
     /\ Entries(d) = <<EntryOf(e)>> \o Entries(c)
  \/ /\ \A p \in 1..Len(Entries(c)) : Entries(c)[p].key # e.key
     /\ OverLimit(c) /\ Entries(c) # <<>>
     /\ Entries(d) = <<EntryOf(e)>> \o Front(Entries(c))

\* push() keeps a container sound and its limits.
StillSound(c, d, t, kd) ==
  /\ Sound(d, t) /\ Capped(d, kd)
  /\ d.max_size = c.max_size

\* First case.
LEMMA UpdateCase ==
  ASSUME NEW c, NEW t \in Nat, NEW kd, Sound(c, t), Capped(c, kd),
         NEW e \in NodeVal, e.stamp = t, e.key \in DOMAIN c.hash
  PROVE  StillSound(c, Update(c, e), t, kd) /\ Pushed(c, e, Update(c, e), kd)
<1> DEFINE L == c.list
           N == c.node
           n == c.hash[e.key]
           d == Update(c, e)
<1>1. Linked(L, c.hash, N) /\ Aged(L, N, t)
  BY DEF Sound
<1>2. PICK p \in 1..Len(L) : N[L[p]].key = e.key
  BY <1>1 DEF Linked
<1>3. n = L[p]
  BY <1>1, <1>2 DEF Linked
<1>4. \A i \in 1..Len(L) : L[i] = n => i = p
  BY <1>1, <1>3 DEF Linked
<1>5. DOMAIN L = 1..Len(L)
  <2>1. L \in Seq(Nodes)
    BY <1>1 DEF Linked
  <2> QED
    BY <2>1
<1>6. PositionOf(c, n) = p
  BY <1>3, <1>4, <1>5 DEF PositionOf
<1>7. Moved(L, N, t, p, e, c.hash)
  BY <1>1, <1>2, UpdateLinks
<1>8. d = CacheOf(<<L[p]>> \o RemoveAt(L, p), c.hash, With(N, L[p], e),
                 c.buckets, c.max_size, c.min_expire)
  <2>1. d = SetListNode(c, <<L[p]>> \o RemoveAt(L, p), With(N, L[p], e))
    BY <1>3, <1>6 DEF Update, SetListNode
  <2>2. IsCache(c)
    BY DEF Sound
  <2> QED
    BY <2>1, <2>2, SetFields
<1> HIDE DEF d
<1>9. /\ d.list = <<L[p]>> \o RemoveAt(L, p) /\ d.hash = c.hash /\ d.node = With(N, L[p], e)
      /\ d.buckets = c.buckets /\ d.max_size = c.max_size /\ d.min_expire = c.min_expire
  BY <1>8 DEF CacheOf
<1>10. /\ Linked(d.list, d.hash, d.node) /\ Aged(d.list, d.node, t) /\ Len(d.list) = Len(L)
       /\ Shown(d.list, d.node) = <<EntryOf(e)>> \o RemoveAt(Shown(L, N), p)
  BY <1>7, <1>9 DEF Moved
<1>11. Sound(d, t)
  BY <1>8, <1>9, <1>10 DEF Sound, IsCache
<1>12. Capped(d, kd)
  BY <1>9, <1>10 DEF Capped
<1>13. p \in 1..Len(Entries(c)) /\ Entries(c)[p].key = e.key
  <2>1. Entries(c) = Shown(L, N) /\ Len(Shown(L, N)) = Len(L)
    BY <1>1, EntriesShown, NodeTypes
  <2>2. Shown(L, N)[p].key = e.key
    BY <1>2 DEF Shown
  <2> QED
    BY <1>2, <2>1, <2>2
<1>14. Entries(d) = <<EntryOf(e)>> \o RemoveAt(Entries(c), p)
  BY <1>10, EntriesShown
<1>15. Pushed(c, e, d, kd)
  BY <1>13, <1>14 DEF Pushed
<1> QED
  BY <1>9, <1>11, <1>12, <1>15 DEF d, StillSound

\* A key that the hash set does not know is not shown.
LEMMA NewKey ==
  ASSUME NEW c, NEW t, Sound(c, t), NEW k
  PROVE  k \notin DOMAIN c.hash <=> \A p \in 1..Len(Entries(c)) : Entries(c)[p].key # k
<1>1. Linked(c.list, c.hash, c.node)
  BY DEF Sound
<1>2. Entries(c) = Shown(c.list, c.node) /\ Len(Shown(c.list, c.node)) = Len(c.list)
  BY <1>1, EntriesShown, NodeTypes
<1>3. \A p \in 1..Len(c.list) : Shown(c.list, c.node)[p].key = c.node[c.list[p]].key
  BY DEF Shown
<1>4. \A p \in 1..Len(c.list) : c.node[c.list[p]].key \in DOMAIN c.hash
  BY <1>1 DEF Linked
<1>5. \A kk \in DOMAIN c.hash : \E p \in 1..Len(c.list) : c.node[c.list[p]].key = kk
  BY <1>1 DEF Linked
<1>6. Entries(c) = Shown(c.list, c.node) /\ Len(Entries(c)) = Len(c.list)
  BY <1>2
<1>7. \A p \in 1..Len(Entries(c)) : Entries(c)[p].key = c.node[c.list[p]].key
  BY <1>3, <1>6
<1>8. ASSUME k \in DOMAIN c.hash
      PROVE  \E p \in 1..Len(Entries(c)) : Entries(c)[p].key = k
  BY <1>5, <1>6, <1>7, <1>8
<1>9. ASSUME NEW p \in 1..Len(Entries(c)), Entries(c)[p].key = k
      PROVE  k \in DOMAIN c.hash
  BY <1>4, <1>6, <1>7, <1>9
<1> QED
  BY <1>8, <1>9

\* Second case.
LEMMA ReuseCase ==
  ASSUME NEW c, NEW t \in Nat, NEW kd, Sound(c, t), Capped(c, kd),
         NEW e \in NodeVal, e.stamp = t, e.key \notin DOMAIN c.hash,
         c.list # <<>>, OverLimit(c)
  PROVE  StillSound(c, Reuse(c, e), t, kd) /\ Pushed(c, e, Reuse(c, e), kd)
<1> DEFINE L == c.list
           H == c.hash
           N == c.node
           p == Len(L)
           d == Reuse(c, e)
<1>1. Linked(L, H, N) /\ Aged(L, N, t)
  BY DEF Sound
<1>2. L \in Seq(Nodes)
  BY <1>1 DEF Linked
<1>3. p \in 1..Len(L)
  BY <1>2
<1>4. Front(L) = RemoveAt(L, p) /\ Last(L) = L[p]
  BY <1>2, FrontRemoves DEF Last
<1>5. Moved(L, N, t, p, e, With(Without(H, L[p]), e.key, L[p]))
  BY <1>1, <1>3, ReuseLinks
<1>6. d = CacheOf(<<L[p]>> \o RemoveAt(L, p), With(Without(H, L[p]), e.key, L[p]),
                 With(N, L[p], e), c.buckets, c.max_size, c.min_expire)
  <2>1. d = SetLinks(c, <<L[p]>> \o RemoveAt(L, p),
                     With(Without(H, L[p]), e.key, L[p]), With(N, L[p], e))
    BY <1>4 DEF Reuse, SetLinks
  <2>2. IsCache(c)
    BY DEF Sound
  <2> QED
    BY <2>1, <2>2, SetFields
<1> HIDE DEF d, p
<1>7. /\ d.list = <<L[p]>> \o RemoveAt(L, p) /\ d.hash = With(Without(H, L[p]), e.key, L[p])
      /\ d.node = With(N, L[p], e)
      /\ d.buckets = c.buckets /\ d.max_size = c.max_size /\ d.min_expire = c.min_expire
  BY <1>6 DEF CacheOf
<1>8. /\ Linked(d.list, d.hash, d.node) /\ Aged(d.list, d.node, t) /\ Len(d.list) = Len(L)
      /\ Shown(d.list, d.node) = <<EntryOf(e)>> \o RemoveAt(Shown(L, N), p)
  BY <1>5, <1>7 DEF Moved
<1>9. Sound(d, t)
  BY <1>6, <1>7, <1>8 DEF Sound, IsCache
<1>10. Capped(d, kd)
  BY <1>7, <1>8 DEF Capped
<1>11. /\ Entries(c) = Shown(L, N) /\ Shown(L, N) \in Seq(EntrySet)
       /\ Len(Shown(L, N)) = Len(L)
  BY <1>1, EntriesShown, NodeTypes
<1>12. Entries(c) # <<>>
  <2>1. Len(L) # 0
    BY <1>2, <1>3 DEF p
  <2> QED
    BY <1>11, <2>1
<1>13. Front(Entries(c)) = RemoveAt(Entries(c), p)
  <2>1. Front(Entries(c)) = RemoveAt(Entries(c), Len(Entries(c)))
    BY <1>11, FrontRemoves
  <2> QED
    BY <1>11, <2>1 DEF p
<1>14. Entries(d) = <<EntryOf(e)>> \o Front(Entries(c))
  BY <1>8, <1>11, <1>13, EntriesShown
<1>15. Pushed(c, e, d, kd)
  BY <1>12, <1>14, NewKey DEF Pushed
<1> QED
  BY <1>7, <1>9, <1>10, <1>15 DEF d, StillSound

\* Third case.
LEMMA GrowCase ==
  ASSUME NEW c, NEW t \in Nat, NEW kd, Sound(c, t), Capped(c, kd),
         NEW e \in NodeVal, e.stamp = t, e.key \notin DOMAIN c.hash,
         kd = "lru" => ~OverLimit(c)
  PROVE  StillSound(c, Grow(c, e), t, kd) /\ Pushed(c, e, Grow(c, e), kd)
<1> DEFINE L == c.list
           H == c.hash
           N == c.node
           n == NewNode(c)
           b == [c EXCEPT !.list = <<n>> \o @, !.hash = With(@, e.key, n), !.node = With(@, n, e)]
           d == Grow(c, e)
<1>1. Linked(L, H, N) /\ Aged(L, N, t)
  BY DEF Sound
<1>2. n \in Nodes /\ n \notin DOMAIN N
  <2>1. \E m \in Nodes : m \notin DOMAIN N
    BY <1>1, FreshNode
  <2> QED
    BY <2>1 DEF NewNode
<1>3. d = AutoRehash(b)
  BY DEF Grow
<1> HIDE DEF n
<1>4. b = CacheOf(<<n>> \o L, With(H, e.key, n), With(N, n, e),
                 c.buckets, c.max_size, c.min_expire)
  <2>1. b = SetLinks(c, <<n>> \o L, With(H, e.key, n), With(N, n, e))
    BY DEF SetLinks
  <2>2. IsCache(c)
    BY DEF Sound
  <2> HIDE DEF b
  <2> QED
    BY <2>1, <2>2, SetFields
<1> HIDE DEF d, b
<1>5. /\ b.list = <<n>> \o L /\ b.hash = With(H, e.key, n) /\ b.node = With(N, n, e)
      /\ b.buckets = c.buckets /\ b.max_size = c.max_size /\ b.min_expire = c.min_expire
  BY <1>4 DEF CacheOf
<1>6. /\ Linked(<<n>> \o L, With(H, e.key, n), With(N, n, e))
      /\ Aged(<<n>> \o L, With(N, n, e), t)
      /\ Len(<<n>> \o L) = Len(L) + 1
      /\ Shown(<<n>> \o L, With(N, n, e)) = <<EntryOf(e)>> \o Shown(L, N)
  BY <1>1, <1>2, GrowLinks
<1>7. Len(L) \in Nat
  BY <1>1, NodeTypes
<1>8. Len(b.list) <= 2 * b.buckets
  <2>1. /\ c.buckets \in Nat /\ Len(L) <= c.buckets /\ MinBuckets <= c.buckets
        /\ MinBuckets \in Nat /\ MinBuckets >= 1
    BY LruAssumption DEF Sound
  <2> QED
    BY <1>5, <1>6, <1>7, <2>1
<1>9. /\ Sound(d, t) /\ d.list = b.list /\ d.node = b.node /\ d.max_size = b.max_size
  <2>1. IsCache(b)
    BY <1>4, <1>5 DEF IsCache
  <2>2. Linked(b.list, b.hash, b.node) /\ Aged(b.list, b.node, t)
    BY <1>5, <1>6
  <2>3. /\ b.buckets \in Nat /\ MinBuckets <= b.buckets
        /\ b.max_size \in Limits \cup {NoLimit} /\ b.min_expire \in Expires \cup {NoExpire}
    BY <1>5 DEF Sound
  <2> QED
    BY <1>3, <1>8, <2>1, <2>2, <2>3, AutoRehashRoom
<1>10. Capped(d, kd)
  <2>1. ASSUME kd = "lru", d.max_size # NoLimit
        PROVE  Len(d.list) <= d.max_size + 1
    <3>1. c.max_size \in Nat /\ d.max_size = c.max_size
      BY <1>5, <1>9, <2>1, LruAssumption DEF Sound
    <3>2. ~(Len(L) > c.max_size)
      BY <1>5, <1>9, <2>1 DEF OverLimit, Size
    <3>3. Len(d.list) = Len(L) + 1
      BY <1>5, <1>6, <1>9
    <3> QED
      BY <1>7, <3>1, <3>2, <3>3
  <2> QED
    BY <2>1 DEF Capped
<1>11. Entries(d) = <<EntryOf(e)>> \o Entries(c)
  BY <1>5, <1>6, <1>9, EntriesShown
<1>12. Pushed(c, e, d, kd)
  BY <1>11, NewKey DEF Pushed
<1> QED
  BY <1>5, <1>9, <1>10, <1>12 DEF d, StillSound

\* push(): whatever its case, the container stays sound and what is shown changes
\* as LruSpec says.
LEMMA PushCases ==
  ASSUME NEW c, NEW t \in Nat, Sound(c, t), Capped(c, kind),
         NEW e \in NodeVal, e.stamp = t, NEW b, kind \in Kinds
  PROVE  StillSound(c, PushEntry(c, e, b), t, kind) /\ Pushed(c, e, PushEntry(c, e, b), kind)
<1>1. CASE e.key \in DOMAIN c.hash
  BY <1>1, UpdateCase DEF PushEntry
<1>2. CASE e.key \notin DOMAIN c.hash /\ c.list # <<>> /\ IsLimits(c, b)
  <2>1. OverLimit(c)
    BY <1>2 DEF IsLimits, TimedSetLimits, TimedMapLimits
  <2>2. PushEntry(c, e, b) = Reuse(c, e)
    BY <1>2 DEF PushEntry
  <2> QED
    BY <1>2, <2>1, <2>2, ReuseCase
<1>3. CASE e.key \notin DOMAIN c.hash /\ ~(c.list # <<>> /\ IsLimits(c, b))
  <2>1. ASSUME kind = "lru"
        PROVE  ~OverLimit(c)
    <3>1. CASE c.list = <<>>
      <4>1. Len(c.list) = 0
        BY <3>1
      <4>2. c.max_size # NoLimit => c.max_size \in Nat
        BY LruAssumption DEF Sound
      <4> QED
        BY <4>1, <4>2 DEF OverLimit, Size
    <3>2. CASE c.list # <<>>
      BY <1>3, <2>1, <3>2 DEF IsLimits
    <3> QED
      BY <3>1, <3>2
  <2>2. PushEntry(c, e, b) = Grow(c, e)
    BY <1>3 DEF PushEntry
  <2> QED
    BY <1>3, <2>1, <2>2, GrowCase
<1> QED
  BY <1>1, <1>2, <1>3

\* erase(beg, end) removes what it is told.
LEMMA EraseSound ==
  ASSUME NEW c, NEW t \in Nat, Sound(c, t),
         NEW i \in 1..(Len(c.list) + 1), NEW j \in i..(Len(c.list) + 1)
  PROVE  LET d == ErasePositions(c, i, j)
         IN  /\ Sound(d, t)
             /\ d.max_size = c.max_size /\ d.buckets = c.buckets
             /\ Len(d.list) = Len(c.list) - (j - i)
             /\ Entries(d) = Without2(Entries(c), i, j)
<1> DEFINE L == c.list
           HH == Restrict(c.hash, {k \in DOMAIN c.hash : c.hash[k] \notin GoneNodes(L, i, j)})
           NN == Restrict(c.node, DOMAIN c.node \ GoneNodes(L, i, j))
           b == SetListHash(c, Without2(L, i, j), HH)
           d == ErasePositions(c, i, j)
<1>1. Linked(L, c.hash, c.node) /\ Aged(L, c.node, t) /\ IsCache(c)
  BY DEF Sound
<1>2. b = CacheOf(Without2(L, i, j), HH, c.node, c.buckets, c.max_size, c.min_expire)
  BY <1>1, SetFields
<1>3. d = [b EXCEPT !.node = Restrict(b.node, DOMAIN b.node \ GoneNodes(L, i, j))]
  BY DEF ErasePositions, DelNodes, SetListHash, GoneNodes, Without2
<1> HIDE DEF b, d, HH
<1>4. b.node = c.node
  BY <1>2 DEF CacheOf
<1>5. d = [b EXCEPT !.node = NN]
  BY <1>3, <1>4
<1> HIDE DEF NN
<1>6. d = CacheOf(Without2(L, i, j), HH, NN, c.buckets, c.max_size, c.min_expire)
  BY <1>2, <1>5 DEF CacheOf
<1>7. /\ d.list = Without2(L, i, j) /\ d.hash = HH /\ d.node = NN
      /\ d.buckets = c.buckets /\ d.max_size = c.max_size /\ d.min_expire = c.min_expire
  BY <1>6 DEF CacheOf
<1>8. IsCache(d)
  BY <1>6, <1>7 DEF IsCache
<1>9. /\ Linked(Without2(L, i, j), HH, NN)
      /\ Aged(Without2(L, i, j), NN, t)
      /\ Len(Without2(L, i, j)) = Len(L) - (j - i)
      /\ Shown(Without2(L, i, j), NN) = Without2(Shown(L, c.node), i, j)
  <2>1. HH = Restrict(c.hash, {k \in DOMAIN c.hash : c.hash[k] \notin GoneNodes(L, i, j)})
    BY DEF HH
  <2>2. NN = Restrict(c.node, DOMAIN c.node \ GoneNodes(L, i, j))
    BY DEF NN
  <2> QED
    BY <1>1, <2>1, <2>2, EraseLinks
<1>10. Sound(d, t)
  <2>1. Len(L) \in Nat /\ i \in Nat /\ j \in Nat /\ i <= j
    BY <1>1, NodeTypes
  <2>2. c.buckets \in Nat /\ Len(L) <= c.buckets
    BY DEF Sound
  <2>3. Len(d.list) <= d.buckets
    BY <1>7, <1>9, <2>1, <2>2
  <2> QED
    BY <1>7, <1>8, <1>9, <2>3 DEF Sound
<1>11. Entries(d) = Without2(Entries(c), i, j)
  BY <1>7, <1>9, EntriesShown
<1> QED
  BY <1>7, <1>9, <1>10, <1>11 DEF d

\* What a limit leaves of a container c, in the words of LruSpec.
Shrunk(c, d, kd) ==
  \E n \in 0..Len(Entries(c)) :
    /\ Entries(d) = SubSeq(Entries(c), 1, n)
    /\ \/ n = Len(Entries(c)) /\ (kd # "lru" \/ ~(c.max_size # NoLimit /\ n > c.max_size))
       \/ /\ n < Len(Entries(c)) /\ c.max_size # NoLimit /\ n >= c.max_size
          /\ kd = "lru" => n = c.max_size

\* shrink_to_fit() keeps a container sound, brings an untimed one to its limit and
\* takes away the oldest entries only.
LEMMA ShrinkCases ==
  ASSUME NEW c, NEW t \in Nat, Sound(c, t), NEW b, kind \in Kinds
  PROVE  StillSound(c, ShrinkToFit(c, b), t, kind) /\ Shrunk(c, ShrinkToFit(c, b), kind)
<1> DEFINE L == c.list
           Cut(n) == ErasePositions(c, n + 1, Len(L) + 1)
           Stops(n) == n = 0 \/ ~IsLimits(Cut(n), b)
           Largest(n) == Stops(n) /\ \A m \in (n + 1)..Len(L) : ~Stops(m)
           k == CHOOSE n \in 0..Len(L) : Largest(n)
           d == ShrinkToFit(c, b)
<1>1. Linked(L, c.hash, c.node) /\ Len(L) \in Nat
  BY NodeTypes DEF Sound
<1>2. d = AutoRehash(Cut(k))
  BY DEF ShrinkToFit
<1>3. k \in 0..Len(L) /\ Largest(k)
  <2> DEFINE T == {n \in 0..Len(L) : Stops(n)}
  <2>1. T \in SUBSET (0..Len(L)) /\ T # {}
    <3>1. 0 \in T
      BY <1>1
    <3> QED
      BY <3>1
  <2>2. PICK n \in T : \A m \in T : m <= n
    <3> HIDE DEF T
    <3> QED
      BY <1>1, <2>1, GreatestNumber
  <2>3. n \in 0..Len(L) /\ Stops(n)
    OBVIOUS
  <2> HIDE DEF Stops
  <2>4. ASSUME NEW m \in (n + 1)..Len(L)
        PROVE  ~Stops(m)
    <3>1. m \in 0..Len(L) /\ ~(m <= n)
      BY <1>1, <2>3
    <3> QED
      BY <2>2, <3>1
  <2>5. \E nn \in 0..Len(L) : Largest(nn)
    BY <2>3, <2>4
  <2> HIDE DEF Largest
  <2> QED
    BY <2>5
<1> HIDE DEF k
<1>4. ASSUME NEW n \in 0..Len(L)
      PROVE  /\ Sound(Cut(n), t) /\ Cut(n).max_size = c.max_size
             /\ Len(Cut(n).list) = n
             /\ Entries(Cut(n)) = SubSeq(Entries(c), 1, n)
  <2>1. n + 1 \in 1..(Len(L) + 1) /\ Len(L) + 1 \in (n + 1)..(Len(L) + 1)
    BY <1>1
  <2>2. /\ Sound(Cut(n), t) /\ Cut(n).max_size = c.max_size
        /\ Len(Cut(n).list) = Len(L) - ((Len(L) + 1) - (n + 1))
        /\ Entries(Cut(n)) = Without2(Entries(c), n + 1, Len(L) + 1)
    BY <2>1, EraseSound
  <2> HIDE DEF Cut
  <2>3. Len(Cut(n).list) = n
    BY <1>1, <2>2
  <2>4. Entries(c) \in Seq(EntrySet) /\ Len(Entries(c)) = Len(L)
    BY <1>1, EntriesShown, NodeTypes
  <2>5. Without2(Entries(c), n + 1, Len(L) + 1) = SubSeq(Entries(c), 1, n)
    <3>1. (n + 1) - 1 = n
      BY <1>1
    <3>2. SubSeq(Entries(c), Len(L) + 1, Len(L)) = << >>
      BY <1>1, SubSeqEmpty
    <3>3. SubSeq(Entries(c), 1, n) \in Seq(EntrySet)
      BY <1>1, <2>4
    <3>4. SubSeq(Entries(c), 1, n) \o << >> = SubSeq(Entries(c), 1, n)
      BY <3>3, ConcatEmptySeq
    <3> QED
      BY <2>4, <3>1, <3>2, <3>4 DEF Without2
  <2> QED
    BY <2>2, <2>3, <2>5
<1>5. ASSUME NEW n \in 0..Len(L)
      PROVE  OverLimit(Cut(n)) <=> c.max_size # NoLimit /\ n > c.max_size
  <2>1. Cut(n).max_size = c.max_size /\ Len(Cut(n).list) = n
    BY <1>4
  <2> HIDE DEF Cut
  <2> QED
    BY <2>1 DEF OverLimit, Size
<1> HIDE DEF Cut
<1>6. c.max_size # NoLimit => c.max_size \in Nat
  BY LruAssumption DEF Sound
<1>7. k < Len(L) => c.max_size # NoLimit /\ k >= c.max_size
  <2>1. ASSUME k < Len(L)
        PROVE  c.max_size # NoLimit /\ k >= c.max_size
    <3>1. k + 1 \in (k + 1)..Len(L) /\ k + 1 \in 0..Len(L)
      BY <1>1, <1>3, <2>1
    <3>2. IsLimits(Cut(k + 1), b)
      BY <1>3, <3>1
    <3>3. OverLimit(Cut(k + 1))
      BY <3>2 DEF IsLimits, TimedSetLimits, TimedMapLimits
    <3>4. c.max_size # NoLimit /\ k + 1 > c.max_size
      BY <1>5, <3>1, <3>3
    <3> QED
      BY <1>1, <1>3, <1>6, <3>4
  <2> QED
    BY <2>1
<1>8. kind = "lru" /\ c.max_size # NoLimit => k <= c.max_size
  <2>1. ASSUME kind = "lru", c.max_size # NoLimit
        PROVE  k <= c.max_size
    <3>1. CASE k = 0
      BY <1>6, <2>1, <3>1
    <3>2. CASE k # 0
      <4>1. ~IsLimits(Cut(k), b)
        BY <1>3, <3>2
      <4>2. ~OverLimit(Cut(k))
        BY <2>1, <4>1 DEF IsLimits
      <4> QED
        BY <1>1, <1>3, <1>5, <1>6, <2>1, <4>2
    <3> QED
      BY <3>1, <3>2
  <2> QED
    BY <2>1
<1>9. /\ Sound(d, t) /\ d.list = Cut(k).list /\ d.max_size = c.max_size
      /\ Entries(d) = SubSeq(Entries(c), 1, k)
  <2> DEFINE e == Cut(k)
  <2>1. /\ Sound(e, t) /\ e.max_size = c.max_size /\ Len(e.list) = k
        /\ Entries(e) = SubSeq(Entries(c), 1, k)
    BY <1>3, <1>4
  <2> HIDE DEF e
  <2>2. Len(e.list) <= 2 * e.buckets
    <3>1. Len(e.list) <= e.buckets /\ e.buckets \in Nat /\ k \in Nat
      BY <1>1, <1>3, <2>1 DEF Sound
    <3> QED
      BY <2>1, <3>1
  <2>3. /\ Sound(AutoRehash(e), t)
        /\ AutoRehash(e).list = e.list /\ AutoRehash(e).node = e.node
        /\ AutoRehash(e).max_size = e.max_size
    BY <2>1, <2>2, AutoRehashRoom DEF Sound
  <2>4. Entries(AutoRehash(e)) = Entries(e)
    BY <2>3, EntriesShown
  <2> QED
    BY <1>2, <2>1, <2>3, <2>4 DEF e
<1>10. Len(d.list) = k
  BY <1>3, <1>4, <1>9
<1> HIDE DEF d
<1>11. Capped(d, kind)
  <2>1. ASSUME kind = "lru", d.max_size # NoLimit
        PROVE  Len(d.list) <= d.max_size + 1
    <3>1. k <= c.max_size /\ c.max_size \in Nat /\ k \in Nat /\ d.max_size = c.max_size
      BY <1>1, <1>3, <1>6, <1>8, <1>9, <2>1
    <3> QED
      BY <1>10, <3>1
  <2> QED
    BY <2>1 DEF Capped
<1>12. Shrunk(c, d, kind)
  <2>1. Len(Entries(c)) = Len(L)
    BY <1>1, EntriesShown, NodeTypes
  <2>2. k \in 0..Len(Entries(c))
    BY <1>3, <2>1
  <2>3. CASE k = Len(L)
    <3>1. kind # "lru" \/ ~(c.max_size # NoLimit /\ k > c.max_size)
      BY <1>1, <1>3, <1>6, <1>8
    <3> QED
      BY <1>9, <2>1, <2>2, <2>3, <3>1 DEF Shrunk
  <2>4. CASE k < Len(L)
    <3>1. c.max_size # NoLimit /\ k >= c.max_size /\ (kind = "lru" => k = c.max_size)
      BY <1>1, <1>3, <1>6, <1>7, <1>8, <2>4
    <3> QED
      BY <1>9, <2>1, <2>2, <2>4, <3>1 DEF Shrunk
  <2>5. k = Len(L) \/ k < Len(L)
    BY <1>1, <1>3
  <2> QED
    BY <2>3, <2>4, <2>5
<1> QED
  BY <1>9, <1>11, <1>12 DEF d, StillSound

-----------------------------------------------------------------------------
(***************************************************************************)
(* Copies.                                                                 *)
(***************************************************************************)
\* The node made of the nth entry of src.
NodeAt(src, n) == NodeOf(Entries(src)[n].key, Entries(src)[n].val)

\* g are the containers the loop goes through, the first m of them.
Loop(src, dst, b, g, m) ==
  g = [n \in 0..m |-> IF n = 0 THEN dst ELSE PushEntry(g[n - 1], NodeAt(src, n), b)]

\* The loop can be run as far as one likes.
LEMMA LoopExists ==
  ASSUME NEW src, NEW dst, NEW b
  PROVE  \A m \in Nat : \E g : Loop(src, dst, b, g, m)
<1> DEFINE S == {m \in Nat : \E g : Loop(src, dst, b, g, m)}
<1>1. 0 \in S
  <2>1. Loop(src, dst, b, [n \in 0..0 |-> dst], 0)
    BY DEF Loop
  <2> QED
    BY <2>1
<1>2. ASSUME NEW m \in Nat, m \in S
      PROVE  m + 1 \in S
  <2>1. PICK g : Loop(src, dst, b, g, m)
    BY <1>2
  <2> DEFINE h == [n \in 0..(m + 1) |-> IF n <= m THEN g[n] ELSE PushEntry(g[m], NodeAt(src, n), b)]
  <2>2. \A n \in 0..m : g[n] = IF n = 0 THEN dst ELSE PushEntry(g[n - 1], NodeAt(src, n), b)
    BY <2>1 DEF Loop
  <2>3. ASSUME NEW n \in 0..(m + 1)
        PROVE  h[n] = IF n = 0 THEN dst ELSE PushEntry(h[n - 1], NodeAt(src, n), b)
    <3>1. CASE n = 0
      BY <2>2, <3>1
    <3>2. CASE n # 0 /\ n <= m
      <4>1. n - 1 \in 0..(m + 1) /\ n - 1 <= m
        BY <3>2
      <4>2. h[n - 1] = g[n - 1] /\ h[n] = g[n]
        BY <3>2, <4>1
      <4> QED
        BY <2>2, <3>2, <4>2
    <3>3. CASE n = m + 1
      <4>1. h[n] = PushEntry(g[m], NodeAt(src, n), b)
        BY <3>3
      <4>2. h[n - 1] = g[m]
        BY <3>3
      <4> QED
        BY <3>3, <4>1, <4>2
    <3> QED
      BY <3>1, <3>2, <3>3
  <2>4. Loop(src, dst, b, h, m + 1)
    BY <2>3 DEF Loop
  <2> HIDE DEF h
  <2> QED
    BY <2>4
<1> HIDE DEF S
<1>3. Nat \subseteq S
  BY <1>1, <1>2, SetInduction
<1> QED
  BY <1>3 DEF S

\* What PushAll() computes is where the loop ends.
LEMMA PushAllLoop ==
  ASSUME NEW src, NEW dst, NEW b, Size(src) \in Nat
  PROVE  \E g : /\ g[0] = dst
                /\ \A n \in 1..Size(src) : g[n] = PushEntry(g[n - 1], NodeAt(src, n), b)
                /\ PushAll(src, dst, b) = g[Size(src)]
<1> DEFINE m == Size(src)
           pushed == CHOOSE g : g = [n \in 0..m |->
                       IF n = 0 THEN dst
                       ELSE PushEntry(g[n - 1], NodeOf(Entries(src)[n].key, Entries(src)[n].val), b)]
<1>1. PushAll(src, dst, b) = pushed[m]
  BY DEF PushAll
<1>2. PICK f : Loop(src, dst, b, f, m)
  BY LoopExists
<1>3. f = [n \in 0..m |->
             IF n = 0 THEN dst
             ELSE PushEntry(f[n - 1], NodeOf(Entries(src)[n].key, Entries(src)[n].val), b)]
  BY <1>2 DEF Loop, NodeAt
<1>4. pushed = [n \in 0..m |->
                  IF n = 0 THEN dst
                  ELSE PushEntry(pushed[n - 1], NodeOf(Entries(src)[n].key, Entries(src)[n].val), b)]
  BY <1>3
<1> HIDE DEF pushed
<1>5. pushed[0] = dst
  BY <1>4
<1>6. \A n \in 1..m : pushed[n] = PushEntry(pushed[n - 1], NodeAt(src, n), b)
  BY <1>4 DEF NodeAt
<1> QED
  BY <1>1, <1>5, <1>6

\* The entries of a copy after the first n of the entries es have been pushed:
\* those pushed last, as many as the limit allows, the other way round.
Reversed(es, d, n) ==
  \E w \in 0..n :
    /\ Len(Entries(d)) = w
    /\ \A j \in 1..w : Entries(d)[j] = es[n + 1 - j]
    /\ w < n => d.max_size # NoLimit /\ w >= d.max_size + 1

\* One more entry is pushed to a copy.
LEMMA CopyStep ==
  ASSUME NEW src, NEW t \in Nat, Sound(src, t), kind \in Kinds,
         NEW c, Sound(c, t), Capped(c, kind),
         NEW n \in Nat, n + 1 <= Len(Entries(src)), Reversed(Entries(src), c, n),
         NEW e \in NodeVal, EntryOf(e) = Entries(src)[n + 1],
         NEW d, Pushed(c, e, d, kind), Sound(d, t), d.max_size = c.max_size
  PROVE  Reversed(Entries(src), d, n + 1)
<1> DEFINE es == Entries(src)
           s == Entries(c)
           u == Entries(d)
<1>1. es \in Seq(EntrySet) /\ s \in Seq(EntrySet) /\ u \in Seq(EntrySet)
  BY EntriesShown, NodeTypes DEF Sound
<1>2. \A i, j \in 1..Len(es) : es[i].key = es[j].key => i = j
  <2>1. Linked(src.list, src.hash, src.node) /\ es = Shown(src.list, src.node)
    BY EntriesShown DEF Sound
  <2>2. Len(es) = Len(src.list)
    BY <2>1, NodeTypes, SMTT(30)
  <2>3. \A i \in 1..Len(src.list) : es[i].key = src.node[src.list[i]].key
    BY <2>1, SMTT(30) DEF Shown
  <2> HIDE DEF es
  <2> QED
    BY <2>1, <2>2, <2>3, KeysDiffer
<1>3. EntryOf(e) \in EntrySet /\ EntryOf(e).key = e.key
  BY DEF NodeVal, EntryOf, EntrySet
<1>4. c.max_size # NoLimit => c.max_size \in Nat
  BY LruAssumption DEF Sound
<1>5. PICK w \in 0..n : /\ Len(s) = w
                        /\ \A j \in 1..w : s[j] = es[n + 1 - j]
                        /\ w < n => c.max_size # NoLimit /\ w >= c.max_size + 1
  BY DEF Reversed
<1> HIDE DEF es, s, u
<1>6. Len(es) \in Nat /\ n + 1 \in 1..Len(es)
  <2>1. Len(es) \in Nat /\ n + 1 <= Len(es)
    BY <1>1 DEF es
  <2> QED
    BY <2>1
<1>7. \A j \in 1..Len(s) : s[j].key # e.key
  <2>1. ASSUME NEW j \in 1..Len(s), s[j].key = e.key
        PROVE  FALSE
    <3>1. j \in 1..w /\ n + 1 - j \in 1..Len(es) /\ n + 1 - j # n + 1
      BY <1>5, <1>6
    <3>2. es[n + 1 - j].key = es[n + 1].key
      BY <1>3, <1>5, <2>1, <3>1 DEF es
    <3> QED
      BY <1>2, <1>6, <3>1, <3>2
  <2> QED
    BY <2>1
<1>8. CASE u = <<EntryOf(e)>> \o s
  <2>1. /\ Len(u) = Len(s) + 1 /\ u[1] = EntryOf(e)
        /\ \A i \in 2..(Len(s) + 1) : u[i] = s[i - 1]
    BY <1>1, <1>3, <1>8, PutFirst
  <2>2. w + 1 \in 0..(n + 1) /\ Len(u) = w + 1
    BY <1>5, <2>1
  <2>3. ASSUME NEW j \in 1..(w + 1)
        PROVE  u[j] = es[(n + 1) + 1 - j]
    <3>1. CASE j = 1
      BY <2>1, <3>1 DEF es
    <3>2. CASE j # 1
      <4>1. j \in 2..(Len(s) + 1) /\ j - 1 \in 1..w /\ n + 1 - (j - 1) = (n + 1) + 1 - j
        BY <1>5, <3>2
      <4> QED
        BY <1>5, <2>1, <4>1
    <3> QED
      BY <3>1, <3>2
  <2>4. ASSUME w + 1 < n + 1
        PROVE  d.max_size # NoLimit /\ w + 1 >= d.max_size + 1
    BY <1>4, <1>5, <2>4
  <2> QED
    BY <2>2, <2>3, <2>4 DEF Reversed, u, es
<1>9. CASE OverLimit(c) /\ s # <<>> /\ u = <<EntryOf(e)>> \o Front(s)
  <2>1. Len(s) # 0 /\ Len(s) \in Nat
    BY <1>1, <1>9
  <2>2. /\ Front(s) \in Seq(EntrySet) /\ Len(Front(s)) = Len(s) - 1
        /\ \A i \in 1..(Len(s) - 1) : Front(s)[i] = s[i]
    BY <1>1, <2>1, FrontFacts
  <2>3. /\ Len(u) = Len(Front(s)) + 1 /\ u[1] = EntryOf(e)
        /\ \A i \in 2..(Len(Front(s)) + 1) : u[i] = Front(s)[i - 1]
    BY <1>3, <1>9, <2>2, PutFirst
  <2>4. w \in 0..(n + 1) /\ Len(u) = w /\ w # 0
    BY <1>5, <2>1, <2>2, <2>3
  <2>5. ASSUME NEW j \in 1..w
        PROVE  u[j] = es[(n + 1) + 1 - j]
    <3>1. CASE j = 1
      BY <2>3, <3>1 DEF es
    <3>2. CASE j # 1
      <4>1. /\ j \in 2..(Len(Front(s)) + 1) /\ j - 1 \in 1..(Len(s) - 1) /\ j - 1 \in 1..w
            /\ n + 1 - (j - 1) = (n + 1) + 1 - j
        BY <1>5, <2>1, <2>2, <3>2
      <4> QED
        BY <1>5, <2>2, <2>3, <4>1
    <3> QED
      BY <3>1, <3>2
  <2>6. d.max_size # NoLimit /\ w >= d.max_size + 1
    <3>1. c.max_size # NoLimit /\ Len(c.list) > c.max_size
      BY <1>9 DEF OverLimit, Size
    <3>2. Len(s) = Len(c.list)
      BY EntriesShown, NodeTypes DEF Sound, s
    <3> QED
      BY <1>4, <1>5, <3>1, <3>2
  <2> QED
    BY <2>4, <2>5, <2>6 DEF Reversed, u, es
<1>10. u = <<EntryOf(e)>> \o s \/ (OverLimit(c) /\ s # <<>> /\ u = <<EntryOf(e)>> \o Front(s))
  BY <1>7 DEF Pushed, s, u
<1> QED
  BY <1>8, <1>9, <1>10

\* A container to which all entries of src have been pushed: it has the entries
\* pushed last, in the opposite order.
Copied(src, d, kd) ==
  \E w \in 0..Len(Entries(src)) :
    /\ Entries(d) = SubSeq(Reverse(Entries(src)), 1, w)
    /\ w < Len(Entries(src)) => d.max_size # NoLimit /\ w >= d.max_size + 1
    /\ kd = "lru" /\ d.max_size # NoLimit => w <= d.max_size + 1

\* An entry of a container makes a node, stamped with the time of the call.
LEMMA NodeAtType ==
  ASSUME NEW src, NEW t, Sound(src, t), NEW n \in 1..Len(Entries(src)),
         kind \in Kinds, now \in 0..MaxNow
  PROVE  /\ NodeAt(src, n) \in NodeVal
         /\ NodeAt(src, n).stamp = StampOf(kind, now)
         /\ EntryOf(NodeAt(src, n)) = Entries(src)[n]
<1>1. Entries(src) \in Seq(EntrySet)
  BY EntriesShown, NodeTypes DEF Sound
<1>2. Entries(src)[n] \in EntrySet
  BY <1>1
<1>3. 0 \in 0..MaxNow
  BY LruAssumption
<1> QED
  BY <1>2, <1>3 DEF EntrySet, NodeAt, NodeOf, LruNode, TimedNode, NodeVal, StampOf, EntryOf

\* The whole loop: the copy is sound, and what it shows is what Copied says.
LEMMA PushAllCases ==
  ASSUME NEW src, NEW dst, NEW b, kind \in Kinds, now \in 0..MaxNow,
         Sound(src, StampOf(kind, now)), Sound(dst, StampOf(kind, now)),
         Len(dst.list) = 0
  PROVE  /\ StillSound(dst, PushAll(src, dst, b), StampOf(kind, now), kind)
         /\ Copied(src, PushAll(src, dst, b), kind)
<1> DEFINE t == StampOf(kind, now)
           es == Entries(src)
           m == Len(es)
           d == PushAll(src, dst, b)
<1>1. t \in Nat
  BY LruAssumption DEF StampOf
<1> HIDE DEF t
<1>2. es \in Seq(EntrySet) /\ Size(src) = m /\ m \in Nat
  <2>1. Linked(src.list, src.hash, src.node)
    BY DEF Sound
  <2>2. es \in Seq(EntrySet) /\ m = Len(src.list) /\ Len(src.list) \in Nat
    BY <2>1, EntriesShown, NodeTypes
  <2> QED
    BY <2>2 DEF Size
<1>3. PICK g : /\ g[0] = dst
               /\ \A n \in 1..m : g[n] = PushEntry(g[n - 1], NodeAt(src, n), b)
               /\ d = g[m]
  BY <1>2, PushAllLoop, SMTT(30)
<1> DEFINE Fine(n) == StillSound(dst, g[n], t, kind) /\ Reversed(es, g[n], n)
           S == {n \in Nat : n <= m => Fine(n)}
<1>4. 0 \in S
  <2>1. Capped(dst, kind)
    <3>1. dst.max_size # NoLimit => dst.max_size \in Nat
      BY LruAssumption DEF Sound
    <3> QED
      BY <3>1 DEF Capped
  <2>2. Len(Entries(dst)) = 0
    <3>1. Linked(dst.list, dst.hash, dst.node)
      BY DEF Sound
    <3> QED
      BY <3>1, EntriesShown, NodeTypes
  <2>3. Reversed(es, dst, 0)
    <3>1. 0 \in 0..0 /\ ~(0 < 0) /\ \A j \in 1..0 : Entries(dst)[j] = es[0 + 1 - j]
      OBVIOUS
    <3> QED
      BY <2>2, <3>1 DEF Reversed
  <2>4. StillSound(dst, dst, t, kind)
    BY <2>1 DEF StillSound, t
  <2> QED
    BY <1>3, <2>3, <2>4
<1>5. ASSUME NEW n \in Nat, n \in S
      PROVE  n + 1 \in S
  <2>1. ASSUME n + 1 <= m
        PROVE  Fine(n + 1)
    <3> DEFINE c == g[n]
               e == NodeAt(src, n + 1)
               f == g[n + 1]
    <3>1. Fine(n)
      BY <1>2, <1>5, <2>1
    <3>2. n + 1 \in 1..m /\ (n + 1) - 1 = n
      BY <1>2, <2>1
    <3>3. f = PushEntry(c, e, b)
      BY <1>3, <3>2
    <3>4. e \in NodeVal /\ e.stamp = t /\ EntryOf(e) = es[n + 1]
      BY <3>2, NodeAtType DEF t
    <3>5. Sound(c, t) /\ Capped(c, kind) /\ c.max_size = dst.max_size
      BY <3>1 DEF StillSound
    <3> HIDE DEF c, e, f
    <3>6. StillSound(c, f, t, kind) /\ Pushed(c, e, f, kind)
      BY <1>1, <3>3, <3>4, <3>5, PushCases
    <3>7. Sound(f, t) /\ f.max_size = c.max_size /\ Capped(f, kind)
      BY <3>6 DEF StillSound
    <3>8. Sound(src, t) /\ Reversed(es, c, n)
      BY <3>1 DEF t, c
    <3>9. Reversed(es, f, n + 1)
      BY <1>1, <2>1, <3>4, <3>5, <3>6, <3>7, <3>8, CopyStep
    <3>10. StillSound(dst, f, t, kind)
      BY <3>5, <3>7 DEF StillSound
    <3> QED
      BY <3>9, <3>10 DEF f
  <2> HIDE DEF Fine
  <2> QED
    BY <2>1
<1> HIDE DEF S, Fine
<1>6. Nat \subseteq S
  BY <1>4, <1>5, SetInduction
<1>7. Fine(m)
  BY <1>2, <1>6 DEF S
<1>8. StillSound(dst, d, t, kind) /\ Reversed(es, d, m)
  BY <1>3, <1>7 DEF Fine
<1>9. Copied(src, d, kind)
  <2>1. PICK w \in 0..m : /\ Len(Entries(d)) = w
                          /\ \A j \in 1..w : Entries(d)[j] = es[m + 1 - j]
                          /\ w < m => d.max_size # NoLimit /\ w >= d.max_size + 1
    BY <1>8 DEF Reversed
  <2> DEFINE r == Reverse(es)
  <2>2. r \in Seq(EntrySet) /\ Len(r) = m /\ \A j \in 1..m : r[j] = es[(m - j) + 1]
    <3>1. \A j \in 1..m : (m - j) + 1 \in 1..m /\ es[(m - j) + 1] \in EntrySet
      BY <1>2
    <3> QED
      BY <1>2, <3>1 DEF Reverse
  <2> HIDE DEF r, m, es, d
  <2>3. /\ SubSeq(r, 1, w) \in Seq(EntrySet) /\ Len(SubSeq(r, 1, w)) = w
        /\ \A j \in 1..w : SubSeq(r, 1, w)[j] = r[j]
    <3>1. w \in Nat /\ w <= Len(r)
      BY <1>2, <2>1, <2>2
    <3> QED
      BY <2>2, <3>1
  <2>4. Sound(d, t) /\ Capped(d, kind)
    BY <1>8 DEF StillSound
  <2>5. Linked(d.list, d.hash, d.node)
    BY <2>4 DEF Sound
  <2>6. Entries(d) \in Seq(EntrySet) /\ Len(Entries(d)) = Len(d.list)
    BY <2>5, EntriesShown, NodeTypes
  <2>7. \A j \in 1..w : Entries(d)[j] = SubSeq(r, 1, w)[j]
    <3>1. ASSUME NEW j \in 1..w
          PROVE  Entries(d)[j] = SubSeq(r, 1, w)[j]
      <4>1. j \in 1..m /\ (m - j) + 1 = m + 1 - j
        BY <1>2
      <4>2. Entries(d)[j] = es[m + 1 - j]
        BY <2>1
      <4>3. r[j] = es[m + 1 - j]
        BY <2>2, <4>1
      <4>4. SubSeq(r, 1, w)[j] = r[j]
        BY <2>3
      <4> QED
        BY <4>2, <4>3, <4>4
    <3> QED
      BY <3>1
  <2>8. Entries(d) = SubSeq(r, 1, w)
    BY <2>1, <2>3, <2>6, <2>7, SameSeq
  <2>9. kind = "lru" /\ d.max_size # NoLimit => w <= d.max_size + 1
    BY <2>1, <2>4, <2>6 DEF Capped
  <2> QED
    BY <2>1, <2>8, <2>9 DEF Copied, r, m, es
<1> QED
  BY <1>8, <1>9 DEF t

-----------------------------------------------------------------------------
(***************************************************************************)
(* The inductive invariant, and what a step of one container leaves of it. *)
(***************************************************************************)
IInv ==
  /\ kind \in Kinds /\ now \in 0..MaxNow
  /\ cache = [o \in Objs |-> cache[o]]
  /\ \A o \in Objs : Sound(cache[o], StampOf(kind, now)) /\ Capped(cache[o], kind)

\* A container without entries is sound.
LEMMA EmptySound ==
  ASSUME NEW b \in Nat, MinBuckets <= b, NEW t
  PROVE  /\ Sound(CacheOf(<<>>, <<>>, <<>>, b, NoLimit, NoExpire), t)
         /\ CacheOf(<<>>, <<>>, <<>>, b, NoLimit, NoExpire).list = <<>>
         /\ CacheOf(<<>>, <<>>, <<>>, b, NoLimit, NoExpire).max_size = NoLimit
<1> DEFINE c == CacheOf(<<>>, <<>>, <<>>, b, NoLimit, NoExpire)
<1>1. /\ c.list = <<>> /\ c.hash = <<>> /\ c.node = <<>> /\ c.buckets = b
      /\ c.max_size = NoLimit /\ c.min_expire = NoExpire
  BY DEF CacheOf
<1>2. IsCache(c)
  BY <1>1 DEF IsCache
<1> HIDE DEF c
<1>3. Len(<<>>) = 0 /\ 1..Len(<<>>) = {} /\ DOMAIN <<>> = {} /\ <<>> \in Seq(Nodes)
  OBVIOUS
<1>4. <<>> \in [{} -> Nodes] /\ <<>> \in [{} -> NodeVal]
  OBVIOUS
<1>5. Linked(<<>>, <<>>, <<>>)
  BY <1>3, <1>4 DEF Linked
<1>6. Aged(<<>>, <<>>, t)
  BY <1>3 DEF Aged
<1>7. Len(c.list) <= c.buckets
  BY <1>1, <1>3
<1>8. Sound(c, t)
  BY <1>1, <1>2, <1>5, <1>6, <1>7 DEF Sound
<1> QED
  BY <1>1, <1>8 DEF c

\* Containers start sound.
LEMMA LruInitially ==
  ASSUME LruInit
  PROVE  IInv
<1>1. MinBuckets \in Nat /\ MaxNow \in Nat
  BY LruAssumption
<1>2. EmptyCache = CacheOf(<<>>, <<>>, <<>>, MinBuckets, NoLimit, NoExpire)
  BY DEF EmptyCache, CacheOf
<1>3. Sound(EmptyCache, StampOf(kind, now)) /\ EmptyCache.max_size = NoLimit
  BY <1>1, <1>2, EmptySound
<1>4. Capped(EmptyCache, kind)
  BY <1>3 DEF Capped
<1>5. \A o \in Objs : cache[o] = EmptyCache
  BY DEF LruInit
<1>6. cache = [o \in Objs |-> cache[o]]
  BY DEF LruInit
<1> QED
  BY <1>1, <1>3, <1>4, <1>5, <1>6 DEF IInv, LruInit

\* The stamp an entry gets now is a number.
LEMMA StampType ==
  ASSUME IInv
  PROVE  StampOf(kind, now) \in Nat
BY LruAssumption DEF IInv, StampOf

\* A step that replaces a container by a sound one.
LEMMA SetSound ==
  ASSUME IInv, NEW o \in Objs, NEW c, Set(o, c),
         Sound(c, StampOf(kind, now)), Capped(c, kind)
  PROVE  IInv'
<1>1. kind' = kind /\ now' = now /\ cache' = [cache EXCEPT ![o] = c]
  BY DEF Set
<1>2. cache = [p \in Objs |-> cache[p]]
  BY DEF IInv
<1>3. \A p \in Objs : cache'[p] = IF p = o THEN c ELSE cache[p]
  BY <1>1, <1>2
<1>4. cache' = [p \in Objs |-> cache'[p]]
  BY <1>1, <1>2
<1>5. \A p \in Objs : Sound(cache'[p], StampOf(kind, now)) /\ Capped(cache'[p], kind)
  BY <1>3 DEF IInv
<1> QED
  BY <1>1, <1>4, <1>5 DEF IInv

\* The state of LruSpec, as the containers stand for it.
Recent == [o \in Objs |-> Entries(cache[o])]
Bound == [o \in Objs |-> cache[o].max_size]
Evicts == kind = "lru"

\* What is seen of such a step.
LEMMA SetSeen ==
  ASSUME IInv, NEW o \in Objs, NEW c, Set(o, c)
  PROVE  /\ Recent' = [Recent EXCEPT ![o] = Entries(c)]
         /\ Bound' = [Bound EXCEPT ![o] = c.max_size]
         /\ Evicts' = Evicts
         /\ Recent[o] = Entries(cache[o]) /\ Bound[o] = cache[o].max_size
<1>1. kind' = kind /\ now' = now /\ cache' = [cache EXCEPT ![o] = c]
  BY DEF Set
<1>2. cache = [p \in Objs |-> cache[p]]
  BY DEF IInv
<1>3. \A p \in Objs : cache'[p] = IF p = o THEN c ELSE cache[p]
  BY <1>1, <1>2
<1>4. Recent' = [p \in Objs |-> Entries(cache'[p])] /\ Bound' = [p \in Objs |-> cache'[p].max_size]
  BY DEF Recent, Bound, Entries, Size
<1>5. Recent' = [Recent EXCEPT ![o] = Entries(c)]
  BY <1>3, <1>4 DEF Recent
<1>6. Bound' = [Bound EXCEPT ![o] = c.max_size]
  BY <1>3, <1>4 DEF Bound
<1> QED
  BY <1>1, <1>5, <1>6 DEF Evicts, Recent, Bound

(***************************************************************************)
(* push()                                                                  *)
(***************************************************************************)
\* What LruSpec says of a push() of e.
SeenPush(o, e) ==
  \/ \E i \in 1..Len(Recent[o]) :
       /\ Recent[o][i].key = e.key
       /\ Recent' = [Recent EXCEPT ![o] = <<e>> \o Lru!RemoveAt(Recent[o], i)]
  \/ /\ e.key \notin Lru!KeysOf(Recent[o])
     /\ Evicts => ~Lru!Over(Len(Recent[o]), Bound[o])
     /\ Recent' = [Recent EXCEPT ![o] = <<e>> \o Recent[o]]
  \/ /\ e.key \notin Lru!KeysOf(Recent[o])
     /\ Lru!Over(Len(Recent[o]), Bound[o]) /\ Recent[o] # <<>>
     /\ Recent' = [Recent EXCEPT ![o] = <<e>> \o Lru!Front(Recent[o])]

\* Such a step is a step of LruSpec.
LEMMA SpecPush ==
  ASSUME NEW o \in Objs, NEW k \in Keys, NEW v \in Vals,
         Bound' = Bound, Evicts' = Evicts, SeenPush(o, [key |-> k, val |-> v])
  PROVE  Lru!Next
<1>1. Lru!Push(o, [key |-> k, val |-> v])
  BY Zenon DEF Lru!Push, SeenPush, Recent, Bound, Evicts
<1>2. UNCHANGED (kind = "lru")
  BY DEF Evicts
<1> QED
  BY <1>1, <1>2, Zenon DEF Lru!Next

\* The helpers on sequences that LruSpec sees are the same.
LEMMA SameHelpers ==
  ASSUME NEW s, NEW i
  PROVE  /\ Lru!RemoveAt(s, i) = RemoveAt(s, i)
         /\ Lru!Front(s) = Front(s) /\ Lru!Reverse(s) = Reverse(s)
BY DEF Lru!RemoveAt, RemoveAt, Lru!Front, Front, Lru!Reverse, Reverse

\* push() keeps the invariant and is a push of LruSpec.
LEMMA PushStep ==
  ASSUME IInv, NEW o \in Objs, NEW k \in Keys, NEW v \in Vals, Push(o, k, v)
  PROVE  IInv' /\ Lru!Next
<1> DEFINE c == cache[o]
           t == StampOf(kind, now)
           e == NodeOf(k, v)
           x == EntryOf(e)
<1>1. PICK b \in Overflows : Set(o, PushEntry(c, e, b))
  BY DEF Push
<1> DEFINE d == PushEntry(c, e, b)
<1>2. t \in Nat /\ Sound(c, t) /\ Capped(c, kind) /\ kind \in Kinds
  BY StampType DEF IInv
<1>3. e \in NodeVal /\ e.stamp = t /\ e.key = k /\ x = [key |-> k, val |-> v]
  <2>1. now \in 0..MaxNow /\ 0 \in 0..MaxNow
    BY LruAssumption DEF IInv
  <2> QED
    BY <2>1 DEF NodeOf, LruNode, TimedNode, NodeVal, StampOf, EntryOf
<1> HIDE DEF e, t
<1>4. StillSound(c, d, t, kind) /\ Pushed(c, e, d, kind)
  BY <1>2, <1>3, PushCases
<1>5. Sound(d, t) /\ Capped(d, kind) /\ d.max_size = c.max_size
  BY <1>4 DEF StillSound
<1>6. IInv'
  BY <1>1, <1>5, SetSound DEF t
<1>7. /\ Recent' = [Recent EXCEPT ![o] = Entries(d)]
      /\ Bound' = [Bound EXCEPT ![o] = d.max_size] /\ Evicts' = Evicts
      /\ Recent[o] = Entries(c) /\ Bound[o] = c.max_size
  BY <1>1, SetSeen
<1>8. Bound' = Bound
  BY <1>5, <1>7 DEF Bound
<1>9. Len(Entries(c)) = Len(c.list)
  BY <1>2, EntriesShown, NodeTypes DEF Sound
<1>10. OverLimit(c) <=> Lru!Over(Len(Recent[o]), Bound[o])
  BY <1>7, <1>9 DEF OverLimit, Size, Lru!Over
<1>11. (\A p \in 1..Len(Entries(c)) : Entries(c)[p].key # e.key) => x.key \notin Lru!KeysOf(Recent[o])
  BY <1>3, <1>7 DEF Lru!KeysOf
<1> HIDE DEF c, d, x
<1>12. ASSUME \E p \in 1..Len(Entries(c)) :
                /\ Entries(c)[p].key = e.key
                /\ Entries(d) = <<x>> \o RemoveAt(Entries(c), p)
       PROVE  SeenPush(o, x)
  <2>1. PICK p \in 1..Len(Entries(c)) :
              /\ Entries(c)[p].key = e.key
              /\ Entries(d) = <<x>> \o RemoveAt(Entries(c), p)
    BY <1>12
  <2>2. /\ p \in 1..Len(Recent[o]) /\ Recent[o][p].key = x.key
        /\ Recent' = [Recent EXCEPT ![o] = <<x>> \o Lru!RemoveAt(Recent[o], p)]
    BY <1>3, <1>7, <2>1, SameHelpers
  <2> QED
    BY <2>2 DEF SeenPush
<1>13. ASSUME \A p \in 1..Len(Entries(c)) : Entries(c)[p].key # e.key,
              Evicts => ~OverLimit(c),
              Entries(d) = <<x>> \o Entries(c)
       PROVE  SeenPush(o, x)
  <2>1. Recent' = [Recent EXCEPT ![o] = <<x>> \o Recent[o]]
    BY <1>7, <1>13
  <2> QED
    BY <1>10, <1>11, <1>13, <2>1 DEF SeenPush
<1>14. ASSUME \A p \in 1..Len(Entries(c)) : Entries(c)[p].key # e.key,
              OverLimit(c), Entries(c) # <<>>,
              Entries(d) = <<x>> \o Front(Entries(c))
       PROVE  SeenPush(o, x)
  <2>1. Recent' = [Recent EXCEPT ![o] = <<x>> \o Lru!Front(Recent[o])] /\ Recent[o] # <<>>
    BY <1>7, <1>14, SameHelpers
  <2> QED
    BY <1>10, <1>11, <1>14, <2>1 DEF SeenPush
<1>15. SeenPush(o, x)
  BY <1>4, <1>12, <1>13, <1>14 DEF Pushed, Evicts, x
<1>16. Lru!Next
  BY <1>3, <1>7, <1>8, <1>15, SpecPush
<1> QED
  BY <1>6, <1>16

(***************************************************************************)
(* erase()                                                                 *)
(***************************************************************************)
LEMMA SpecErase ==
  ASSUME NEW o \in Objs, Bound' = Bound, Evicts' = Evicts,
         NEW i \in 1..Len(Recent[o]), NEW j \in 1..(Len(Recent[o]) + 1), i <= j,
         Recent' = [Recent EXCEPT ![o] = Without2(Recent[o], i, j)]
  PROVE  Lru!Next
<1>1. Lru!EraseRange(o, i, j)
  BY Zenon DEF Lru!EraseRange, Without2, Recent, Bound
<1>2. UNCHANGED (kind = "lru")
  BY DEF Evicts
<1>3. \E ii \in 1..Len(Recent[o]), jj \in 1..(Len(Recent[o]) + 1) :
        ii <= jj /\ Lru!EraseRange(o, ii, jj)
  BY <1>1, Zenon
<1> QED
  BY <1>2, <1>3, Zenon DEF Lru!Next, Recent

\* What both forms of erase() do.
LEMMA EraseAt ==
  ASSUME IInv, NEW o \in Objs, NEW i \in 1..Len(cache[o].list),
         NEW j \in i..(Len(cache[o].list) + 1), Set(o, ErasePositions(cache[o], i, j))
  PROVE  IInv' /\ Lru!Next
<1> DEFINE c == cache[o]
           t == StampOf(kind, now)
           d == ErasePositions(c, i, j)
<1>1. t \in Nat /\ Sound(c, t) /\ Capped(c, kind)
  BY StampType DEF IInv
<1>2. Len(c.list) \in Nat /\ Len(Entries(c)) = Len(c.list)
  BY <1>1, EntriesShown, NodeTypes DEF Sound
<1>3. i \in 1..(Len(c.list) + 1) /\ i \in Nat /\ j \in Nat /\ i <= j
  BY <1>2
<1> HIDE DEF t
<1>4. /\ Sound(d, t) /\ d.max_size = c.max_size
      /\ Len(d.list) = Len(c.list) - (j - i)
      /\ Entries(d) = Without2(Entries(c), i, j)
  BY <1>1, <1>3, EraseSound
<1>5. Capped(d, kind)
  <2>1. c.max_size # NoLimit => c.max_size \in Nat
    BY <1>1, LruAssumption DEF Sound
  <2>2. Len(d.list) \in Int /\ Len(d.list) <= Len(c.list)
    BY <1>2, <1>3, <1>4
  <2> HIDE DEF d, c
  <2> QED
    BY <1>1, <1>2, <1>4, <2>1, <2>2 DEF Capped
<1>6. IInv'
  BY <1>4, <1>5, SetSound DEF t
<1>7. /\ Recent' = [Recent EXCEPT ![o] = Entries(d)]
      /\ Bound' = [Bound EXCEPT ![o] = d.max_size] /\ Evicts' = Evicts
      /\ Recent[o] = Entries(c) /\ Bound[o] = c.max_size
  BY SetSeen
<1>8. Bound' = Bound
  BY <1>4, <1>7 DEF Bound
<1>9. i \in 1..Len(Recent[o]) /\ j \in 1..(Len(Recent[o]) + 1)
  BY <1>2, <1>7
<1>10. Recent' = [Recent EXCEPT ![o] = Without2(Recent[o], i, j)]
  BY <1>4, <1>7
<1>11. Lru!Next
  BY <1>3, <1>7, <1>8, <1>9, <1>10, SpecErase
<1> QED
  BY <1>6, <1>11

\* erase(it) and erase(beg, end).
LEMMA EraseStep ==
  ASSUME IInv, NEW o \in Objs, NEW i, NEW j, Erase(o, i, j)
  PROVE  IInv' /\ Lru!Next
BY EraseAt DEF Erase, Size

\* A step that leaves the containers and their type alone.
LEMMA SameCaches ==
  ASSUME IInv, kind' = kind, cache' = cache
  PROVE  UNCHANGED Lru!vars
<1>1. Recent' = Recent
  BY DEF Recent, Entries, Size
<1>2. Bound' = Bound
  BY DEF Bound
<1>3. UNCHANGED (kind = "lru")
  OBVIOUS
<1> QED
  BY <1>1, <1>2, <1>3, Zenon DEF Lru!vars, Recent, Bound

\* erase(key), which changes nothing where the key is not found.
LEMMA EraseKeyStep ==
  ASSUME IInv, NEW o \in Objs, NEW k, EraseKey(o, k)
  PROVE  IInv' /\ (Lru!Next \/ UNCHANGED Lru!vars)
<1> DEFINE c == cache[o]
           t == StampOf(kind, now)
           i == Find(c, k)
<1>1. Sound(c, t) /\ Capped(c, kind) /\ cache = [p \in Objs |-> cache[p]]
  BY DEF IInv
<1>2. Linked(c.list, c.hash, c.node)
  BY <1>1 DEF Sound
<1>3. Len(c.list) \in Nat /\ DOMAIN c.list = 1..Len(c.list)
  <2>1. c.list \in Seq(Nodes)
    BY <1>2 DEF Linked
  <2> QED
    BY <2>1
<1>4. Set(o, IF i > Len(c.list) THEN c ELSE ErasePositions(c, i, i + 1))
  BY DEF EraseKey, Size
<1>5. CASE k \in DOMAIN c.hash
  <2>1. \E p \in DOMAIN c.list : c.list[p] = c.hash[k]
    <3>1. PICK p \in 1..Len(c.list) : c.node[c.list[p]].key = k
      BY <1>2, <1>5 DEF Linked
    <3>2. c.hash[k] = c.list[p]
      BY <1>2, <3>1 DEF Linked
    <3> QED
      BY <1>3, <3>2
  <2>2. i = CHOOSE p \in DOMAIN c.list : c.list[p] = c.hash[k]
    BY <1>5 DEF Find, PositionOf
  <2> HIDE DEF i, c
  <2>3. i \in 1..Len(c.list)
    BY <1>3, <2>1, <2>2
  <2>4. ~(i > Len(c.list)) /\ i + 1 \in i..(Len(c.list) + 1)
    BY <1>3, <2>3
  <2>5. Set(o, ErasePositions(c, i, i + 1))
    BY <1>4, <2>4
  <2> QED
    BY <2>3, <2>4, <2>5, EraseAt DEF c
<1>6. CASE k \notin DOMAIN c.hash
  <2>1. i = Len(c.list) + 1
    BY <1>6 DEF Find, Size
  <2> HIDE DEF i
  <2>2. Set(o, c)
    BY <1>3, <1>4, <2>1
  <2>3. IInv'
    BY <1>1, <2>2, SetSound
  <2>4. kind' = kind /\ cache' = cache
    BY <1>1, <2>2 DEF Set
  <2>5. UNCHANGED Lru!vars
    BY <2>4, SameCaches
  <2> QED
    BY <2>3, <2>5
<1> QED
  BY <1>5, <1>6

(***************************************************************************)
(* max_size(), expire() and shrink_to_fit()                                *)
(***************************************************************************)
\* What LruSpec says of a new limit m.
SeenLimit(o, m) ==
  /\ Bound' = [Bound EXCEPT ![o] = m]
  /\ \E n \in 0..Len(Recent[o]) :
       /\ Recent' = [Recent EXCEPT ![o] = SubSeq(Recent[o], 1, n)]
       /\ \/ n = Len(Recent[o]) /\ (~Evicts \/ ~Lru!Over(n, m))
          \/ n < Len(Recent[o]) /\ m # NoLimit /\ n >= m /\ (Evicts => n = m)

\* Such a step is a step of LruSpec.
LEMMA SpecLimit ==
  ASSUME NEW o \in Objs, NEW m, Evicts' = Evicts, SeenLimit(o, m)
  PROVE  /\ Lru!SetLimit(o, m)
         /\ m \in Limits \/ m = Bound[o] => Lru!Next
<1>1. PICK n \in 0..Len(Recent[o]) :
       /\ Recent' = [Recent EXCEPT ![o] = SubSeq(Recent[o], 1, n)]
       /\ \/ n = Len(Recent[o]) /\ (~Evicts \/ ~Lru!Over(n, m))
          \/ n < Len(Recent[o]) /\ m # NoLimit /\ n >= m /\ (Evicts => n = m)
  BY DEF SeenLimit
<1>2. SubSeq(Recent[o], 1, n) \in Lru!Kept(Recent[o], m)
  BY <1>1, Zenon DEF Lru!Kept, Evicts
<1>3. Bound' = [Bound EXCEPT ![o] = m]
  BY DEF SeenLimit
<1>4. \E s \in Lru!Kept(Recent[o], m) : Recent' = [Recent EXCEPT ![o] = s]
  BY <1>1, <1>2, Zenon
<1>5. Lru!SetLimit(o, m)
  BY <1>3, <1>4, Zenon DEF Lru!SetLimit, Recent, Bound
<1>6. UNCHANGED (kind = "lru")
  BY DEF Evicts
<1>7. m \in Limits => Lru!Next
  BY <1>5, <1>6, Zenon DEF Lru!Next
<1>8. ASSUME m = Bound[o]
      PROVE  Lru!Shrink(o)
  <2>1. Bound' = [Bound EXCEPT ![o] = Bound[o]]
    BY <1>3, <1>8
  <2>2. \E s \in Lru!Kept(Recent[o], Bound[o]) : Recent' = [Recent EXCEPT ![o] = s]
    BY <1>1, <1>8, Zenon DEF Lru!Kept, Evicts
  <2> QED
    BY <2>1, <2>2, Zenon DEF Lru!Shrink, Lru!SetLimit, Recent, Bound
<1>9. m = Bound[o] => Lru!Next
  BY <1>6, <1>8, Zenon DEF Lru!Next
<1> QED
  BY <1>5, <1>7, <1>9

\* The container has got new limits, and is shrunk to fit them.
LEMMA ShrinkStep ==
  ASSUME IInv, NEW o \in Objs, NEW b,
         NEW m \in Limits \cup {Bound[o]}, NEW x \in Expires \cup {NoExpire},
         NEW c, c = CacheOf(cache[o].list, cache[o].hash, cache[o].node,
                            cache[o].buckets, m, x),
         Set(o, ShrinkToFit(c, b))
  PROVE  IInv' /\ Lru!Next
<1> DEFINE t == StampOf(kind, now)
           d == ShrinkToFit(c, b)
<1>1. t \in Nat /\ Sound(cache[o], t) /\ kind \in Kinds
  BY StampType DEF IInv
<1>2. Bound[o] = cache[o].max_size
  BY DEF Bound
<1>3. /\ c.list = cache[o].list /\ c.hash = cache[o].hash /\ c.node = cache[o].node
      /\ c.buckets = cache[o].buckets /\ c.max_size = m /\ c.min_expire = x
  BY DEF CacheOf
<1>4. IsCache(c)
  BY <1>3 DEF IsCache
<1>5. Sound(c, t)
  BY <1>1, <1>2, <1>3, <1>4 DEF Sound
<1>6. Entries(c) = Entries(cache[o])
  BY <1>3, EntriesShown
<1> HIDE DEF t
<1>7. StillSound(c, d, t, kind) /\ Shrunk(c, d, kind)
  BY <1>1, <1>5, ShrinkCases
<1>8. Sound(d, t) /\ Capped(d, kind) /\ d.max_size = m
  BY <1>3, <1>7 DEF StillSound
<1>9. IInv'
  BY <1>8, SetSound DEF t
<1>10. /\ Recent' = [Recent EXCEPT ![o] = Entries(d)]
       /\ Bound' = [Bound EXCEPT ![o] = d.max_size] /\ Evicts' = Evicts
       /\ Recent[o] = Entries(cache[o])
  BY SetSeen
<1>11. SeenLimit(o, m)
  <2>1. PICK n \in 0..Len(Entries(c)) :
          /\ Entries(d) = SubSeq(Entries(c), 1, n)
          /\ \/ n = Len(Entries(c)) /\ (kind # "lru" \/ ~(c.max_size # NoLimit /\ n > c.max_size))
             \/ /\ n < Len(Entries(c)) /\ c.max_size # NoLimit /\ n >= c.max_size
                /\ kind = "lru" => n = c.max_size
    BY <1>7 DEF Shrunk
  <2> HIDE DEF d
  <2>2. Recent' = [Recent EXCEPT ![o] = SubSeq(Recent[o], 1, n)]
    BY <1>6, <1>10, <2>1
  <2>3. Bound' = [Bound EXCEPT ![o] = m]
    BY <1>8, <1>10
  <2>4. \/ n = Len(Recent[o]) /\ (~Evicts \/ ~Lru!Over(n, m))
        \/ n < Len(Recent[o]) /\ m # NoLimit /\ n >= m /\ (Evicts => n = m)
    BY <1>3, <1>6, <1>10, <2>1 DEF Evicts, Lru!Over
  <2>5. n \in 0..Len(Recent[o])
    BY <1>6, <1>10, <2>1
  <2> QED
    BY <2>2, <2>3, <2>4, <2>5 DEF SeenLimit
<1>12. m \in Limits \/ m = Bound[o]
  OBVIOUS
<1>13. Lru!Next
  BY <1>10, <1>11, <1>12, SpecLimit
<1> QED
  BY <1>9, <1>13

\* max_size(), expire() and shrink_to_fit().
LEMMA LimitSteps ==
  ASSUME IInv, NEW o \in Objs
  PROVE  /\ \A m \in Limits : MaxSize(o, m) => IInv' /\ Lru!Next
         /\ \A x \in Expires : Expire(o, x) => IInv' /\ Lru!Next
         /\ Shrink(o) => IInv' /\ Lru!Next
<1> DEFINE c == cache[o]
<1>1. IsCache(c) /\ c.max_size = Bound[o] /\ c.min_expire \in Expires \cup {NoExpire}
  BY DEF IInv, Sound, Bound
<1>2. ASSUME NEW m \in Limits, MaxSize(o, m)
      PROVE  IInv' /\ Lru!Next
  <2>1. PICK b \in Overflows : Set(o, ShrinkToFit([c EXCEPT !.max_size = m], b))
    BY <1>2 DEF MaxSize
  <2>2. [c EXCEPT !.max_size = m] = CacheOf(c.list, c.hash, c.node, c.buckets, m, c.min_expire)
    BY <1>1 DEF IsCache, CacheOf
  <2> QED
    BY <1>1, <2>1, <2>2, ShrinkStep
<1>3. ASSUME NEW x \in Expires, Expire(o, x)
      PROVE  IInv' /\ Lru!Next
  <2>1. Set(o, ShrinkToFit([c EXCEPT !.min_expire = x], FALSE))
    BY <1>3 DEF Expire
  <2>2. [c EXCEPT !.min_expire = x] = CacheOf(c.list, c.hash, c.node, c.buckets, Bound[o], x)
    BY <1>1 DEF IsCache, CacheOf
  <2> QED
    BY <1>1, <2>1, <2>2, ShrinkStep
<1>4. ASSUME Shrink(o)
      PROVE  IInv' /\ Lru!Next
  <2>1. PICK b \in Overflows : Set(o, ShrinkToFit(c, b))
    BY <1>4 DEF Shrink
  <2>2. c = CacheOf(c.list, c.hash, c.node, c.buckets, Bound[o], c.min_expire)
    BY <1>1 DEF IsCache
  <2> QED
    BY <1>1, <2>1, <2>2, ShrinkStep
<1> QED
  BY <1>2, <1>3, <1>4

\* The limit of a timed_lru_set alone: nothing has to go at once.
LEMMA MaxSizeOnlyStep ==
  ASSUME IInv, NEW o \in Objs, NEW m \in Limits, MaxSizeOnly(o, m)
  PROVE  IInv' /\ Lru!Next
<1> DEFINE c == cache[o]
           d == [c EXCEPT !.max_size = m]
           t == StampOf(kind, now)
<1>1. Set(o, d) /\ kind = "timed_set"
  BY DEF MaxSizeOnly
<1>2. Sound(c, t)
  BY DEF IInv
<1>3. d = CacheOf(c.list, c.hash, c.node, c.buckets, m, c.min_expire)
  BY <1>2 DEF Sound, IsCache, CacheOf
<1> HIDE DEF d
<1>4. /\ d.list = c.list /\ d.hash = c.hash /\ d.node = c.node
      /\ d.buckets = c.buckets /\ d.max_size = m /\ d.min_expire = c.min_expire
  BY <1>3 DEF CacheOf
<1>5. Sound(d, t)
  BY <1>2, <1>3, <1>4 DEF Sound, IsCache
<1>6. Capped(d, kind)
  BY <1>1 DEF Capped
<1>7. IInv'
  BY <1>1, <1>5, <1>6, SetSound
<1>8. /\ Recent' = [Recent EXCEPT ![o] = Entries(d)]
      /\ Bound' = [Bound EXCEPT ![o] = d.max_size] /\ Evicts' = Evicts
      /\ Recent[o] = Entries(c)
  BY <1>1, SetSeen
<1>9. Entries(d) = Entries(c)
  BY <1>4, EntriesShown
<1>10. Recent[o] \in Seq(EntrySet)
  BY <1>2, <1>8, EntriesShown, NodeTypes DEF Sound
<1>11. SeenLimit(o, m)
  <2> DEFINE s == Recent[o]
  <2>1. Len(s) \in Nat /\ SubSeq(s, 1, Len(s)) = s
    BY <1>10
  <2>2. Recent' = [Recent EXCEPT ![o] = SubSeq(s, 1, Len(s))]
    BY <1>8, <1>9, <2>1
  <2>3. Len(s) \in 0..Len(s) /\ ~Evicts
    BY <1>1, <2>1 DEF Evicts
  <2>4. Bound' = [Bound EXCEPT ![o] = m]
    BY <1>4, <1>8
  <2> QED
    BY <2>2, <2>3, <2>4 DEF SeenLimit
<1>12. Lru!Next
  BY <1>8, <1>11, SpecLimit
<1> QED
  BY <1>7, <1>12

(***************************************************************************)
(* The copy constructor and the assignment.                                *)
(***************************************************************************)
LEMMA SpecCopy ==
  ASSUME NEW o \in Objs, NEW p \in Objs, Evicts' = Evicts,
         Recent' = [Recent EXCEPT ![o] = Lru!Reverse(Recent[p])],
         Bound' = [Bound EXCEPT ![o] = NoLimit]
  PROVE  Lru!Next
<1>1. Lru!Copy(o, p)
  BY Zenon DEF Lru!Copy, Recent, Bound
<1>2. UNCHANGED (kind = "lru")
  BY DEF Evicts
<1> QED
  BY <1>1, <1>2, Zenon DEF Lru!Next

\* An assignment as LruSpec has it.
LEMMA SpecAssign ==
  ASSUME NEW o \in Objs, NEW p \in Objs, Evicts' = Evicts, Bound' = Bound,
         NEW n \in 0..Len(Lru!Reverse(Recent[p])),
         n < Len(Lru!Reverse(Recent[p])) => Bound[o] # NoLimit /\ n >= Bound[o] + 1,
         Evicts /\ Bound[o] # NoLimit => n <= Bound[o] + 1,
         Recent' = [Recent EXCEPT ![o] = SubSeq(Lru!Reverse(Recent[p]), 1, n)]
  PROVE  Lru!Next
<1>1. Lru!Assign(o, p)
  BY Zenon DEF Lru!Assign, Recent, Bound, Evicts
<1>2. UNCHANGED (kind = "lru")
  BY DEF Evicts
<1> QED
  BY <1>1, <1>2, Zenon DEF Lru!Next

\* The entries of o become a prefix of r, cut only by the limit m.
SeenCopy(o, r, m) ==
  \E w \in 0..Len(r) :
    /\ Recent' = [Recent EXCEPT ![o] = SubSeq(r, 1, w)]
    /\ w < Len(r) => m # NoLimit /\ w >= m + 1
    /\ Evicts /\ m # NoLimit => w <= m + 1

\* What both have in common: all entries of p are pushed to an empty container.
LEMMA CopyFacts ==
  ASSUME IInv, NEW o \in Objs, NEW p \in Objs, NEW b, NEW dst,
         Sound(dst, StampOf(kind, now)), Len(dst.list) = 0,
         NEW d, d = PushAll(cache[p], dst, b), Set(o, d)
  PROVE  /\ IInv'
         /\ Evicts' = Evicts /\ Bound' = [Bound EXCEPT ![o] = dst.max_size]
         /\ Recent[p] \in Seq(EntrySet)
         /\ Lru!Reverse(Recent[p]) \in Seq(EntrySet)
         /\ Len(Lru!Reverse(Recent[p])) = Len(Recent[p])
         /\ SeenCopy(o, Lru!Reverse(Recent[p]), dst.max_size)
<1> DEFINE t == StampOf(kind, now)
           src == cache[p]
<1>1. kind \in Kinds /\ now \in 0..MaxNow /\ Sound(src, t)
  BY DEF IInv
<1>2. StillSound(dst, d, t, kind) /\ Copied(src, d, kind)
  BY <1>1, PushAllCases
<1> HIDE DEF t
<1>3. Sound(d, t) /\ Capped(d, kind) /\ d.max_size = dst.max_size
  BY <1>2 DEF StillSound
<1>4. IInv'
  BY <1>3, SetSound DEF t
<1>5. /\ Recent' = [Recent EXCEPT ![o] = Entries(d)]
      /\ Bound' = [Bound EXCEPT ![o] = dst.max_size] /\ Evicts' = Evicts
  BY <1>3, SetSeen
<1>6. Recent[p] = Entries(src)
  BY DEF Recent
<1>7. Entries(src) \in Seq(EntrySet)
  BY <1>1, EntriesShown, NodeTypes DEF Sound
<1>8. Lru!Reverse(Recent[p]) = Reverse(Entries(src))
  BY <1>6, SameHelpers
<1>9. Reverse(Entries(src)) \in Seq(EntrySet) /\ Len(Reverse(Entries(src))) = Len(Entries(src))
  <2> DEFINE es == Entries(src)
  <2>1. Len(es) \in Nat /\ \A j \in 1..Len(es) : es[(Len(es) - j) + 1] \in EntrySet
    <3>1. \A j \in 1..Len(es) : (Len(es) - j) + 1 \in 1..Len(es)
      BY <1>7
    <3> QED
      BY <1>7, <3>1
  <2> HIDE DEF es
  <2>2. Reverse(es) \in Seq(EntrySet) /\ Len(Reverse(es)) = Len(es)
    BY <2>1 DEF Reverse
  <2> QED
    BY <2>2 DEF es
<1>10. PICK w \in 0..Len(Entries(src)) :
         /\ Entries(d) = SubSeq(Reverse(Entries(src)), 1, w)
         /\ w < Len(Entries(src)) => d.max_size # NoLimit /\ w >= d.max_size + 1
         /\ kind = "lru" /\ d.max_size # NoLimit => w <= d.max_size + 1
  BY <1>2 DEF Copied
<1>11. /\ w \in 0..Len(Recent[p])
       /\ Recent' = [Recent EXCEPT ![o] = SubSeq(Lru!Reverse(Recent[p]), 1, w)]
       /\ w < Len(Recent[p]) => dst.max_size # NoLimit /\ w >= dst.max_size + 1
       /\ Evicts /\ dst.max_size # NoLimit => w <= dst.max_size + 1
  BY <1>3, <1>5, <1>6, <1>8, <1>10 DEF Evicts
<1>12. Recent[p] \in Seq(EntrySet)
  BY <1>6, <1>7
<1>13. Lru!Reverse(Recent[p]) \in Seq(EntrySet) /\ Len(Lru!Reverse(Recent[p])) = Len(Recent[p])
  BY <1>6, <1>8, <1>9
<1>14. SeenCopy(o, Lru!Reverse(Recent[p]), dst.max_size)
  BY <1>11, <1>13 DEF SeenCopy
<1> QED
  BY <1>4, <1>5, <1>12, <1>13, <1>14

\* The copy constructor pushes to a new container without limits.
LEMMA CopyConstructStep ==
  ASSUME IInv, NEW o \in Objs, NEW p \in Objs, CopyConstruct(o, p)
  PROVE  IInv' /\ Lru!Next
<1> DEFINE n == cache[p].buckets
           dst == CacheOf(<<>>, <<>>, <<>>, n, NoLimit, NoExpire)
           r == Lru!Reverse(Recent[p])
<1>1. PICK b \in Overflows : Set(o, PushAll(cache[p], [EmptyCache EXCEPT !.buckets = n], b))
  BY DEF CopyConstruct
<1>2. [EmptyCache EXCEPT !.buckets = n] = dst
  BY DEF EmptyCache, CacheOf
<1>3. n \in Nat /\ MinBuckets <= n
  BY DEF IInv, Sound
<1> HIDE DEF n
<1>4. Sound(dst, StampOf(kind, now)) /\ dst.list = <<>> /\ dst.max_size = NoLimit
  BY <1>3, EmptySound
<1> HIDE DEF dst
<1>5. Len(dst.list) = 0
  BY <1>4
<1>6. Set(o, PushAll(cache[p], dst, b))
  BY <1>1, <1>2
<1>7. /\ IInv' /\ Evicts' = Evicts /\ Bound' = [Bound EXCEPT ![o] = dst.max_size]
      /\ r \in Seq(EntrySet) /\ Len(r) = Len(Recent[p])
      /\ SeenCopy(o, r, dst.max_size)
  BY <1>4, <1>5, <1>6, CopyFacts
<1> HIDE DEF r
<1>8. Len(r) \in Nat /\ SubSeq(r, 1, Len(r)) = r
  BY <1>7
<1>9. Recent' = [Recent EXCEPT ![o] = r]
  <2>1. PICK w \in 0..Len(r) :
          /\ Recent' = [Recent EXCEPT ![o] = SubSeq(r, 1, w)]
          /\ w < Len(r) => FALSE
    BY <1>4, <1>7 DEF SeenCopy
  <2>2. ~(w < Len(r)) /\ w \in 0..Len(r)
    BY <2>1
  <2> DEFINE m == Len(r)
  <2>3. m \in Nat /\ ~(w < m) /\ w \in 0..m
    BY <1>8, <2>2
  <2> HIDE DEF m
  <2>4. w = m
    BY <2>3
  <2> QED
    BY <1>8, <2>1, <2>4 DEF m
<1>10. Bound' = [Bound EXCEPT ![o] = NoLimit]
  BY <1>4, <1>7
<1>11. Lru!Next
  BY <1>7, <1>9, <1>10, SpecCopy DEF r
<1> QED
  BY <1>7, <1>11

\* operator= pushes to a container that it has cleared.
LEMMA CopyAssignStep ==
  ASSUME IInv, NEW o \in Objs, NEW p \in Objs, CopyAssign(o, p)
  PROVE  IInv' /\ Lru!Next
<1> DEFINE c == cache[o]
           dst == Clear(c)
           t == StampOf(kind, now)
           r == Lru!Reverse(Recent[p])
<1>1. PICK b \in Overflows : Set(o, PushAll(cache[p], dst, b))
  BY DEF CopyAssign
<1>2. t \in Nat /\ Sound(c, t)
  BY StampType DEF IInv
<1>3. Len(c.list) \in Nat
  BY <1>2, NodeTypes DEF Sound
<1>4. Sound(dst, t) /\ dst.max_size = c.max_size /\ Len(dst.list) = Len(c.list) - ((Len(c.list) + 1) - 1)
  <2>1. 1 \in 1..(Len(c.list) + 1) /\ Len(c.list) + 1 \in 1..(Len(c.list) + 1)
    BY <1>3
  <2>2. dst = ErasePositions(c, 1, Len(c.list) + 1)
    BY DEF Clear, Size
  <2> HIDE DEF dst, t
  <2> QED
    BY <1>2, <2>1, <2>2, EraseSound
<1> HIDE DEF dst
<1>5. Len(dst.list) = 0
  BY <1>3, <1>4
<1>6. Bound[o] = dst.max_size
  BY <1>4 DEF Bound
<1>7. /\ IInv' /\ Evicts' = Evicts /\ Bound' = [Bound EXCEPT ![o] = dst.max_size]
      /\ Len(r) = Len(Recent[p])
      /\ SeenCopy(o, r, dst.max_size)
  <2>1. Sound(dst, StampOf(kind, now))
    BY <1>4
  <2> HIDE DEF t
  <2> QED
    BY <1>1, <1>5, <2>1, CopyFacts
<1> HIDE DEF r
<1>8. Bound' = Bound
  BY <1>6, <1>7 DEF Bound
<1>9. PICK w \in 0..Len(r) :
        /\ Recent' = [Recent EXCEPT ![o] = SubSeq(r, 1, w)]
        /\ w < Len(r) => Bound[o] # NoLimit /\ w >= Bound[o] + 1
        /\ Evicts /\ Bound[o] # NoLimit => w <= Bound[o] + 1
  BY <1>6, <1>7 DEF SeenCopy
<1>10. Lru!Next
  BY <1>7, <1>8, <1>9, SpecAssign DEF r
<1> QED
  BY <1>7, <1>10

-----------------------------------------------------------------------------
(***************************************************************************)
(* The theorems.                                                           *)
(***************************************************************************)
\* Time passes: what was not stamped later than before is not stamped later.
LEMMA TickStep ==
  ASSUME IInv, Tick
  PROVE  IInv' /\ UNCHANGED Lru!vars
<1>1. kind # "lru" /\ now' = now + 1 /\ kind' = kind /\ cache' = cache /\ now < MaxNow
  BY DEF Tick
<1>2. now \in 0..MaxNow /\ MaxNow \in Nat /\ now' \in 0..MaxNow
  BY <1>1, LruAssumption DEF IInv
<1>3. ASSUME NEW o \in Objs
      PROVE  Sound(cache[o], StampOf(kind, now'))
  <2> DEFINE c == cache[o]
  <2>1. Sound(c, now) /\ StampOf(kind, now') = now'
    BY <1>1 DEF IInv, StampOf
  <2>2. \A i \in 1..Len(c.list) : c.node[c.list[i]].stamp \in 0..MaxNow
    BY <2>1, NodeTypes DEF Sound
  <2>3. \A i \in 1..Len(c.list) : c.node[c.list[i]].stamp <= now'
    BY <1>1, <1>2, <2>1, <2>2 DEF Sound, Aged
  <2>4. Aged(c.list, c.node, now')
    BY <2>1, <2>3 DEF Sound, Aged
  <2> QED
    BY <2>1, <2>4 DEF Sound
<1>4. IInv'
  BY <1>1, <1>2, <1>3 DEF IInv
<1> QED
  BY <1>1, <1>4, SameCaches

\* Every step keeps the invariant, and is a step of LruSpec or invisible in it.
LEMMA LruSteps ==
  ASSUME IInv, [LruNext(Objs)]_lruVars
  PROVE  IInv' /\ (Lru!Next \/ UNCHANGED Lru!vars)
<1>1. CASE UNCHANGED lruVars
  <2>1. kind' = kind /\ cache' = cache /\ now' = now
    BY <1>1 DEF lruVars
  <2>2. IInv'
    BY <2>1 DEF IInv
  <2> QED
    BY <2>1, <2>2, SameCaches
<1>2. CASE Tick
  BY <1>2, TickStep
<1>3. ASSUME NEW o \in Objs, NEW k \in Keys, NEW v \in Vals, Push(o, k, v)
      PROVE  IInv' /\ Lru!Next
  BY <1>3, PushStep
<1>4. ASSUME NEW o \in Objs, NEW i, NEW j, Erase(o, i, j)
      PROVE  IInv' /\ Lru!Next
  BY <1>4, EraseStep
<1>5. ASSUME NEW o \in Objs, NEW k \in Keys, EraseKey(o, k)
      PROVE  IInv' /\ (Lru!Next \/ UNCHANGED Lru!vars)
  BY <1>5, EraseKeyStep
<1>6. ASSUME NEW o \in Objs, NEW m \in Limits, MaxSize(o, m) \/ MaxSizeOnly(o, m)
      PROVE  IInv' /\ Lru!Next
  BY <1>6, LimitSteps, MaxSizeOnlyStep
<1>7. ASSUME NEW o \in Objs, NEW d \in Expires, Expire(o, d)
      PROVE  IInv' /\ Lru!Next
  BY <1>7, LimitSteps
<1>8. ASSUME NEW o \in Objs, Shrink(o)
      PROVE  IInv' /\ Lru!Next
  BY <1>8, LimitSteps
<1>9. ASSUME NEW o \in Objs, NEW p \in Objs, CopyConstruct(o, p) \/ CopyAssign(o, p)
      PROVE  IInv' /\ Lru!Next
  BY <1>9, CopyConstructStep, CopyAssignStep
<1> QED
  BY <1>1, <1>2, <1>3, <1>4, <1>5, <1>6, <1>7, <1>8, <1>9 DEF LruNext

\* In every state of the containers their list, hash set and nodes are in step,
\* the stamps do not grow along the list, the table has room for every node and
\* the untimed containers have at most one entry too many.
THEOREM LruInvariant == CacheSpec => []IInv
<1>1. LruInit => IInv
  BY LruInitially
<1>2. IInv /\ [LruNext(Objs)]_lruVars => IInv'
  BY LruSteps
<1> QED
  BY <1>1, <1>2, PTL DEF CacheSpec

\* The list, the hash set and the nodes always describe the same entries: find()
\* leads to the node that holds the key, and no node leaks or dangles, however
\* push() reuses nodes (lru_cache_facade.ipp:432-460).
THEOREM LruCoherent == CacheSpec => []Coherent
<1>1. ASSUME IInv
      PROVE  Coherent
  <2>1. ASSUME NEW o \in Objs
        PROVE  /\ DOMAIN cache[o].node \subseteq Nodes /\ Range(cache[o].node) \subseteq NodeVal
               /\ ToSet(cache[o].list) \subseteq DOMAIN cache[o].node
               /\ DOMAIN cache[o].hash \subseteq Keys
               /\ Range(cache[o].hash) \subseteq DOMAIN cache[o].node
               /\ cache[o].buckets \in Nat
               /\ cache[o].max_size \in Limits \cup {NoLimit}
               /\ cache[o].min_expire \in Expires \cup {NoExpire}
               /\ IsInjective(cache[o].list)
               /\ DOMAIN cache[o].node = ToSet(cache[o].list)
               /\ Range(cache[o].hash) = ToSet(cache[o].list)
               /\ \A k \in DOMAIN cache[o].hash : cache[o].node[cache[o].hash[k]].key = k
    <3> DEFINE c == cache[o]
               L == c.list
               H == c.hash
               N == c.node
    <3>1. /\ Linked(L, H, N) /\ c.buckets \in Nat
          /\ c.max_size \in Limits \cup {NoLimit} /\ c.min_expire \in Expires \cup {NoExpire}
      BY <1>1 DEF IInv, Sound
    <3> HIDE DEF L, H, N
    <3>2. DOMAIN L = 1..Len(L)
      <4>1. L \in Seq(Nodes)
        BY <3>1 DEF Linked
      <4> QED
        BY <4>1
    <3>3. IsInjective(L)
      BY <3>1, <3>2 DEF Linked, IsInjective
    <3>4. DOMAIN N = ToSet(L)
      <4>1. \A i \in 1..Len(L) : L[i] \in DOMAIN N
        BY <3>1 DEF Linked
      <4>2. \A n \in DOMAIN N : \E i \in 1..Len(L) : L[i] = n
        BY <3>1 DEF Linked
      <4> QED
        BY <3>2, <4>1, <4>2 DEF ToSet
    <3>5. \A k \in DOMAIN H : \E i \in 1..Len(L) : N[L[i]].key = k /\ H[k] = L[i]
      <4>1. \A k \in DOMAIN H : \E i \in 1..Len(L) : N[L[i]].key = k
        BY <3>1 DEF Linked
      <4>2. \A i \in 1..Len(L) : H[N[L[i]].key] = L[i]
        BY <3>1 DEF Linked
      <4> QED
        BY <4>1, <4>2
    <3>6. Range(H) = ToSet(L)
      <4>1. \A k \in DOMAIN H : H[k] \in ToSet(L)
        BY <3>2, <3>5 DEF ToSet
      <4>2. \A i \in 1..Len(L) : \E k \in DOMAIN H : H[k] = L[i]
        BY <3>1 DEF Linked
      <4> QED
        BY <3>2, <4>1, <4>2 DEF Range, ToSet
    <3>7. \A k \in DOMAIN H : N[H[k]].key = k
      BY <3>5
    <3>8. /\ DOMAIN N \subseteq Nodes /\ DOMAIN H \subseteq Keys
          /\ Range(N) \subseteq NodeVal
      BY <3>1 DEF Linked, Range
    <3> QED
      BY <3>1, <3>3, <3>4, <3>6, <3>7, <3>8 DEF L, H, N
  <2>2. kind \in Kinds /\ now \in 0..MaxNow
    BY <1>1 DEF IInv
  <2> QED
    BY <2>1, <2>2 DEF Coherent, LruTypeOK
<1> QED
  BY <1>1, LruInvariant, PTL

\* The table never has more nodes than buckets, and lru_map and lru_set never
\* have more than one entry above max_size() (lru_cache_facade.ipp:82-90,
\* 432-460, 507-513).
THEOREM LruWithinBounds == CacheSpec => []WithinBounds
<1>1. ASSUME IInv
      PROVE  WithinBounds
  <2>1. FitsBuckets
    <3>1. ASSUME NEW o \in Objs
          PROVE  Len(cache[o].list) <= cache[o].buckets /\ cache[o].buckets >= MinBuckets
      <4>1. /\ Len(cache[o].list) <= cache[o].buckets /\ MinBuckets <= cache[o].buckets
            /\ cache[o].buckets \in Nat
        BY <1>1 DEF IInv, Sound
      <4>2. MinBuckets \in Nat
        BY LruAssumption
      <4> QED
        BY <4>1, <4>2
    <3> QED
      BY <3>1 DEF FitsBuckets, Size
  <2>2. OneOverLimit
    BY <1>1 DEF IInv, Capped, OneOverLimit, Size
  <2> QED
    BY <2>1, <2>2 DEF WithinBounds
<1> QED
  BY <1>1, LruInvariant, PTL

\* The last entry is the oldest by time, so that is_limits() may look at it
\* alone, for every sequence of pushes, copies and erasures.
THEOREM LruStampsOrdered == CacheSpec => []StampsOrdered
<1>1. ASSUME IInv
      PROVE  StampsOrdered
  BY <1>1 DEF IInv, Sound, Aged, StampsOrdered, Size
<1> QED
  BY <1>1, LruInvariant, PTL

\* The containers implement LruSpec: the entries are in the order of their last
\* push, only the oldest are evicted, and only above the limit.
THEOREM LruRefinement == CacheSpec => ImplementsLru
<1>1. LruInit => Lru!Init
  <2> SUFFICES ASSUME LruInit
               PROVE  Lru!Init
    OBVIOUS
  <2>1. \A o \in Objs : cache[o] = EmptyCache
    BY DEF LruInit
  <2>2. EmptyCache.max_size = NoLimit
    BY DEF EmptyCache
  <2>3. Entries(EmptyCache) = <<>>
    <3>1. Size(EmptyCache) = 0
      BY DEF Size, EmptyCache
    <3> QED
      BY <3>1 DEF Entries
  <2>4. [o \in Objs |-> Entries(cache[o])] = [o \in Objs |-> <<>>]
    BY <2>1, <2>3
  <2>5. [o \in Objs |-> cache[o].max_size] = [o \in Objs |-> NoLimit]
    BY <2>1, <2>2
  <2> QED
    BY <2>4, <2>5 DEF Lru!Init
<1>2. IInv /\ [LruNext(Objs)]_lruVars => [Lru!Next]_(Lru!vars)
  BY LruSteps
<1> QED
  BY <1>1, <1>2, LruInvariant, PTL DEF CacheSpec, ImplementsLru, Lru!Spec

-----------------------------------------------------------------------------
(***************************************************************************)
(* The sequenced containers.                                               *)
(***************************************************************************)
EntryType == [key : SeqKeys, born : Nat]

\* Two entries of which the first stands before the other one: those of a map have
\* different keys and their age; those of one key, their age.
InOrder(d, kd, i, j) ==
  /\ kd = "map" => d[i].key # d[j].key /\ d[i].born < d[j].born
  /\ d[i].key = d[j].key => /\ d[i].born < d[j].born
                            /\ \A n \in i..j : d[n].key = d[i].key

\* A deque in good order, no entry of which is younger than m.
Good(d, kd, m) ==
  /\ d \in Seq(EntryType)
  /\ \A i \in 1..Len(d) : d[i].born <= m
  /\ \A i, j \in 1..Len(d) : i < j => InOrder(d, kd, i, j)

-----------------------------------------------------------------------------
\* find() leads to the first entry of the key, if there is one.
LEMMA FindFirst ==
  ASSUME NEW d \in Seq(EntryType), NEW k
  PROVE  \/ FindEntry(d, k) = Len(d) + 1 /\ \A i \in 1..Len(d) : d[i].key # k
         \/ FindEntry(d, k) \in 1..Len(d) /\ d[FindEntry(d, k)].key = k
<1>1. DOMAIN d = 1..Len(d) /\ Len(d) \in Nat
  OBVIOUS
<1>2. CASE \A i \in 1..Len(d) : d[i].key # k
  BY <1>1, <1>2 DEF FindEntry, End
<1>3. CASE \E i \in 1..Len(d) : d[i].key = k
  <2> DEFINE T == {i \in 1..Len(d) : d[i].key = k}
             First(i) == d[i].key = k /\ \A j \in 1..(i - 1) : d[j].key # k
  <2>1. T \in SUBSET Nat /\ T # {}
    BY <1>1, <1>3
  <2>2. PICK i \in T : \A j \in T : i <= j
    BY <2>1, LeastNumber
  <2>3. i \in 1..Len(d) /\ d[i].key = k
    BY <2>2
  <2>4. ASSUME NEW j \in 1..(i - 1), d[j].key = k
        PROVE  FALSE
    <3>1. j \in 1..Len(d) /\ j < i
      BY <1>1, <2>3
    <3>2. j \in T
      BY <2>4, <3>1
    <3> QED
      BY <1>1, <2>2, <2>3, <3>1, <3>2
  <2>5. \E n \in DOMAIN d : First(n)
    BY <1>1, <2>3, <2>4
  <2>6. FindEntry(d, k) = CHOOSE n \in DOMAIN d : First(n)
    BY <1>1, <1>3 DEF FindEntry
  <2> HIDE DEF T
  <2> DEFINE f == FindEntry(d, k)
  <2>7. f \in DOMAIN d /\ First(f)
    BY <2>5, <2>6
  <2> QED
    BY <1>1, <2>7
<1> QED
  BY <1>2, <1>3

\* advance_to_next_key() goes to the end of the entries of a key.
LEMMA AdvanceFacts ==
  ASSUME NEW d \in Seq(EntryType), NEW i \in 1..Len(d)
  PROVE  /\ AdvanceToNextKey(d, i) \in (i + 1)..(Len(d) + 1)
         /\ \A n \in i..(AdvanceToNextKey(d, i) - 1) : d[n].key = d[i].key
         /\ \/ AdvanceToNextKey(d, i) = Len(d) + 1
            \/ d[AdvanceToNextKey(d, i)].key # d[i].key
<1> DEFINE Ends(j) == j = Len(d) + 1 \/ d[j].key # d[i].key
           Last2(j) == /\ \A n \in i..(j - 1) : d[n].key = d[i].key
                       /\ Ends(j)
           T == {j \in (i + 1)..(Len(d) + 1) : Ends(j)}
           a == AdvanceToNextKey(d, i)
<1>1. Len(d) \in Nat /\ i \in Nat /\ i <= Len(d)
  OBVIOUS
<1>2. T \in SUBSET Nat /\ T # {}
  <2>1. Len(d) + 1 \in T
    BY <1>1
  <2>2. T \in SUBSET Nat
    BY <1>1
  <2> HIDE DEF T
  <2> QED
    BY <2>1, <2>2
<1>3. PICK j \in T : \A n \in T : j <= n
  BY <1>2, LeastNumber
<1>4. j \in (i + 1)..(Len(d) + 1) /\ Ends(j)
  BY <1>3
<1>5. ASSUME NEW n \in i..(j - 1), d[n].key # d[i].key
      PROVE  FALSE
  <2>1. n # i
    BY <1>5
  <2>2. n \in (i + 1)..(Len(d) + 1) /\ n < j
    BY <1>1, <1>4, <2>1
  <2>3. n \in T
    BY <1>5, <2>2
  <2> HIDE DEF T, Ends
  <2> QED
    BY <1>1, <1>3, <1>4, <2>2, <2>3
<1>6. \E n \in (i + 1)..(Len(d) + 1) : Last2(n)
  BY <1>4, <1>5
<1>7. a = CHOOSE n \in (i + 1)..(Len(d) + 1) : Last2(n)
  BY DEF AdvanceToNextKey, End
<1> HIDE DEF a, T
<1>8. a \in (i + 1)..(Len(d) + 1) /\ Last2(a)
  BY <1>6, <1>7
<1> QED
  BY <1>8 DEF a

-----------------------------------------------------------------------------
\* What the entries of a deque are.
LEMMA GoodTypes ==
  ASSUME NEW d, NEW kd, NEW m, Good(d, kd, m)
  PROVE  /\ d \in Seq(EntryType) /\ Len(d) \in Nat
         /\ \A i \in 1..Len(d) : d[i] \in EntryType /\ d[i].key \in SeqKeys /\ d[i].born \in Nat
<1>1. d \in Seq(EntryType)
  BY DEF Good
<1>2. Len(d) \in Nat /\ \A i \in 1..Len(d) : d[i] \in EntryType
  BY <1>1
<1> QED
  BY <1>1, <1>2 DEF EntryType

\* A younger entry is put before place p, either of a new key at the end or behind
\* the last entry of its key; so there is no entry of its key from p on, and those
\* before stand together up to p.
LEMMA PutGood ==
  ASSUME NEW d, NEW kd, NEW m \in Nat, Good(d, kd, m),
         NEW e \in EntryType, m < e.born, NEW p \in 1..(Len(d) + 1),
         \A i \in p..Len(d) : d[i].key # e.key,
         \A i \in 1..(p - 1) : d[i].key = e.key => \A n \in i..(p - 1) : d[n].key = e.key,
         p # Len(d) + 1 => d[p - 1].key = e.key /\ p # 1,
         kd = "map" => p = Len(d) + 1 /\ \A i \in 1..Len(d) : d[i].key # e.key
  PROVE  Good(InsertAt(d, p, e), kd, e.born)
<1> DEFINE q == InsertAt(d, p, e)
           Old(i) == IF i < p THEN i ELSE i - 1
<1>1. /\ d \in Seq(EntryType) /\ Len(d) \in Nat
      /\ \A i \in 1..Len(d) : d[i] \in EntryType /\ d[i].key \in SeqKeys /\ d[i].born \in Nat
  BY GoodTypes
<1>2. /\ q \in Seq(EntryType) /\ Len(q) = Len(d) + 1
      /\ \A i \in 1..(p - 1) : q[i] = d[i]
      /\ q[p] = e
      /\ \A i \in (p + 1)..(Len(d) + 1) : q[i] = d[i - 1]
  BY <1>1, PutAt
<1> HIDE DEF q
<1>3. p \in Nat /\ p >= 1 /\ e.born \in Nat
  BY <1>1 DEF EntryType
<1>4. \A i \in 1..Len(q) : i # p => Old(i) \in 1..Len(d) /\ q[i] = d[Old(i)]
  BY <1>1, <1>2, <1>3
<1>5. \A i \in 1..Len(d) : d[i].born <= m
  BY DEF Good
<1>6. \A i \in 1..Len(q) : q[i].born <= e.born
  <2>1. ASSUME NEW i \in 1..Len(q), i # p
        PROVE  q[i].born <= e.born
    <3>1. Old(i) \in 1..Len(d) /\ q[i] = d[Old(i)]
      BY <1>4, <2>1
    <3>2. d[Old(i)].born <= m /\ d[Old(i)].born \in Nat
      BY <1>1, <1>5, <3>1
    <3> HIDE DEF Old
    <3> QED
      BY <1>3, <3>1, <3>2
  <2>2. q[p].born <= e.born
    BY <1>2, <1>3
  <2> QED
    BY <2>1, <2>2
<1>7. ASSUME NEW i \in 1..Len(q), NEW j \in 1..Len(q), i < j
      PROVE  InOrder(q, kd, i, j)
  <2>1. CASE j = p
    <3>1. q[i] = d[i] /\ i \in 1..(p - 1) /\ i \in 1..Len(d) /\ q[j] = e
      BY <1>1, <1>2, <1>3, <1>7, <2>1
    <3>2. q[i].born < q[j].born
      BY <1>1, <1>3, <1>5, <3>1
    <3>3. kd = "map" => q[i].key # q[j].key
      BY <3>1
    <3>4. ASSUME q[i].key = q[j].key, NEW n \in i..j
          PROVE  q[n].key = q[i].key
      <4>1. CASE n = p
        BY <2>1, <3>4, <4>1
      <4>2. CASE n # p
        <5>1. n \in i..(p - 1) /\ n \in 1..(p - 1)
          BY <1>3, <2>1, <3>1, <4>2
        <5>2. d[n].key = e.key
          BY <3>1, <3>4, <5>1
        <5> QED
          BY <1>2, <3>1, <3>4, <5>1, <5>2
      <4> QED
        BY <4>1, <4>2
    <3> QED
      BY <3>2, <3>3, <3>4 DEF InOrder
  <2>2. CASE i = p
    <3>1. j \in (p + 1)..(Len(d) + 1) /\ j - 1 \in p..Len(d) /\ p # Len(d) + 1
      BY <1>1, <1>2, <1>3, <1>7, <2>2
    <3>2. q[j] = d[j - 1] /\ q[i] = e /\ d[j - 1].key # e.key /\ kd # "map"
      BY <1>2, <2>2, <3>1
    <3> QED
      BY <3>2 DEF InOrder
  <2>3. CASE i # p /\ j # p
    <3> DEFINE x == Old(i)
               y == Old(j)
    <3>1. x \in 1..Len(d) /\ y \in 1..Len(d) /\ q[i] = d[x] /\ q[j] = d[y]
      BY <1>4, <2>3
    <3>2. x < y
      BY <1>2, <1>3, <1>7, <2>3
    <3>3. InOrder(d, kd, x, y)
      BY <3>1, <3>2 DEF Good
    <3>4. ASSUME q[i].key = q[j].key, NEW n \in i..j
          PROVE  q[n].key = q[i].key
      <4>1. \A h \in x..y : d[h].key = d[x].key
        BY <3>1, <3>3, <3>4 DEF InOrder
      <4>2. CASE n # p
        <5>1. n \in 1..Len(q) /\ Old(n) \in x..y
          BY <1>2, <1>3, <2>3, <4>2
        <5> QED
          BY <1>4, <3>1, <4>1, <4>2, <5>1
      <4>3. CASE n = p
        <5>1. x = i /\ y = j - 1 /\ p \in x..y /\ p - 1 \in x..y /\ p # Len(d) + 1
          BY <1>1, <1>2, <1>3, <2>3, <4>3
        <5>2. d[p - 1].key = e.key /\ d[p].key # e.key
          BY <1>1, <3>1, <5>1
        <5> QED
          BY <4>1, <5>1, <5>2
      <4> QED
        BY <4>2, <4>3
    <3> HIDE DEF Old
    <3> QED
      BY <3>1, <3>3, <3>4 DEF InOrder
  <2> QED
    BY <2>1, <2>2, <2>3
<1>8. Good(q, kd, e.born)
  BY <1>2, <1>6, <1>7 DEF Good
<1> QED
  BY <1>8 DEF q

\* To append is to put before the end.
LEMMA AppendAt ==
  ASSUME NEW d \in Seq(EntryType), NEW e \in EntryType
  PROVE  Append(d, e) = InsertAt(d, Len(d) + 1, e)
<1> DEFINE q == InsertAt(d, Len(d) + 1, e)
<1>1. Len(d) \in Nat /\ Len(d) + 1 \in 1..(Len(d) + 1)
  OBVIOUS
<1>2. /\ q \in Seq(EntryType) /\ Len(q) = Len(d) + 1
      /\ \A i \in 1..((Len(d) + 1) - 1) : q[i] = d[i]
      /\ q[Len(d) + 1] = e
  BY <1>1, PutAt
<1> HIDE DEF q
<1>3. /\ Append(d, e) \in Seq(EntryType) /\ Len(Append(d, e)) = Len(d) + 1
      /\ \A i \in 1..Len(d) : Append(d, e)[i] = d[i]
      /\ Append(d, e)[Len(d) + 1] = e
  OBVIOUS
<1>4. \A i \in 1..(Len(d) + 1) : Append(d, e)[i] = q[i]
  <2>1. ASSUME NEW i \in 1..(Len(d) + 1)
        PROVE  Append(d, e)[i] = q[i]
    <3>1. i = Len(d) + 1 \/ i \in 1..Len(d)
      BY <1>1
    <3>2. i \in 1..Len(d) => i \in 1..((Len(d) + 1) - 1)
      BY <1>1
    <3> QED
      BY <1>2, <1>3, <3>1, <3>2
  <2> QED
    BY <2>1
<1>5. Append(d, e) = q
  BY <1>2, <1>3, <1>4, SameSeq
<1> QED
  BY <1>5 DEF q

\* An entry that is made later changes nothing for those that are there.
LEMMA GoodLater ==
  ASSUME NEW d, NEW kd, NEW m \in Nat, NEW n \in Nat, m < n, Good(d, kd, m)
  PROVE  Good(d, kd, n)
<1>1. \A i \in 1..Len(d) : d[i].born <= m /\ d[i].born \in Nat
  BY GoodTypes DEF Good
<1>2. \A i \in 1..Len(d) : d[i].born <= n
  BY <1>1
<1> QED
  BY <1>2 DEF Good

\* insert() of an entry younger than all that are there.
LEMMA InsertGood ==
  ASSUME NEW d, NEW m \in Nat, Good(d, seqKind, m), NEW e \in EntryType, m < e.born,
         seqKind \in {"map", "multimap"}
  PROVE  Good(InsertOne(d, e), seqKind, e.born)
<1> DEFINE f == FindEntry(d, e.key)
<1>1. /\ d \in Seq(EntryType) /\ Len(d) \in Nat /\ e.born \in Nat
  BY GoodTypes DEF EntryType
<1>2. \/ f = Len(d) + 1 /\ \A i \in 1..Len(d) : d[i].key # e.key
      \/ f \in 1..Len(d) /\ d[f].key = e.key
  BY <1>1, FindFirst
<1>3. CASE f = Len(d) + 1 /\ \A i \in 1..Len(d) : d[i].key # e.key
  <2>1. InsertOne(d, e) = InsertAt(d, Len(d) + 1, e)
    BY <1>1, <1>3, AppendAt DEF InsertOne, InsertMap, InsertMulti, End
  <2> DEFINE p == Len(d) + 1
  <2>2. /\ p \in 1..(Len(d) + 1)
        /\ \A i \in p..Len(d) : d[i].key # e.key
        /\ \A i \in 1..(p - 1) : i \in 1..Len(d)
    BY <1>1
  <2>3. \A i \in 1..(p - 1) : d[i].key # e.key
    BY <1>3, <2>2
  <2> HIDE DEF f
  <2>4. Good(InsertAt(d, p, e), seqKind, e.born)
    BY <1>3, <2>2, <2>3, PutGood
  <2> QED
    BY <2>1, <2>4
<1>4. CASE f \in 1..Len(d) /\ d[f].key = e.key /\ seqKind = "map"
  <2>1. f # Len(d) + 1
    BY <1>1, <1>4
  <2>2. InsertOne(d, e) = d
    BY <1>4, <2>1 DEF InsertOne, InsertMap, End
  <2> QED
    BY <1>1, <2>2, GoodLater
<1>5. CASE f \in 1..Len(d) /\ d[f].key = e.key /\ seqKind = "multimap"
  <2> DEFINE p == AdvanceToNextKey(d, f)
  <2>1. f # Len(d) + 1
    BY <1>1, <1>5
  <2>2. InsertOne(d, e) = InsertAt(d, p, e)
    BY <1>5, <2>1 DEF InsertOne, InsertMulti, End
  <2> HIDE DEF f
  <2>3. /\ p \in (f + 1)..(Len(d) + 1)
        /\ \A n \in f..(p - 1) : d[n].key = d[f].key
        /\ p = Len(d) + 1 \/ d[p].key # d[f].key
    BY <1>1, <1>5, AdvanceFacts
  <2> HIDE DEF p
  <2>4. p \in 1..(Len(d) + 1) /\ p # 1 /\ p - 1 \in f..(p - 1) /\ f < p
    BY <1>1, <1>5, <2>3
  <2>5. d[p - 1].key = e.key
    BY <1>5, <2>3, <2>4
  <2>6. ASSUME NEW i \in p..Len(d), d[i].key = e.key
        PROVE  FALSE
    <3>1. i \in 1..Len(d) /\ f < i /\ p \in f..i /\ p # Len(d) + 1
      BY <1>1, <1>5, <2>4
    <3>2. InOrder(d, seqKind, f, i)
      BY <1>5, <3>1 DEF Good
    <3>3. d[p].key = d[f].key
      BY <1>5, <2>6, <3>1, <3>2 DEF InOrder
    <3> QED
      BY <2>3, <3>1, <3>3
  <2>7. ASSUME NEW i \in 1..(p - 1), d[i].key = e.key, NEW n \in i..(p - 1)
        PROVE  d[n].key = e.key
    <3>1. CASE i = p - 1
      <4>1. n = i
        BY <2>4, <3>1
      <4> QED
        BY <2>7, <4>1
    <3>2. CASE i # p - 1
      <4>1. i \in 1..Len(d) /\ p - 1 \in 1..Len(d) /\ i < p - 1
        BY <1>1, <2>4, <3>2
      <4>2. InOrder(d, seqKind, i, p - 1)
        BY <4>1 DEF Good
      <4> QED
        BY <2>5, <2>7, <4>2 DEF InOrder
    <3> QED
      BY <3>1, <3>2
  <2>8. Good(InsertAt(d, p, e), seqKind, e.born)
    BY <1>5, <2>4, <2>5, <2>6, <2>7, PutGood
  <2> QED
    BY <2>2, <2>8
<1> QED
  BY <1>2, <1>3, <1>4, <1>5

\* operator[] makes an entry only where there is none.
LEMMA SubscriptGood ==
  ASSUME NEW d, NEW m \in Nat, Good(d, seqKind, m), NEW e \in EntryType, m < e.born,
         seqKind \in {"map", "multimap"}
  PROVE  Good(Subscript(d, e), seqKind, e.born)
<1>1. e.born \in Nat
  BY DEF EntryType
<1> QED
  BY <1>1, InsertGood, GoodLater DEF Subscript

\* The entries that erase() leaves keep their order.
LEMMA EraseGood ==
  ASSUME NEW d, NEW kd, NEW m, Good(d, kd, m),
         NEW i \in 1..Len(d), NEW j \in (i + 1)..(Len(d) + 1)
  PROVE  Good(Without2(d, i, j), kd, m)
<1> DEFINE q == Without2(d, i, j)
           Old(n) == IF n < i THEN n ELSE n + (j - i)
<1>1. d \in Seq(EntryType) /\ Len(d) \in Nat /\ i \in Nat /\ j \in Nat /\ i < j
  BY GoodTypes
<1>2. i \in 1..(Len(d) + 1) /\ j \in i..(Len(d) + 1)
  BY <1>1
<1>3. /\ q \in Seq(EntryType) /\ Len(q) = Len(d) - (j - i)
      /\ \A k \in 1..(i - 1) : q[k] = d[k]
      /\ \A k \in i..(Len(d) - (j - i)) : q[k] = d[k + (j - i)]
  BY <1>1, <1>2, CutOut
<1> HIDE DEF q
<1>4. ASSUME NEW n \in 1..Len(q)
      PROVE  Old(n) \in 1..Len(d) /\ q[n] = d[Old(n)]
  <2>1. CASE n < i
    <3>1. n \in 1..(i - 1) /\ n \in 1..Len(d)
      BY <1>1, <1>3, <2>1
    <3> QED
      BY <1>3, <2>1, <3>1
  <2>2. CASE ~(n < i)
    <3>1. n \in i..(Len(d) - (j - i)) /\ n + (j - i) \in 1..Len(d)
      BY <1>1, <1>3, <2>2
    <3> QED
      BY <1>3, <2>2, <3>1
  <2> QED
    BY <2>1, <2>2
<1>5. \A n \in 1..Len(q) : q[n].born <= m
  BY <1>4 DEF Good
<1>6. ASSUME NEW a \in 1..Len(q), NEW b \in 1..Len(q), a < b
      PROVE  InOrder(q, kd, a, b)
  <2> DEFINE x == Old(a)
             y == Old(b)
  <2>1. x \in 1..Len(d) /\ y \in 1..Len(d) /\ x < y
    BY <1>1, <1>3, <1>4, <1>6
  <2>2. q[a] = d[x] /\ q[b] = d[y]
    BY <1>4
  <2>3. InOrder(d, kd, x, y)
    BY <2>1 DEF Good
  <2>4. \A n \in a..b : n \in 1..Len(q) /\ Old(n) \in x..y
    BY <1>1, <1>3
  <2> HIDE DEF Old
  <2> QED
    BY <1>4, <2>2, <2>3, <2>4 DEF InOrder
<1>7. Good(q, kd, m)
  BY <1>3, <1>5, <1>6 DEF Good
<1> QED
  BY <1>7 DEF q

-----------------------------------------------------------------------------
\* The entries are in good order and none is younger than the last one made.
SInv ==
  /\ seqKind \in {"map", "multimap"}
  /\ made \in Nat
  /\ Good(entries, seqKind, made)

\* In every state the entries stand in the order of their making, as far as the
\* container promises it: insert() behind the last entry of its key, operator[]
\* and erase() keep it (sequenced_map.hpp:57-103, 157-208).
THEOREM SequencedInvariant == SequencedSpec => []SInv
<1>1. SequencedInit => SInv
  <2> SUFFICES ASSUME SequencedInit
               PROVE  SInv
    OBVIOUS
  <2>1. <<>> \in Seq(EntryType) /\ Len(<<>>) = 0 /\ 1..Len(<<>>) = {}
    OBVIOUS
  <2> QED
    BY <2>1 DEF SequencedInit, SInv, Good
<1>2. SInv /\ [SequencedNext]_sequencedVars => SInv'
  <2> SUFFICES ASSUME SInv, [SequencedNext]_sequencedVars
               PROVE  SInv'
    OBVIOUS
  <2>1. seqKind \in {"map", "multimap"} /\ made \in Nat /\ Good(entries, seqKind, made)
    BY DEF SInv
  <2>2. ASSUME NEW d, NEW n \in Nat, Good(d, seqKind, made + n), Become(d, n)
        PROVE  SInv'
    BY <2>1, <2>2 DEF Become, SInv
  <2>3. \A k \in SeqKeys, n \in Nat : /\ Entry(k, made + n) \in EntryType
                                      /\ Entry(k, made + n).born = made + n
    BY <2>1 DEF Entry, EntryType
  <2>4. Good(<<>>, seqKind, made)
    <3>1. <<>> \in Seq(EntryType) /\ Len(<<>>) = 0 /\ 1..Len(<<>>) = {}
      OBVIOUS
    <3> QED
      BY <3>1 DEF Good
  <2>5. ASSUME NEW d, Good(d, seqKind, made), NEW j \in SeqKeys, NEW k \in SeqKeys
        PROVE  Good(InsertRange(d, TwoEntries(j, k)), seqKind, made + 2)
    <3> DEFINE e1 == Entry(j, made + 1)
               e2 == Entry(k, made + 2)
               c == InsertOne(d, e1)
    <3>1. e1 \in EntryType /\ e1.born = made + 1 /\ e2 \in EntryType /\ e2.born = made + 2
      BY <2>3
    <3>2. InsertRange(d, TwoEntries(j, k)) = InsertOne(c, e2)
      BY DEF InsertRange, TwoEntries
    <3>3. made < made + 1 /\ made + 1 \in Nat /\ made + 1 < made + 2
      BY <2>1
    <3> HIDE DEF e1, e2
    <3>4. Good(c, seqKind, made + 1)
      BY <2>1, <2>5, <3>1, <3>3, InsertGood
    <3> HIDE DEF c
    <3>5. Good(InsertOne(c, e2), seqKind, made + 2)
      BY <2>1, <3>1, <3>3, <3>4, InsertGood
    <3> QED
      BY <3>2, <3>5
  <2>6. ASSUME NEW k \in SeqKeys, InsertKey(k) \/ SubscriptKey(k)
        PROVE  SInv'
    <3> DEFINE e == Entry(k, made + 1)
    <3>1. e \in EntryType /\ e.born = made + 1 /\ made < made + 1
      BY <2>1, <2>3
    <3>2. Become(InsertOne(entries, e), 1) \/ Become(Subscript(entries, e), 1)
      BY <2>6 DEF InsertKey, SubscriptKey
    <3> HIDE DEF e
    <3>3. Good(InsertOne(entries, e), seqKind, made + 1)
      BY <2>1, <3>1, InsertGood
    <3>4. Good(Subscript(entries, e), seqKind, made + 1)
      BY <2>1, <3>1, SubscriptGood
    <3> QED
      BY <2>2, <3>2, <3>3, <3>4
  <2>7. ASSUME NEW j \in SeqKeys, NEW k \in SeqKeys, InsertTwo(j, k) \/ AssignTwo(j, k)
        PROVE  SInv'
    <3>1. \/ Become(InsertRange(entries, TwoEntries(j, k)), 2)
          \/ Become(InsertRange(<<>>, TwoEntries(j, k)), 2)
      BY <2>7 DEF InsertTwo, AssignTwo
    <3> QED
      BY <2>1, <2>2, <2>4, <2>5, <3>1
  <2>8. ASSUME NEW i, NEW j, EraseEntries(i, j)
        PROVE  SInv'
    <3>1. /\ i \in DOMAIN entries /\ j \in (i + 1)..(Len(entries) + 1)
          /\ entries' = Without2(entries, i, j) /\ seqKind' = seqKind /\ made' = made
      BY <2>8 DEF EraseEntries, End, Without2
    <3>2. DOMAIN entries = 1..Len(entries)
      <4>1. entries \in Seq(EntryType)
        BY <2>1, GoodTypes
      <4> QED
        BY <4>1
    <3>3. Good(Without2(entries, i, j), seqKind, made)
      BY <2>1, <3>1, <3>2, EraseGood
    <3> QED
      BY <2>1, <3>1, <3>3 DEF SInv
  <2>9. CASE UNCHANGED sequencedVars
    BY <2>9 DEF sequencedVars, SInv
  <2> QED
    BY <2>6, <2>7, <2>8, <2>9 DEF SequencedNext
<1> QED
  BY <1>1, <1>2, PTL DEF SequencedSpec

\* The entries of a key stand together, the oldest first, and a map has one for
\* each key, in the order of their making: what the comment of sequenced_multimap
\* promises, after any insertions and erasures (sequenced_map.hpp:114-119).
THEOREM SequencedKeysTogether == SequencedSpec => []KeysTogether
<1>1. ASSUME SInv
      PROVE  KeysTogether
  <2>1. Good(entries, seqKind, made)
    BY <1>1 DEF SInv
  <2>2. DOMAIN entries = 1..Len(entries)
    <3>1. entries \in Seq(EntryType)
      BY <2>1, GoodTypes
    <3> QED
      BY <3>1
  <2> QED
    BY <2>1, <2>2 DEF Good, InOrder, KeysTogether
<1> QED
  BY <1>1, SequencedInvariant, PTL
=============================================================================
