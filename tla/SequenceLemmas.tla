--------------------------- MODULE SequenceLemmas --------------------------
(***************************************************************************)
(* Facts about numbers and sequences on which the proofs about containers, *)
(* queues and streams rest: induction over the natural numbers, from the   *)
(* well-foundedness of their order, and what cutting, prefixing and        *)
(* inserting do to a sequence, place by place.                             *)
(***************************************************************************)
EXTENDS Integers, FiniteSets, SequencesExt, SequenceTheorems, WellFoundedInduction, TLAPS

-----------------------------------------------------------------------------
(***************************************************************************)
(* Induction over the natural numbers, for sets of numbers.                *)
(***************************************************************************)
NatLess == OpToRel(<, Nat)

\* A set of numbers that is not empty has a least element.
LEMMA LeastNumber ==
  ASSUME NEW T \in SUBSET Nat, T # {}
  PROVE  \E x \in T : \A y \in T : x <= y
<1>1. IsWellFoundedOn(NatLess, Nat)
  BY NatLessThanWellFounded DEF NatLess
<1>2. \A x, y \in Nat : y < x => <<y, x>> \in NatLess
  BY DEF OpToRel, NatLess
<1>3. \E x \in T : \A y \in T : ~ (<<y, x>> \in NatLess)
  BY <1>1, WFMin
<1>4. PICK x \in T : \A y \in T : ~ (<<y, x>> \in NatLess)
  BY <1>3
<1>5. \A y \in T : y \in Nat
  OBVIOUS
<1>6. \A y \in T : ~ (y < x)
  BY <1>2, <1>4, <1>5
<1> QED
  BY <1>5, <1>6

\* A set with 0 and with the successor of each of its numbers has them all.
LEMMA SetInduction ==
  ASSUME NEW S, 0 \in S, \A n \in Nat : n \in S => n + 1 \in S
  PROVE  Nat \subseteq S
<1> DEFINE T == Nat \ S
<1>1. ASSUME T # {}
      PROVE  FALSE
  <2>1. T \in SUBSET Nat
    OBVIOUS
  <2>2. PICK x \in T : \A y \in T : x <= y
    <3> HIDE DEF T
    <3> QED
      BY LeastNumber, <1>1, <2>1
  <2>3. x # 0 /\ x \in Nat
    OBVIOUS
  <2>4. x - 1 \in Nat /\ x - 1 \notin T
    BY <2>2, <2>3
  <2>5. x - 1 \in S /\ (x - 1) + 1 = x
    BY <2>3, <2>4
  <2>6. x \in S
    BY <2>4, <2>5
  <2> QED
    BY <2>6
<1> QED
  BY <1>1

\* A set of numbers that is not empty and has a bound has a greatest element.
LEMMA GreatestNumber ==
  ASSUME NEW b \in Nat, NEW T \in SUBSET (0..b), T # {}
  PROVE  \E x \in T : \A y \in T : y <= x
<1> DEFINE U == {b - y : y \in T}
<1>1. U \in SUBSET Nat /\ U # {}
  <2>1. \A y \in T : y \in 0..b /\ b - y \in Nat
    OBVIOUS
  <2>2. PICK y \in T : TRUE
    OBVIOUS
  <2>3. b - y \in U
    BY <2>2
  <2> QED
    BY <2>1, <2>3
<1>2. PICK u \in U : \A w \in U : u <= w
  <2> HIDE DEF U
  <2> QED
    BY <1>1, LeastNumber
<1>3. PICK x \in T : u = b - x
  OBVIOUS
<1>4. ASSUME NEW y \in T
      PROVE  y <= x
  <2>1. b - x <= b - y
    BY <1>2, <1>3
  <2>2. x \in 0..b /\ y \in 0..b
    OBVIOUS
  <2> QED
    BY <2>1, <2>2
<1> QED
  BY <1>4

-----------------------------------------------------------------------------
(***************************************************************************)
(* Sequences.                                                              *)
(***************************************************************************)
\* What a concatenation holds, place by place.
LEMMA Concat ==
  ASSUME NEW S, NEW s \in Seq(S), NEW t \in Seq(S)
  PROVE  /\ s \o t \in Seq(S)
         /\ Len(s \o t) = Len(s) + Len(t)
         /\ \A i \in 1..Len(s) : (s \o t)[i] = s[i]
         /\ \A i \in 1..Len(t) : (s \o t)[Len(s) + i] = t[i]
OBVIOUS

\* A sequence without the places i to j - 1.
Without2(s, i, j) == SubSeq(s, 1, i - 1) \o SubSeq(s, j, Len(s))

\* What is left then, place by place.
LEMMA CutOut ==
  ASSUME NEW S, NEW s \in Seq(S), NEW i \in 1..(Len(s) + 1), NEW j \in i..(Len(s) + 1)
  PROVE  /\ Without2(s, i, j) \in Seq(S)
         /\ Len(Without2(s, i, j)) = Len(s) - (j - i)
         /\ \A k \in 1..(i - 1) : Without2(s, i, j)[k] = s[k]
         /\ \A k \in i..(Len(s) - (j - i)) : Without2(s, i, j)[k] = s[k + (j - i)]
<1> DEFINE a == SubSeq(s, 1, i - 1)
           b == SubSeq(s, j, Len(s))
<1>1. Len(s) \in Nat /\ i \in Nat /\ j \in Nat /\ i <= j /\ j <= Len(s) + 1 /\ i >= 1
  OBVIOUS
<1>2. a \in Seq(S) /\ Len(a) = i - 1 /\ \A k \in 1..(i - 1) : a[k] = s[k]
  BY <1>1
<1>3. b \in Seq(S) /\ Len(b) = Len(s) - j + 1 /\ \A k \in 1..(Len(s) - j + 1) : b[k] = s[j + k - 1]
  BY <1>1
<1>4. Without2(s, i, j) = a \o b
  BY DEF Without2
<1> HIDE DEF a, b
<1>5. /\ a \o b \in Seq(S) /\ Len(a \o b) = Len(a) + Len(b)
      /\ \A k \in 1..Len(a) : (a \o b)[k] = a[k]
      /\ \A k \in 1..Len(b) : (a \o b)[Len(a) + k] = b[k]
  <2>1. a \in Seq(S) /\ b \in Seq(S)
    BY <1>2, <1>3
  <2> QED
    BY <2>1, Concat
<1>6. Len(a \o b) = Len(s) - (j - i)
  BY <1>1, <1>2, <1>3, <1>5
<1>7. ASSUME NEW k \in i..(Len(s) - (j - i))
      PROVE  (a \o b)[k] = s[k + (j - i)]
  <2>1. k - (i - 1) \in 1..Len(b) /\ Len(a) + (k - (i - 1)) = k
    BY <1>1, <1>2, <1>3
  <2>2. (a \o b)[k] = b[k - (i - 1)]
    BY <1>5, <2>1
  <2>3. b[k - (i - 1)] = s[j + (k - (i - 1)) - 1]
    BY <1>3, <2>1
  <2>4. j + (k - (i - 1)) - 1 = k + (j - i)
    BY <1>1
  <2> QED
    BY <2>2, <2>3, <2>4
<1> QED
  BY <1>2, <1>4, <1>5, <1>6, <1>7

\* A sequence with something in front.
LEMMA PutFirst ==
  ASSUME NEW S, NEW s \in Seq(S), NEW x \in S
  PROVE  /\ <<x>> \o s \in Seq(S)
         /\ Len(<<x>> \o s) = Len(s) + 1
         /\ (<<x>> \o s)[1] = x
         /\ \A i \in 2..(Len(s) + 1) : (<<x>> \o s)[i] = s[i - 1]
<1>1. <<x>> \in Seq(S) /\ Len(<<x>>) = 1 /\ <<x>>[1] = x /\ Len(s) \in Nat
  OBVIOUS
<1>2. /\ <<x>> \o s \in Seq(S) /\ Len(<<x>> \o s) = 1 + Len(s)
      /\ (<<x>> \o s)[1] = x
      /\ \A k \in 1..Len(s) : (<<x>> \o s)[1 + k] = s[k]
  BY <1>1, Concat
<1>3. ASSUME NEW i \in 2..(Len(s) + 1)
      PROVE  (<<x>> \o s)[i] = s[i - 1]
  <2>1. i - 1 \in 1..Len(s) /\ 1 + (i - 1) = i
    BY <1>1
  <2> QED
    BY <1>2, <2>1
<1> QED
  BY <1>1, <1>2, <1>3

\* A sequence whose element at place p is replaced by x, which goes to the front:
\* what stands at place i came from place FromPlace(p, i).
FromPlace(p, i) == IF i = 1 THEN p ELSE IF i <= p THEN i - 1 ELSE i

\* The element at place p moves to the front, as another one.
LEMMA ReplaceFirst ==
  ASSUME NEW S, NEW s \in Seq(S), NEW p \in 1..Len(s), NEW x \in S
  PROVE  /\ <<x>> \o RemoveAt(s, p) \in Seq(S)
         /\ Len(<<x>> \o RemoveAt(s, p)) = Len(s)
         /\ (<<x>> \o RemoveAt(s, p))[1] = x
         /\ \A i \in 2..Len(s) : (<<x>> \o RemoveAt(s, p))[i] = s[FromPlace(p, i)]
<1> DEFINE q == RemoveAt(s, p)
           u == <<x>> \o q
<1>1. Len(s) \in Nat /\ p \in Nat /\ 1 <= p /\ p <= Len(s)
  OBVIOUS
<1>2. /\ q \in Seq(S) /\ Len(q) = Len(s) - 1
      /\ \A k \in 1..(p - 1) : q[k] = s[k]
      /\ \A k \in p..(Len(s) - 1) : q[k] = s[k + 1]
  <2>1. p \in 1..(Len(s) + 1) /\ p + 1 \in p..(Len(s) + 1) /\ (p + 1) - p = 1
    BY <1>1
  <2>2. q = Without2(s, p, p + 1)
    BY DEF Without2, RemoveAt
  <2>3. /\ Without2(s, p, p + 1) \in Seq(S)
        /\ Len(Without2(s, p, p + 1)) = Len(s) - ((p + 1) - p)
        /\ \A k \in 1..(p - 1) : Without2(s, p, p + 1)[k] = s[k]
        /\ \A k \in p..(Len(s) - ((p + 1) - p)) : Without2(s, p, p + 1)[k] = s[k + ((p + 1) - p)]
    BY <2>1, CutOut
  <2> HIDE DEF q
  <2> QED
    BY <2>1, <2>2, <2>3
<1> HIDE DEF q
<1>3. /\ u \in Seq(S) /\ Len(u) = Len(q) + 1
      /\ u[1] = x /\ \A i \in 2..(Len(q) + 1) : u[i] = q[i - 1]
  <2>1. q \in Seq(S)
    BY <1>2
  <2> QED
    BY <2>1, PutFirst
<1>4. Len(u) = Len(s) /\ Len(q) + 1 = Len(s)
  BY <1>1, <1>2, <1>3
<1>5. ASSUME NEW i \in 2..Len(s)
      PROVE  u[i] = s[FromPlace(p, i)]
  <2>1. u[i] = q[i - 1]
    BY <1>3, <1>4
  <2>2. CASE i <= p
    <3>1. i - 1 \in 1..(p - 1) /\ FromPlace(p, i) = i - 1
      BY <1>1, <2>2 DEF FromPlace
    <3> QED
      BY <1>2, <2>1, <3>1
  <2>3. CASE i > p
    <3>1. i - 1 \in p..(Len(s) - 1) /\ FromPlace(p, i) = i /\ (i - 1) + 1 = i
      BY <1>1, <2>3 DEF FromPlace
    <3> QED
      BY <1>2, <2>1, <3>1
  <2>4. i <= p \/ i > p
    BY <1>1
  <2> QED
    BY <2>2, <2>3, <2>4
<1> QED
  BY <1>3, <1>4, <1>5 DEF q

\* A sequence without its last place.
LEMMA FrontFacts ==
  ASSUME NEW S, NEW s \in Seq(S), Len(s) # 0
  PROVE  /\ Front(s) \in Seq(S) /\ Len(Front(s)) = Len(s) - 1
         /\ \A i \in 1..(Len(s) - 1) : Front(s)[i] = s[i]
<1>1. Len(s) \in Nat /\ Len(s) - 1 \in Nat /\ 1 \in Int
  OBVIOUS
<1>2. Len(s) - 1 <= Len(s) /\ \A i \in 1..(Len(s) - 1) : i \in 1..Len(s)
  BY <1>1
<1>3. \A i \in 1..(Len(s) - 1) : s[i] \in S
  BY <1>2
<1>4. SubSeq(s, 1, Len(s) - 1) \in Seq(S)
  BY <1>1, <1>3, SubSeqProperties
<1>5. Len(SubSeq(s, 1, Len(s) - 1)) = Len(s) - 1
  <2> DEFINE m == Len(s) - 1
             x == Len(SubSeq(s, 1, m))
  <2>1. m \in Nat
    BY <1>1
  <2>2. x = IF 1 <= m THEN m - 1 + 1 ELSE 0
    BY <1>1, <1>3, SubSeqProperties
  <2> HIDE DEF x, m
  <2>3. x = m
    BY <2>1, <2>2
  <2> QED
    BY <2>3 DEF x, m
<1>6. \A i \in 1..(Len(s) - 1) : SubSeq(s, 1, Len(s) - 1)[i] = s[i]
  BY <1>1, <1>2
<1> QED
  BY <1>4, <1>5, <1>6 DEF Front

\* Two sequences are the same if they have the same length and elements.
LEMMA SameSeq ==
  ASSUME NEW S, NEW s \in Seq(S), NEW T, NEW t \in Seq(T), Len(s) = Len(t),
         \A i \in 1..Len(s) : s[i] = t[i]
  PROVE  s = t
<1>1. s \in Seq(S \cup T) /\ t \in Seq(S \cup T)
  OBVIOUS
<1> QED
  BY <1>1, SeqEqual

\* A sequence cut in two.
LEMMA CutTwo ==
  ASSUME NEW S, NEW s \in Seq(S), NEW n \in 0..Len(s)
  PROVE  /\ SubSeq(s, 1, n) \in Seq(S) /\ Len(SubSeq(s, 1, n)) = n
         /\ \A i \in 1..n : SubSeq(s, 1, n)[i] = s[i]
         /\ SubSeq(s, n + 1, Len(s)) \in Seq(S)
         /\ Len(SubSeq(s, n + 1, Len(s))) = Len(s) - n
         /\ \A i \in 1..(Len(s) - n) : SubSeq(s, n + 1, Len(s))[i] = s[n + i]
         /\ SubSeq(s, 1, n) \o SubSeq(s, n + 1, Len(s)) = s
<1> DEFINE a == SubSeq(s, 1, n)
           b == SubSeq(s, n + 1, Len(s))
<1>1. Len(s) \in Nat /\ n \in Nat /\ n <= Len(s) /\ \A i \in 1..Len(s) : s[i] \in S
  OBVIOUS
<1>2. a \in Seq(S) /\ Len(a) = n /\ \A i \in 1..n : a[i] = s[i]
  <2>1. \A i \in 1..n : s[i] \in S
    BY <1>1
  <2>2. /\ a \in Seq(S) /\ Len(a) = IF 1 <= n THEN n - 1 + 1 ELSE 0
        /\ \A i \in 1..(n - 1 + 1) : a[i] = s[1 + i - 1]
    BY <1>1, <2>1, SubSeqProperties
  <2> HIDE DEF a
  <2> QED
    BY <1>1, <2>2
<1>3. b \in Seq(S) /\ Len(b) = Len(s) - n /\ \A i \in 1..(Len(s) - n) : b[i] = s[n + i]
  <2>1. \A i \in (n + 1)..Len(s) : s[i] \in S
    BY <1>1
  <2>2. /\ b \in Seq(S) /\ Len(b) = IF n + 1 <= Len(s) THEN Len(s) - (n + 1) + 1 ELSE 0
        /\ \A i \in 1..(Len(s) - (n + 1) + 1) : b[i] = s[(n + 1) + i - 1]
    BY <1>1, <2>1, SubSeqProperties
  <2> HIDE DEF b
  <2>3. ASSUME NEW i \in 1..(Len(s) - n)
        PROVE  b[i] = s[n + i]
    <3>1. i \in 1..(Len(s) - (n + 1) + 1) /\ (n + 1) + i - 1 = n + i
      BY <1>1
    <3> QED
      BY <2>2, <3>1
  <2> QED
    BY <1>1, <2>2, <2>3
<1> HIDE DEF a, b
<1>31. a \in Seq(S) /\ b \in Seq(S)
  BY <1>2, <1>3
<1>32. /\ a \o b \in Seq(S) /\ Len(a \o b) = Len(a) + Len(b)
       /\ \A i \in 1..Len(a) : (a \o b)[i] = a[i]
       /\ \A i \in 1..Len(b) : (a \o b)[Len(a) + i] = b[i]
  BY <1>31, Concat
<1> DEFINE ab == a \o b
<1> HIDE DEF ab
<1>4. /\ ab \in Seq(S) /\ Len(ab) = Len(s)
      /\ \A i \in 1..n : ab[i] = a[i]
      /\ \A i \in 1..(Len(s) - n) : ab[n + i] = b[i]
  BY <1>1, <1>2, <1>3, <1>32 DEF ab
<1>5. ASSUME NEW i \in 1..Len(s)
      PROVE  ab[i] = s[i]
  <2>1. CASE i <= n
    BY <1>1, <1>2, <1>4, <2>1
  <2>2. CASE i > n
    <3>1. i - n \in 1..(Len(s) - n) /\ n + (i - n) = i
      BY <1>1, <2>2
    <3> QED
      BY <1>3, <1>4, <3>1
  <2> QED
    BY <1>1, <2>1, <2>2
<1>6. ab = s
  BY <1>1, <1>4, <1>5, SameSeq
<1> QED
  BY <1>2, <1>3, <1>6 DEF a, b, ab

\* An element put before place p.
LEMMA PutAt ==
  ASSUME NEW S, NEW s \in Seq(S), NEW p \in 1..(Len(s) + 1), NEW x \in S
  PROVE  /\ InsertAt(s, p, x) \in Seq(S)
         /\ Len(InsertAt(s, p, x)) = Len(s) + 1
         /\ \A i \in 1..(p - 1) : InsertAt(s, p, x)[i] = s[i]
         /\ InsertAt(s, p, x)[p] = x
         /\ \A i \in (p + 1)..(Len(s) + 1) : InsertAt(s, p, x)[i] = s[i - 1]
<1> DEFINE a == SubSeq(s, 1, p - 1)
           b == SubSeq(s, p, Len(s))
           ax == a \o <<x>>
           q == ax \o b
<1>1. Len(s) \in Nat /\ p \in Nat /\ p >= 1 /\ p <= Len(s) + 1
  OBVIOUS
<1>2. a \in Seq(S) /\ Len(a) = p - 1 /\ \A k \in 1..(p - 1) : a[k] = s[k]
  BY <1>1
<1>3. b \in Seq(S) /\ Len(b) = Len(s) - p + 1 /\ \A k \in 1..(Len(s) - p + 1) : b[k] = s[p + k - 1]
  BY <1>1
<1>4. <<x>> \in Seq(S) /\ Len(<<x>>) = 1 /\ <<x>>[1] = x
  OBVIOUS
<1>5. InsertAt(s, p, x) = q
  BY DEF InsertAt
<1> HIDE DEF a, b
<1>6. /\ ax \in Seq(S) /\ Len(ax) = p
      /\ \A i \in 1..(p - 1) : ax[i] = a[i]
      /\ ax[p] = x
  <2>1. /\ ax \in Seq(S) /\ Len(ax) = Len(a) + Len(<<x>>)
        /\ \A i \in 1..Len(a) : ax[i] = a[i]
        /\ \A i \in 1..Len(<<x>>) : ax[Len(a) + i] = <<x>>[i]
    BY <1>2, <1>4, Concat
  <2> HIDE DEF ax
  <2>2. Len(ax) = p /\ Len(a) + 1 = p
    BY <1>1, <1>2, <1>4, <2>1
  <2>3. ax[p] = x
    BY <1>4, <2>1, <2>2
  <2> QED
    BY <1>2, <2>1, <2>2, <2>3
<1> HIDE DEF ax
<1>7. /\ q \in Seq(S) /\ Len(q) = Len(ax) + Len(b)
      /\ \A i \in 1..Len(ax) : q[i] = ax[i]
      /\ \A i \in 1..Len(b) : q[Len(ax) + i] = b[i]
  BY <1>3, <1>6, Concat
<1> HIDE DEF q
<1>8. Len(q) = Len(s) + 1
  BY <1>1, <1>3, <1>6, <1>7
<1>9. \A i \in 1..(p - 1) : q[i] = s[i]
  BY <1>1, <1>2, <1>6, <1>7
<1>10. q[p] = x
  BY <1>1, <1>6, <1>7
<1>11. ASSUME NEW i \in (p + 1)..(Len(s) + 1)
       PROVE  q[i] = s[i - 1]
  <2>1. i - p \in 1..Len(b) /\ p + (i - p) = i /\ p + (i - p) - 1 = i - 1
    BY <1>1, <1>3
  <2>2. q[i] = b[i - p]
    BY <1>6, <1>7, <2>1
  <2>3. b[i - p] = s[i - 1]
    BY <1>3, <2>1
  <2> QED
    BY <2>2, <2>3
<1> QED
  BY <1>5, <1>7, <1>8, <1>9, <1>10, <1>11
=============================================================================
