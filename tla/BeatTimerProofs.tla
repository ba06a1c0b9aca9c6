-------------------------- MODULE BeatTimerProofs ---------------------------
(***************************************************************************)
(* beat_timer never forgets a callback and keeps them in the order of      *)
(* their times, for every number of callbacks and threads and every clock. *)
(***************************************************************************)
EXTENDS BeatTimer, FiniteSetTheorems, TLAPS

\* The place emplace_hint() chooses is one of the Len(m) + 1 possible ones.
LEMMA PositionRange ==
  ASSUME NEW m \in Seq(Entry), NEW e \in Entry
  PROVE  Position(m, e) \in 1..(Len(m) + 1)
<1> DEFINE S == {i \in 1..Len(m) : m[i].time < e.time}
<1>1. Len(m) \in Nat
  OBVIOUS
<1>2. IsFiniteSet(1..Len(m)) /\ Cardinality(1..Len(m)) = Len(m)
  <2>1. 1 <= Len(m) \/ Len(m) = 0
    BY <1>1
  <2> QED
    BY <1>1, <2>1, FS_Interval
<1>3. S \subseteq 1..Len(m)
  OBVIOUS
<1>4. IsFiniteSet(S) /\ Cardinality(S) <= Len(m)
  BY <1>2, <1>3, FS_Subset
<1>5. Cardinality(S) \in Nat
  BY <1>4, FS_CardinalityType
<1> QED
  BY <1>1, <1>4, <1>5 DEF Position

\* Insert() returns a map one entry longer whose first entry is the new one if
\* it was put at the front and the old first entry otherwise.
LEMMA InsertFacts ==
  ASSUME NEW m \in Seq(Entry), NEW e \in Entry
  PROVE  /\ Insert(m, e) \in Seq(Entry)
         /\ Len(Insert(m, e)) = Len(m) + 1
         /\ Position(m, e) = 1 => Insert(m, e)[1] = e
         /\ Position(m, e) # 1 => m # <<>> /\ Insert(m, e)[1] = m[1]
<1> DEFINE p == Position(m, e)
<1>1. p \in 1..(Len(m) + 1) /\ Len(m) \in Nat
  BY PositionRange
<1>2. \A i \in 1..(Len(m) + 1) :
         (IF i < p THEN m[i] ELSE IF i = p THEN e ELSE m[i - 1]) \in Entry
  BY <1>1
<1> HIDE DEF p
<1>3. Insert(m, e) = [i \in 1..(Len(m) + 1) |->
                        IF i < p THEN m[i] ELSE IF i = p THEN e ELSE m[i - 1]]
  BY DEF Insert, p
<1>4. Insert(m, e) \in Seq(Entry) /\ Len(Insert(m, e)) = Len(m) + 1
  BY <1>1, <1>2, <1>3
<1>5. p = 1 => Insert(m, e)[1] = e
  BY <1>1, <1>3
<1>6. p # 1 => m # <<>> /\ Insert(m, e)[1] = m[1]
  BY <1>1, <1>3
<1> QED
  BY <1>4, <1>5, <1>6 DEF p

IInv == TypeOK /\ Armed

\* A timer that has just been constructed has nothing to forget.
LEMMA InitIInv == Init => IInv
<1> SUFFICES ASSUME Init PROVE IInv
  OBVIOUS
<1>1. 0 \in 0..MaxTime
  BY BeatAssumption DEF BeatAssumption
<1>2. <<>> \in Seq(Entry)
  OBVIOUS
<1>3. TypeOK
  BY <1>1, <1>2 DEF Init, TypeOK, PCs
<1>4. Armed
  BY DEF Init, Armed
<1> QED
  BY <1>3, <1>4 DEF IInv

\* Every step keeps the types and forgets no callback.
LEMMA NextIInv == IInv /\ [Next]_vars => IInv'
<1> SUFFICES ASSUME IInv, [Next]_vars PROVE IInv'
  OBVIOUS
<1> USE DEF IInv, TypeOK
<1>1. CASE Tick
  BY <1>1, BeatAssumption DEF Tick, Armed, timerVars, BeatAssumption
<1>2. CASE Fire
  BY <1>2 DEF Fire, Armed
<1>3. ASSUME NEW x \in Tasks, NEW d \in Delays, now + d \in 0..MaxTime,
             AsyncWait([task |-> x, time |-> now + d])
      PROVE  IInv'
  <2> DEFINE e == [task |-> x, time |-> now + d]
  <2>1. e \in Entry
    BY <1>3 DEF Entry
  <2> HIDE DEF e
  <2>2. AsyncWait(e)
    BY <1>3 DEF e
  <2>3. used' \subseteq Tasks
    BY <2>1, <2>2 DEF AsyncWait, Entry
  <2>4. map_' = Insert(map_, e) /\ map_' \in Seq(Entry) /\ Len(map_') = Len(map_) + 1
    BY <2>1, <2>2, InsertFacts DEF AsyncWait
  <2>5. CASE Position(map_, e) = 1 /\ ~cancel_request
    <3>1. map_'[1] = e /\ e.time \in 0..MaxTime
      BY <2>1, <2>4, <2>5, InsertFacts DEF Entry
    <3> QED
      BY <2>2, <2>3, <2>4, <2>5, <3>1 DEF AsyncWait, Arm, Armed
  <2>6. CASE Position(map_, e) = 1 /\ cancel_request
    BY <2>2, <2>3, <2>4, <2>6 DEF AsyncWait, Armed, timerVars
  <2>7. CASE Position(map_, e) # 1
    <3>1. map_ # <<>> /\ map_'[1] = map_[1]
      BY <2>1, <2>4, <2>7, InsertFacts
    <3> QED
      BY <2>2, <2>3, <2>4, <2>7, <3>1 DEF AsyncWait, Armed, timerVars
  <2> QED
    BY <2>5, <2>6, <2>7
<1>4. ASSUME NEW t \in Threads, CancelTimer(t) PROVE IInv'
  BY <1>4 DEF CancelTimer, Armed, PCs
<1>5. ASSUME NEW t \in Threads, OnWait(t) PROVE IInv'
  <2>1. CASE map_ = <<>>
    BY <1>5, <2>1 DEF OnWait, Armed
  <2>2. CASE map_ # <<>>
    <3>1. Tail(map_) \in Seq(Entry) /\ Head(map_) \in Entry
      BY <2>2
    <3>2. TypeOK'
      BY <1>5, <2>2, <3>1 DEF OnWait, PCs
    <3>3. pc'[t] = "run"
      BY <1>5, <2>2 DEF OnWait
    <3> QED
      BY <3>2, <3>3 DEF Armed
  <2> QED
    BY <2>1, <2>2
<1>6. ASSUME NEW t \in Threads, OnAborted(t) PROVE IInv'
  BY <1>6 DEF OnAborted, Armed, PCs
<1>7. ASSUME NEW t \in Threads, Rearm(t) PROVE IInv'
  <2>1. CASE map_ = <<>>
    BY <1>7, <2>1 DEF Rearm, Armed, PCs, timerVars
  <2>2. CASE map_ # <<>>
    <3>1. Len(map_) \in Nat /\ Len(map_) # 0
      BY <2>2
    <3>2. map_[1] \in Entry
      BY <3>1
    <3>3. map_[1].time \in 0..MaxTime
      BY <3>2 DEF Entry
    <3>4. TypeOK'
      BY <1>7, <2>2, <3>3 DEF Rearm, Arm, PCs
    <3>5. pending' = 1 /\ expiry' = map_'[1].time
      BY <1>7, <2>2 DEF Rearm, Arm
    <3> QED
      BY <3>4, <3>5 DEF Armed
  <2> QED
    BY <2>1, <2>2
<1>8. ASSUME NEW t \in Threads, Drain(t) PROVE IInv'
  <2>1. CASE map_ = <<>>
    BY <1>8, <2>1 DEF Drain, Armed, PCs, timerVars
  <2>2. CASE map_ # <<>>
    <3>1. Tail(map_) \in Seq(Entry) /\ Head(map_) \in Entry
      BY <2>2
    <3> QED
      BY <1>8, <2>2, <3>1 DEF Drain, Armed, PCs, timerVars
  <2> QED
    BY <2>1, <2>2
<1>9. ASSUME NEW t \in Threads, DrainNext(t) PROVE IInv'
  BY <1>9 DEF DrainNext, Armed, PCs, timerVars
<1>10. ASSUME NEW t \in Threads, CancelRequest(t) PROVE IInv'
  BY <1>10 DEF CancelRequest, Armed, PCs, timerVars
<1>11. CASE UNCHANGED vars
  BY <1>11 DEF vars, timerVars, Armed
<1> QED
  BY <1>1, <1>2, <1>3, <1>4, <1>5, <1>6, <1>7, <1>8, <1>9, <1>10, <1>11
     DEF Next, ThreadStep

\* The invariant holds for ever.
THEOREM BeatInvariant == Spec => []IInv
BY InitIInv, NextIInv, PTL DEF Spec

\* beat_timer never forgets a callback that waits, whatever the interleaving of
\* async_wait(), cancel(), callbacks and late timer handlers.
THEOREM BeatArmed == Spec => []Armed
<1>1. IInv => Armed
  BY DEF IInv
<1> QED
  BY <1>1, BeatInvariant, PTL

\* The state of the timer keeps its types.
THEOREM BeatTypeOK == Spec => []TypeOK
<1>1. IInv => TypeOK
  BY DEF IInv
<1> QED
  BY <1>1, BeatInvariant, PTL

-----------------------------------------------------------------------------
(* The order of map_.                                                      *)

TimeOrdered(m) == \A i, j \in 1..Len(m) : i < j => m[i].time <= m[j].time

\* A set of positions that has every position before each of its own is the
\* interval of as many positions.
LEMMA InitialSegment ==
  ASSUME NEW n \in Nat, NEW S \in SUBSET (1..n),
         \A i \in S, j \in 1..n : j < i => j \in S
  PROVE  Cardinality(S) \in Nat /\ S = 1..Cardinality(S)
<1>1. IsFiniteSet(1..n)
  BY FS_Interval
<1>2. IsFiniteSet(S)
  BY <1>1, FS_Subset
<1>3. Cardinality(S) \in Nat
  BY <1>2, FS_CardinalityType
<1>4. ASSUME NEW i \in S PROVE i <= Cardinality(S)
  <2>1. i \in Nat /\ i >= 1 /\ i <= n
    OBVIOUS
  <2>2. 1..i \in SUBSET S
    BY <2>1
  <2>3. Cardinality(1..i) <= Cardinality(S)
    BY <1>2, <2>2, FS_Subset
  <2>4. Cardinality(1..i) = i
    BY <2>1, FS_Interval
  <2> QED
    BY <2>3, <2>4
<1>5. S \in SUBSET (1..Cardinality(S))
  BY <1>3, <1>4
<1>6. IsFiniteSet(1..Cardinality(S)) /\ Cardinality(1..Cardinality(S)) = Cardinality(S)
  <2>1. Cardinality(S) = 0 \/ 1 <= Cardinality(S)
    BY <1>3
  <2> QED
    BY <1>3, <2>1, FS_Interval
<1>7. 1..Cardinality(S) = S
  BY <1>5, <1>6, FS_Subset
<1> QED
  BY <1>3, <1>7

\* The entries of a map have times.
LEMMA EntryTimes ==
  ASSUME NEW m \in Seq(Entry)
  PROVE  \A i \in 1..Len(m) : m[i].time \in Int
<1>1. \A i \in 1..Len(m) : m[i] \in Entry
  OBVIOUS
<1>2. \A x \in Entry : x.time \in Int
  BY DEF Entry
<1> QED
  BY <1>1, <1>2

\* The entries before the place emplace_hint() chooses are the smaller ones.
LEMMA PositionSplits ==
  ASSUME NEW m \in Seq(Entry), NEW e \in Entry, TimeOrdered(m)
  PROVE  \A i \in 1..Len(m) : i < Position(m, e) <=> m[i].time < e.time
<1> DEFINE S == {i \in 1..Len(m) : m[i].time < e.time}
<1>1. Len(m) \in Nat /\ S \in SUBSET (1..Len(m))
  OBVIOUS
<1>2. \A i \in 1..Len(m) : m[i].time \in Int
  BY EntryTimes
<1>3. e.time \in Int
  BY DEF Entry
<1>4. \A i \in S, j \in 1..Len(m) : j < i => j \in S
  <2> SUFFICES ASSUME NEW i \in S, NEW j \in 1..Len(m), j < i PROVE m[j].time < e.time
    OBVIOUS
  <2>1. m[j].time <= m[i].time
    BY DEF TimeOrdered
  <2>2. m[i].time < e.time
    OBVIOUS
  <2> QED
    BY <1>2, <1>3, <2>1, <2>2
<1>5. Position(m, e) = 1 + Cardinality(S)
  BY DEF Position
<1> HIDE DEF S
<1>6. Cardinality(S) \in Nat /\ S = 1..Cardinality(S)
  BY <1>1, <1>4, InitialSegment
<1>7. \A i \in 1..Len(m) : i < 1 + Cardinality(S) <=> i \in S
  <2> DEFINE k == Cardinality(S)
  <2>1. k \in Nat /\ S = 1..k
    BY <1>6
  <2> HIDE DEF k
  <2>2. \A i \in 1..Len(m) : i < 1 + k <=> i \in S
    BY <1>1, <2>1
  <2> QED
    BY <2>2 DEF k
<1> QED
  BY <1>5, <1>7 DEF S

\* Insert() keeps the order.
LEMMA InsertOrdered ==
  ASSUME NEW m \in Seq(Entry), NEW e \in Entry, TimeOrdered(m)
  PROVE  TimeOrdered(Insert(m, e))
<1> DEFINE p == Position(m, e)
           n == Insert(m, e)
<1>1. p \in 1..(Len(m) + 1) /\ Len(m) \in Nat
  BY PositionRange
<1>2. Len(n) = Len(m) + 1
  BY InsertFacts
<1>3. \A i \in 1..Len(m) : i < p <=> m[i].time < e.time
  BY PositionSplits
<1>4. n = [i \in 1..(Len(m) + 1) |->
            IF i < p THEN m[i] ELSE IF i = p THEN e ELSE m[i - 1]]
  BY DEF Insert
<1>5. \A i \in 1..Len(m) : m[i].time \in Int
  BY EntryTimes
<1>6. e.time \in Int
  BY DEF Entry
<1> HIDE DEF p, n
<1>7. \A i \in 1..Len(n) : n[i] = IF i < p THEN m[i] ELSE IF i = p THEN e ELSE m[i - 1]
  BY <1>2, <1>4
<1>8. ASSUME NEW i \in 1..Len(n), NEW j \in 1..Len(n), i < j
      PROVE  n[i].time <= n[j].time
  <2>1. CASE j < p
    <3>1. i \in 1..Len(m) /\ j \in 1..Len(m) /\ n[i] = m[i] /\ n[j] = m[j]
      BY <1>1, <1>2, <1>7, <1>8, <2>1
    <3> QED
      BY <1>8, <3>1 DEF TimeOrdered
  <2>2. CASE j = p
    <3>1. i \in 1..Len(m) /\ i < p /\ n[i] = m[i] /\ n[j] = e
      BY <1>1, <1>2, <1>7, <1>8, <2>2
    <3> QED
      BY <1>3, <1>5, <1>6, <3>1
  <2>3. CASE j > p
    <3>1. j - 1 \in 1..Len(m) /\ n[j] = m[j - 1] /\ ~(j - 1 < p)
      BY <1>1, <1>2, <1>7, <1>8, <2>3
    <3>2. e.time <= m[j - 1].time
      BY <1>3, <1>5, <1>6, <3>1
    <3>3. CASE i < p
      <4>1. i \in 1..Len(m) /\ n[i] = m[i] /\ m[i].time < e.time
        BY <1>1, <1>2, <1>3, <1>7, <3>3
      <4> QED
        BY <1>5, <1>6, <3>1, <3>2, <4>1
    <3>4. CASE i = p
      BY <1>1, <1>7, <3>1, <3>2, <3>4
    <3>5. CASE i > p
      <4>1. i - 1 \in 1..Len(m) /\ n[i] = m[i - 1] /\ i - 1 < j - 1
        BY <1>1, <1>2, <1>7, <1>8, <3>5
      <4> QED
        BY <3>1, <4>1 DEF TimeOrdered
    <3> QED
      BY <1>1, <3>3, <3>4, <3>5
  <2> QED
    BY <1>1, <2>1, <2>2, <2>3
<1> QED
  BY <1>8 DEF TimeOrdered, n

\* Taking the first entry keeps the order.
LEMMA TailOrdered ==
  ASSUME NEW m \in Seq(Entry), m # <<>>, TimeOrdered(m)
  PROVE  TimeOrdered(Tail(m))
<1>1. /\ Len(m) \in Nat /\ Len(Tail(m)) = Len(m) - 1
      /\ \A i \in 1..Len(Tail(m)) : Tail(m)[i] = m[i + 1]
  OBVIOUS
<1> QED
  BY <1>1 DEF TimeOrdered

\* Every step keeps the order of map_.
LEMMA NextOrdered == TypeOK /\ Ordered /\ [Next]_vars => Ordered'
<1> SUFFICES ASSUME TypeOK, TimeOrdered(map_), [Next]_vars PROVE TimeOrdered(map_')
  BY DEF Ordered, TimeOrdered
<1>1. map_ \in Seq(Entry)
  BY DEF TypeOK
<1>2. ASSUME NEW x \in Tasks, NEW d \in Delays, now + d \in 0..MaxTime,
             AsyncWait([task |-> x, time |-> now + d])
      PROVE  TimeOrdered(map_')
  <2>1. [task |-> x, time |-> now + d] \in Entry
    BY <1>2 DEF Entry
  <2>2. map_' = Insert(map_, [task |-> x, time |-> now + d])
    BY <1>2 DEF AsyncWait
  <2> QED
    BY <1>1, <2>1, <2>2, InsertOrdered
<1>3. ASSUME NEW t \in Threads, OnWait(t) \/ Drain(t) PROVE TimeOrdered(map_')
  <2>1. map_' = map_ \/ (map_ # <<>> /\ map_' = Tail(map_))
    BY <1>3 DEF OnWait, Drain
  <2> QED
    BY <1>1, <2>1, TailOrdered
<1>4. CASE Tick \/ Fire \/ UNCHANGED vars
  BY <1>4 DEF Tick, Fire, vars
<1>5. ASSUME NEW t \in Threads,
             CancelTimer(t) \/ OnAborted(t) \/ Rearm(t) \/ DrainNext(t) \/ CancelRequest(t)
      PROVE  TimeOrdered(map_')
  BY <1>5 DEF CancelTimer, OnAborted, Rearm, DrainNext, CancelRequest
<1> QED
  BY <1>2, <1>3, <1>4, <1>5 DEF Next, ThreadStep

\* The first entry of map_ is always the next one due: emplace_hint() with the
\* hint begin() never breaks the order, whatever is inserted or taken meanwhile.
THEOREM BeatOrdered == Spec => []Ordered
<1>1. Init => Ordered
  BY DEF Init, Ordered
<1> QED
  BY <1>1, BeatTypeOK, NextOrdered, PTL DEF Spec
=============================================================================
