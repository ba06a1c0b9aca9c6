---------------------------- MODULE PingerProofs ---------------------------
(***************************************************************************)
(* A pinger whose io_service is run by one thread, for any number of pings *)
(* and of sequence numbers, so that seq_ comes round: a check is never     *)
(* given the reply to another ping unless a whole round lies between the   *)
(* two, and, until seq_ laps an entry, the handler of each ping is called  *)
(* once.  On several threads neither holds: seq_++ is not protected, and   *)
(* two pings may get the same number.                                      *)
(***************************************************************************)
EXTENDS Pinger, SequenceLemmas, FiniteSetTheorems

\* run() is called by one thread.
OneThread == \A s, t \in Threads : s = t

PCs == {"idle", "number", "emplace", "arm", "send", "unsend", "match", "rearm", "wait", "rewait"}
Phases == {"idle", "resolving", "failed", "lost", "sending"}

-----------------------------------------------------------------------------
(***************************************************************************)
(* Numbers that come round.                                                *)
(***************************************************************************)
\* After n steps a counter modulo SeqCount shows r.
Shows(n, r) == \E k \in Nat : n = SeqCount * k + r

\* A number below the modulus is its own remainder, and the modulus leaves none.
LEMMA SmallMod ==
  ASSUME NEW k \in Nat \ {0}, NEW c \in 0..k
  PROVE  c % k = IF c = k THEN 0 ELSE c
OBVIOUS

\* One step further.
LEMMA NextShown ==
  ASSUME NEW n \in Nat, NEW r \in 0..(SeqCount - 1), Shows(n, r)
  PROVE  (r + 1) % SeqCount \in 0..(SeqCount - 1) /\ Shows(n + 1, (r + 1) % SeqCount)
<1>1. SeqCount \in Nat \ {0}
  BY PingerAssumption
<1>2. PICK k \in Nat : n = SeqCount * k + r
  BY DEF Shows
<1>3. (r + 1) % SeqCount = IF r + 1 = SeqCount THEN 0 ELSE r + 1
  <2>1. r + 1 \in 0..SeqCount
    BY <1>1
  <2> QED
    BY <1>1, <2>1, SmallMod
<1>4. SeqCount * k \in Nat /\ SeqCount * (k + 1) = SeqCount * k + SeqCount
  BY <1>1
<1> DEFINE x == SeqCount * k
<1> HIDE DEF x
<1>5. x \in Nat /\ n = x + r /\ SeqCount * (k + 1) = x + SeqCount
  BY <1>2, <1>4 DEF x
<1>6. CASE r + 1 = SeqCount
  <2>1. n + 1 = SeqCount * (k + 1) + 0
    BY <1>1, <1>5, <1>6
  <2>2. k + 1 \in Nat
    OBVIOUS
  <2>3. Shows(n + 1, 0)
    BY <2>1, <2>2 DEF Shows
  <2>4. 0 \in 0..(SeqCount - 1) /\ (r + 1) % SeqCount = 0
    BY <1>1, <1>3, <1>6
  <2> QED
    BY <2>3, <2>4
<1>7. CASE r + 1 # SeqCount
  <2>1. n + 1 = SeqCount * k + (r + 1)
    BY <1>5 DEF x
  <2>2. r + 1 \in 0..(SeqCount - 1)
    BY <1>1, <1>7
  <2> QED
    BY <1>3, <1>7, <2>1, <2>2 DEF Shows
<1> QED
  BY <1>6, <1>7

\* Two counts that show the same are equal or a whole round apart.
LEMMA Apart ==
  ASSUME NEW a \in Nat, NEW b \in Nat, NEW r \in 0..(SeqCount - 1),
         Shows(a, r), Shows(b, r), a # b
  PROVE  a - b >= SeqCount \/ b - a >= SeqCount
<1>1. SeqCount \in Nat \ {0}
  BY PingerAssumption
<1>2. PICK i \in Nat, j \in Nat : a = SeqCount * i + r /\ b = SeqCount * j + r
  BY DEF Shows
<1>3. i # j
  BY <1>2
<1>4. SeqCount * i - SeqCount * j >= SeqCount \/ SeqCount * j - SeqCount * i >= SeqCount
  <2>1. \A k \in Int : k >= 1 => SeqCount * k >= SeqCount
    BY <1>1
  <2>2. /\ SeqCount * i - SeqCount * j = SeqCount * (i - j)
        /\ SeqCount * j - SeqCount * i = SeqCount * (j - i)
    BY <1>1
  <2>3. i - j \in Int /\ j - i \in Int /\ (i - j >= 1 \/ j - i >= 1)
    BY <1>3
  <2> QED
    BY <2>1, <2>2, <2>3
<1> DEFINE x == SeqCount * i
           y == SeqCount * j
<1>5. x \in Int /\ y \in Int
  BY <1>1
<1>6. a = x + r /\ b = y + r /\ (x - y >= SeqCount \/ y - x >= SeqCount)
  BY <1>2, <1>4
<1> HIDE DEF x, y
<1> QED
  BY <1>1, <1>5, <1>6

-----------------------------------------------------------------------------
(***************************************************************************)
(* Sequences without repetition.                                           *)
(***************************************************************************)
In(s, x) == \E i \in 1..Len(s) : s[i] = x
Distinct(s) == \A i, j \in 1..Len(s) : s[i] = s[j] => i = j

\* An element is taken out.
LEMMA TakenOut ==
  ASSUME NEW S, NEW s \in Seq(S), Distinct(s), NEW i \in 1..Len(s)
  PROVE  /\ RemoveAt(s, i) \in Seq(S) /\ Distinct(RemoveAt(s, i))
         /\ \A x : In(RemoveAt(s, i), x) <=> In(s, x) /\ x # s[i]
<1> DEFINE q == RemoveAt(s, i)
           Old(n) == IF n < i THEN n ELSE n + 1
<1>1. Len(s) \in Nat /\ i \in Nat /\ i >= 1 /\ i <= Len(s)
  OBVIOUS
<1>2. i \in 1..(Len(s) + 1) /\ i + 1 \in i..(Len(s) + 1) /\ (i + 1) - i = 1
  BY <1>1
<1>3. q = Without2(s, i, i + 1)
  BY DEF RemoveAt, Without2
<1>4. /\ q \in Seq(S) /\ Len(q) = Len(s) - 1
      /\ \A k \in 1..(i - 1) : q[k] = s[k]
      /\ \A k \in i..(Len(s) - 1) : q[k] = s[k + 1]
  <2> HIDE DEF q
  <2>1. /\ q \in Seq(S) /\ Len(q) = Len(s) - ((i + 1) - i)
        /\ \A k \in 1..(i - 1) : q[k] = s[k]
        /\ \A k \in i..(Len(s) - ((i + 1) - i)) : q[k] = s[k + ((i + 1) - i)]
    BY <1>2, <1>3, CutOut
  <2> QED
    BY <1>2, <2>1
<1> HIDE DEF q
<1>5. ASSUME NEW n \in 1..Len(q)
      PROVE  Old(n) \in 1..Len(s) /\ Old(n) # i /\ q[n] = s[Old(n)]
  <2>1. CASE n < i
    <3>1. n \in 1..(i - 1) /\ n \in 1..Len(s)
      BY <1>1, <2>1
    <3> QED
      BY <1>1, <1>4, <2>1, <3>1
  <2>2. CASE ~(n < i)
    <3>1. n \in i..(Len(s) - 1) /\ n + 1 \in 1..Len(s) /\ n + 1 # i
      BY <1>1, <1>4, <2>2
    <3> QED
      BY <1>4, <2>2, <3>1
  <2> QED
    BY <2>1, <2>2
<1>6. ASSUME NEW m \in 1..Len(s), m # i
      PROVE  \E n \in 1..Len(q) : q[n] = s[m]
  <2>1. CASE m < i
    <3>1. m \in 1..(i - 1) /\ m \in 1..Len(q)
      BY <1>1, <1>4, <2>1
    <3> QED
      BY <1>4, <3>1
  <2>2. CASE m > i
    <3>1. m - 1 \in i..(Len(s) - 1) /\ m - 1 \in 1..Len(q) /\ (m - 1) + 1 = m
      BY <1>1, <1>4, <2>2
    <3> QED
      BY <1>4, <3>1
  <2> QED
    BY <1>1, <1>6, <2>1, <2>2
<1>7. ASSUME NEW a \in 1..Len(q), NEW b \in 1..Len(q), q[a] = q[b]
      PROVE  a = b
  <2>1. Old(a) = Old(b)
    <3>1. Old(a) \in 1..Len(s) /\ Old(b) \in 1..Len(s) /\ s[Old(a)] = s[Old(b)]
      BY <1>5, <1>7
    <3> HIDE DEF Old
    <3> QED
      BY <3>1 DEF Distinct
  <2>2. a \in Nat /\ b \in Nat
    BY <1>1, <1>4
  <2> QED
    BY <1>1, <2>1, <2>2
<1>8. ASSUME NEW x
      PROVE  In(q, x) <=> In(s, x) /\ x # s[i]
  <2>1. ASSUME In(q, x)
        PROVE  In(s, x) /\ x # s[i]
    <3>1. PICK n \in 1..Len(q) : q[n] = x
      BY <2>1 DEF In
    <3>2. Old(n) \in 1..Len(s) /\ Old(n) # i /\ s[Old(n)] = x
      BY <1>5, <3>1
    <3> HIDE DEF Old
    <3> QED
      BY <3>2 DEF In, Distinct
  <2>2. ASSUME In(s, x), x # s[i]
        PROVE  In(q, x)
    BY <1>6, <2>2 DEF In
  <2> QED
    BY <2>1, <2>2
<1> QED
  BY <1>4, <1>7, <1>8 DEF q, Distinct

\* A new element is put in.
LEMMA PutIn ==
  ASSUME NEW S, NEW s \in Seq(S), Distinct(s), NEW p \in 1..(Len(s) + 1),
         NEW e \in S, ~In(s, e)
  PROVE  /\ InsertAt(s, p, e) \in Seq(S) /\ Distinct(InsertAt(s, p, e))
         /\ \A x : In(InsertAt(s, p, e), x) <=> In(s, x) \/ x = e
<1> DEFINE q == InsertAt(s, p, e)
           Old(n) == IF n < p THEN n ELSE n - 1
<1>1. Len(s) \in Nat /\ p \in Nat /\ p >= 1 /\ p <= Len(s) + 1
  OBVIOUS
<1>2. /\ q \in Seq(S) /\ Len(q) = Len(s) + 1
      /\ \A i \in 1..(p - 1) : q[i] = s[i]
      /\ q[p] = e
      /\ \A i \in (p + 1)..(Len(s) + 1) : q[i] = s[i - 1]
  BY PutAt
<1> HIDE DEF q
<1>3. ASSUME NEW n \in 1..Len(q), n # p
      PROVE  Old(n) \in 1..Len(s) /\ q[n] = s[Old(n)]
  <2>1. CASE n < p
    <3>1. n \in 1..(p - 1) /\ n \in 1..Len(s)
      BY <1>1, <2>1
    <3> QED
      BY <1>2, <2>1, <3>1
  <2>2. CASE n > p
    <3>1. n \in (p + 1)..(Len(s) + 1) /\ n - 1 \in 1..Len(s) /\ ~(n < p)
      BY <1>1, <1>2, <2>2
    <3> QED
      BY <1>2, <3>1
  <2> QED
    BY <1>1, <1>3, <2>1, <2>2
<1>4. ASSUME NEW m \in 1..Len(s)
      PROVE  \E n \in 1..Len(q) : q[n] = s[m]
  <2>1. CASE m < p
    <3>1. m \in 1..(p - 1) /\ m \in 1..Len(q)
      BY <1>1, <1>2, <2>1
    <3> QED
      BY <1>2, <3>1
  <2>2. CASE m >= p
    <3>1. m + 1 \in (p + 1)..(Len(s) + 1) /\ m + 1 \in 1..Len(q) /\ (m + 1) - 1 = m
      BY <1>1, <1>2, <2>2
    <3> QED
      BY <1>2, <3>1
  <2> QED
    BY <1>1, <2>1, <2>2
<1>5. p \in 1..Len(q)
  BY <1>1, <1>2
<1>6. ASSUME NEW n \in 1..Len(q), q[n] = e
      PROVE  n = p
  <2>1. ASSUME n # p
        PROVE  FALSE
    <3>1. Old(n) \in 1..Len(s) /\ s[Old(n)] = e
      BY <1>3, <1>6, <2>1
    <3> HIDE DEF Old
    <3> QED
      BY <3>1 DEF In
  <2> QED
    BY <2>1
<1>7. ASSUME NEW a \in 1..Len(q), NEW b \in 1..Len(q), q[a] = q[b]
      PROVE  a = b
  <2>1. CASE a = p \/ b = p
    BY <1>2, <1>6, <1>7, <2>1
  <2>2. CASE a # p /\ b # p
    <3>1. Old(a) = Old(b)
      <4>1. Old(a) \in 1..Len(s) /\ Old(b) \in 1..Len(s) /\ s[Old(a)] = s[Old(b)]
        BY <1>3, <1>7, <2>2
      <4> HIDE DEF Old
      <4> QED
        BY <4>1 DEF Distinct
    <3>2. a \in Nat /\ b \in Nat
      BY <1>1, <1>2
    <3> QED
      BY <1>1, <2>2, <3>1, <3>2
  <2> QED
    BY <2>1, <2>2
<1>8. ASSUME NEW x
      PROVE  In(q, x) <=> In(s, x) \/ x = e
  <2>1. ASSUME In(q, x), x # e
        PROVE  In(s, x)
    <3>1. PICK n \in 1..Len(q) : q[n] = x
      BY <2>1 DEF In
    <3>2. Old(n) \in 1..Len(s) /\ s[Old(n)] = x
      BY <1>2, <1>3, <2>1, <3>1
    <3> HIDE DEF Old
    <3> QED
      BY <3>2 DEF In
  <2>2. ASSUME In(s, x)
        PROVE  In(q, x)
    BY <1>4, <2>2 DEF In
  <2>3. In(q, e)
    BY <1>2, <1>5 DEF In
  <2> QED
    BY <2>1, <2>2, <2>3
<1> QED
  BY <1>2, <1>7, <1>8 DEF q, Distinct

\* The first element is taken out.
LEMMA TailRemoves ==
  ASSUME NEW S, NEW s \in Seq(S), s # <<>>
  PROVE  Tail(s) = RemoveAt(s, 1) /\ Head(s) = s[1] /\ 1 \in 1..Len(s)
<1>1. Len(s) \in Nat /\ Len(s) # 0
  OBVIOUS
<1>2. 1 \in 1..(Len(s) + 1) /\ 2 \in 1..(Len(s) + 1)
  BY <1>1
<1> DEFINE q == RemoveAt(s, 1)
<1>3. q = Without2(s, 1, 2)
  BY DEF RemoveAt, Without2
<1> HIDE DEF q
<1>4. /\ q \in Seq(S) /\ Len(q) = Len(s) - (2 - 1)
      /\ \A k \in 1..(Len(s) - (2 - 1)) : q[k] = s[k + (2 - 1)]
  BY <1>2, <1>3, CutOut
<1>5. /\ Tail(s) \in Seq(S) /\ Len(Tail(s)) = Len(s) - 1
      /\ \A k \in 1..(Len(s) - 1) : Tail(s)[k] = s[k + 1]
  OBVIOUS
<1>6. Tail(s) = q
  <2>1. Len(q) = Len(s) - 1 /\ \A k \in 1..(Len(s) - 1) : q[k] = s[k + 1]
    BY <1>1, <1>4
  <2> QED
    BY <1>4, <1>5, <2>1, SameSeq
<1> QED
  BY <1>1, <1>6 DEF q

-----------------------------------------------------------------------------
(***************************************************************************)
(* The inductive invariant.                                                *)
(***************************************************************************)
Types ==
  /\ seq \in 0..(SeqCount - 1) /\ num \in [Pings -> 0..(SeqCount - 1)]
  /\ turns \in Nat /\ turn \in [Pings -> Nat] /\ lapped \in BOOLEAN
  /\ task \in [Threads -> [pc : PCs, ping : Pings \cup {None}]]
  /\ phase \in [Pings -> Phases]
  /\ called \in [Pings -> Nat]
  /\ answer \in [Pings -> {None, "error", "timeout"} \cup Pings]
  /\ entries \in Seq(Pings)

\* The pings given to send_ping().
Sent == {p \in Pings : phase[p] = "sending"}

\* The number of a ping is what seq_ showed at its turn, and no two have had the
\* same turn; seq_ is where it should be, unless it is being advanced.  The ping
\* that is being sent had the last turn.  Until seq_ laps an entry, all of them
\* are within one round.
Sending == {"number", "emplace", "arm", "send", "unsend"}
Numbers ==
  /\ \A p \in Sent : turn[p] < turns /\ Shows(turn[p], num[p])
  /\ \A p, q \in Sent : turn[p] = turn[q] => p = q
  /\ (\A t \in Threads : task[t].pc # "number") => Shows(turns, seq)
  /\ \A t \in Threads : task[t].pc \in Sending => turn[task[t].ping] + 1 = turns
  /\ ~lapped => \A p \in Pings : In(entries, p) => turns - turn[p] <= SeqCount

\* What a thread is about to do, it does for a ping that has been sent, and the
\* ping that it is about to put into entries_ is not there and has no answer; hosts
\* answer requests that have been sent.
OnDuty == {"number", "emplace", "arm", "send", "unsend", "match"}
Carrying == {"number", "emplace"}
Duties ==
  /\ \A t \in Threads : task[t].pc \in OnDuty => task[t].ping \in Sent
  /\ \A t \in Threads : task[t].pc \in Carrying =>
                          called[task[t].ping] = 0 /\ ~In(entries, task[t].ping)
  /\ unanswered \subseteq Sent

\* A ping is in entries_ or answered, once, unless a thread carries it.
Carried(p) == \E t \in Threads : task[t].pc \in Carrying /\ task[t].ping = p
OnceEach ==
  /\ \A p \in Pings : In(entries, p) => called[p] = 0
  /\ \A p \in Sent : /\ called[p] \in {0, 1}
                     /\ called[p] = 0 => In(entries, p) \/ Carried(p)
Once ==
  /\ Distinct(entries)
  /\ \A p \in Pings : In(entries, p) => p \in Sent
  /\ \A p \in Pings : phase[p] \in {"idle", "resolving"} => called[p] = 0
  /\ ~lapped => OnceEach

\* What a ping may be answered with.
Fits(p, a) ==
  \/ a \in {None, "error", "timeout"}
  \/ p \in Sent /\ a \in Sent /\ (a = p \/ turn[p] - turn[a] >= SeqCount \/ turn[a] - turn[p] >= SeqCount)
Answers == \A p \in Pings : Fits(p, answer[p])

PInv == Types /\ Numbers /\ Duties /\ Once /\ Answers

-----------------------------------------------------------------------------
\* Nobody is numbered.
Still == /\ seq' = seq /\ num' = num /\ turns' = turns /\ turn' = turn /\ lapped' = lapped
         /\ phase' = phase

\* A thread goes from one task that carries no ping to another one, for a ping
\* that has been sent; it goes on sending only the ping it was sending.
NextTask(t, x) ==
  /\ x \in [pc : PCs, ping : Pings \cup {None}]
  /\ task[t].pc \notin Carrying /\ x.pc \notin Carrying
  /\ x.pc \in OnDuty => x.ping \in Sent
  /\ x.pc \in Sending => task[t].pc \in Sending /\ x.ping = task[t].ping
  /\ task' = [task EXCEPT ![t] = x]

\* Such a step changes neither who is numbered nor who is carried.
LEMMA NextTaskKeeps ==
  ASSUME Types, OneThread, NEW t \in Threads, NEW x, NextTask(t, x), Still
  PROVE  /\ task' \in [Threads -> [pc : PCs, ping : Pings \cup {None}]]
         /\ \A s \in Threads : /\ task[s].pc \notin Carrying /\ task'[s].pc \notin Carrying
                               /\ task'[s].pc \in OnDuty => task'[s].ping \in Sent
                               /\ task'[s].pc \in Sending =>
                                     task[s].pc \in Sending /\ task'[s].ping = task[s].ping
         /\ \A p : ~Carried(p) /\ ~Carried(p)'
         /\ Sent' = Sent
         /\ \A p, a : Fits(p, a)' <=> Fits(p, a)
<1>1. task \in [Threads -> [pc : PCs, ping : Pings \cup {None}]]
  BY DEF Types
<1>2. task' = [task EXCEPT ![t] = x] /\ x \in [pc : PCs, ping : Pings \cup {None}]
  BY DEF NextTask
<1>3. task' \in [Threads -> [pc : PCs, ping : Pings \cup {None}]] /\ task'[t] = x
  BY <1>1, <1>2
<1>4. \A s \in Threads : s = t
  BY DEF OneThread
<1>5. \A s \in Threads : task[s].pc \notin Carrying /\ task'[s].pc \notin Carrying
  BY <1>3, <1>4 DEF NextTask
<1>6. \A p : ~Carried(p) /\ ~Carried(p)'
  BY <1>5 DEF Carried
<1>7. Sent' = Sent
  BY DEF Sent, Still
<1>8. \A s \in Threads : /\ task'[s].pc \in OnDuty => task'[s].ping \in Sent
                         /\ task'[s].pc \in Sending =>
                               task[s].pc \in Sending /\ task'[s].ping = task[s].ping
  BY <1>3, <1>4 DEF NextTask
<1>9. \A p, a : Fits(p, a)' <=> Fits(p, a)
  BY <1>7 DEF Fits, Still
<1> QED
  BY <1>3, <1>5, <1>6, <1>7, <1>8, <1>9

\* The numbers stay as they should be as long as entries_ gets nothing new.
LEMMA NumbersKept ==
  ASSUME PInv, OneThread, NEW t \in Threads, NEW x, NextTask(t, x), Still,
         \A p \in Pings : In(entries, p)' => In(entries, p)
  PROVE  Numbers'
<1>1. /\ \A s \in Threads : /\ task[s].pc \notin Carrying /\ task'[s].pc \notin Carrying
                            /\ task'[s].pc \in Sending =>
                                  task[s].pc \in Sending /\ task'[s].ping = task[s].ping
      /\ Sent' = Sent
  BY NextTaskKeeps DEF PInv
<1>2. Shows(turns, seq)' <=> Shows(turns, seq)
  BY DEF Shows, Still
<1>3. \A p : Shows(turn[p], num[p])' <=> Shows(turn[p], num[p])
  BY DEF Shows, Still
<1>4. \A s \in Threads : task[s].pc # "number"
  BY <1>1 DEF Carrying
<1>5. /\ \A p \in Sent' : turn'[p] < turns' /\ Shows(turn[p], num[p])'
      /\ \A p, q \in Sent' : turn'[p] = turn'[q] => p = q
  BY <1>1, <1>3 DEF PInv, Numbers, Still
<1>6. Shows(turns, seq)'
  BY <1>2, <1>4 DEF PInv, Numbers
<1>7. \A s \in Threads : task'[s].pc \in Sending => turn'[task'[s].ping] + 1 = turns'
  BY <1>1 DEF PInv, Numbers, Still
<1>8. ~lapped' => \A p \in Pings : In(entries, p)' => turns' - turn'[p] <= SeqCount
  BY DEF PInv, Numbers, Still
<1> QED
  BY <1>5, <1>6, <1>7, <1>8 DEF Numbers

\* Only the task of a thread changes, and the requests that hosts may answer.
LEMMA TaskStep ==
  ASSUME PInv, OneThread, NEW t \in Threads, NEW x, NextTask(t, x), Still,
         called' = called, answer' = answer, entries' = entries, unanswered' \subseteq Sent
  PROVE  PInv'
<1>1. /\ task' \in [Threads -> [pc : PCs, ping : Pings \cup {None}]]
      /\ \A s \in Threads : /\ task'[s].pc \notin Carrying
                            /\ task'[s].pc \in OnDuty => task'[s].ping \in Sent
      /\ \A p : ~Carried(p) /\ ~Carried(p)'
      /\ Sent' = Sent
      /\ \A p, a : Fits(p, a)' <=> Fits(p, a)
  BY NextTaskKeeps DEF PInv
<1>2. Types'
  BY <1>1 DEF PInv, Types, Still
<1>3. Numbers'
  BY NumbersKept DEF In
<1>4. Duties'
  BY <1>1 DEF Duties
<1>5. Once'
  BY <1>1 DEF PInv, Once, OnceEach, Distinct, In, Still
<1>6. Answers'
  BY <1>1 DEF PInv, Answers
<1> QED
  BY <1>2, <1>3, <1>4, <1>5, <1>6 DEF PInv

\* An entry is taken out, and a handler called with something that fits: that of
\* the entry, unless seq_ has lapped one.
LEMMA CallStep ==
  ASSUME PInv, OneThread, NEW t \in Threads, NEW x, NextTask(t, x), Still,
         NEW i \in 1..Len(entries), entries' = RemoveAt(entries, i),
         NEW c \in Sent, c = entries[i] \/ lapped,
         NEW a \in {None, "error", "timeout"} \cup Pings, Fits(c, a), Call(c, a),
         unanswered' = unanswered
  PROVE  PInv'
<1> DEFINE e == entries[i]
<1>1. /\ task' \in [Threads -> [pc : PCs, ping : Pings \cup {None}]]
      /\ \A s \in Threads : /\ task'[s].pc \notin Carrying
                            /\ task'[s].pc \in OnDuty => task'[s].ping \in Sent
      /\ \A p : ~Carried(p) /\ ~Carried(p)'
      /\ Sent' = Sent
      /\ \A p, b : Fits(p, b)' <=> Fits(p, b)
  BY NextTaskKeeps DEF PInv
<1>2. entries \in Seq(Pings) /\ Distinct(entries) /\ e \in Pings /\ c \in Pings
  BY DEF PInv, Types, Once, Sent
<1>3. /\ entries' \in Seq(Pings) /\ Distinct(entries)'
      /\ \A p : In(entries, p)' <=> In(entries, p) /\ p # e
  <2>1. /\ RemoveAt(entries, i) \in Seq(Pings) /\ Distinct(RemoveAt(entries, i))
        /\ \A p : In(RemoveAt(entries, i), p) <=> In(entries, p) /\ p # e
    BY <1>2, TakenOut
  <2> QED
    BY <2>1 DEF Distinct, In
<1>4. In(entries, e)
  BY <1>2 DEF In
<1>5. /\ called \in [Pings -> Nat] /\ called' = [called EXCEPT ![c] = called[c] + 1]
      /\ answer' = [answer EXCEPT ![c] = a]
      /\ answer \in [Pings -> {None, "error", "timeout"} \cup Pings]
  BY DEF PInv, Types, Call
<1> HIDE DEF e
<1>6. /\ called' \in [Pings -> Nat] /\ called'[c] = called[c] + 1
      /\ \A p \in Pings : p # c => called'[p] = called[p]
  BY <1>2, <1>5
<1>7. /\ answer' \in [Pings -> {None, "error", "timeout"} \cup Pings]
      /\ \A p \in Pings : answer'[p] = IF p = c THEN a ELSE answer[p]
  BY <1>2, <1>5
<1>8. Types'
  BY <1>1, <1>3, <1>6, <1>7 DEF PInv, Types, Still
<1>9. Numbers'
  BY <1>3, NumbersKept
<1>10. Duties'
  BY <1>1 DEF PInv, Duties
<1>11. Once'
  <2>1. \A p \in Pings : phase'[p] \in {"idle", "resolving"} => called'[p] = 0
    BY <1>6 DEF PInv, Once, Sent, Still
  <2>2. ASSUME ~lapped' PROVE OnceEach'
    <3>1. ~lapped /\ OnceEach /\ c = e
      BY <2>2 DEF PInv, Once, Still, e
    <3>2. called[c] = 0 /\ called'[c] = 1
      BY <1>2, <1>4, <1>6, <3>1 DEF OnceEach
    <3>3. \A p \in Pings : In(entries, p)' => called'[p] = 0
      BY <1>3, <1>6, <3>1 DEF OnceEach
    <3>4. \A p \in Sent' : /\ called'[p] \in {0, 1}
                           /\ called'[p] = 0 => In(entries, p)'
      BY <1>1, <1>3, <1>6, <3>1, <3>2 DEF OnceEach, Sent
    <3> QED
      BY <3>3, <3>4 DEF OnceEach
  <2> QED
    BY <1>1, <1>3, <2>1, <2>2 DEF PInv, Once
<1>12. Answers'
  BY <1>1, <1>7 DEF PInv, Answers
<1> QED
  BY <1>8, <1>9, <1>10, <1>11, <1>12 DEF PInv

\* The entry that is found has the number looked for.
LEMMA FirstMatch ==
  ASSUME PInv, NEW n, Matching(n) # {}
  PROVE  /\ FirstOf(Matching(n)) \in 1..Len(entries)
         /\ entries[FirstOf(Matching(n))] \in Sent
         /\ num[entries[FirstOf(Matching(n))]] = n
         /\ In(entries, entries[FirstOf(Matching(n))])
<1> DEFINE m == Matching(n)
           f == FirstOf(m)
<1>1. entries \in Seq(Pings) /\ DOMAIN entries = 1..Len(entries) /\ Len(entries) \in Nat
  <2>1. entries \in Seq(Pings)
    BY DEF PInv, Types
  <2> QED
    BY <2>1
<1>2. m = {i \in 1..Len(entries) : num[entries[i]] = n}
  BY <1>1 DEF Matching
<1>3. m \in SUBSET Nat /\ m # {}
  BY <1>1, <1>2
<1> HIDE DEF m
<1>4. \E i \in m : \A j \in m : i <= j
  BY <1>3, LeastNumber
<1>5. f \in m
  BY <1>4 DEF FirstOf
<1> HIDE DEF f
<1>6. f \in 1..Len(entries) /\ num[entries[f]] = n
  BY <1>2, <1>5
<1>7. entries[f] \in Pings /\ In(entries, entries[f])
  BY <1>1, <1>6 DEF In
<1>8. entries[f] \in Sent
  BY <1>7 DEF PInv, Once
<1> QED
  BY <1>6, <1>7, <1>8 DEF f, m

\* Two pings with the same number are one, or a whole round apart.
LEMMA SameNumber ==
  ASSUME PInv, NEW p \in Sent, NEW q \in Sent, num[p] = num[q]
  PROVE  p = q \/ turn[p] - turn[q] >= SeqCount \/ turn[q] - turn[p] >= SeqCount
<1>1. /\ turn[p] \in Nat /\ turn[q] \in Nat /\ num[p] \in 0..(SeqCount - 1)
  BY DEF PInv, Types, Sent
<1>2. Shows(turn[p], num[p]) /\ Shows(turn[q], num[p])
  BY DEF PInv, Numbers
<1>3. turn[p] = turn[q] => p = q
  BY DEF PInv, Numbers
<1> QED
  BY <1>1, <1>2, <1>3, Apart

\* Unless seq_ has lapped an entry, the one with the number of the ping that is
\* being sent is its own.
LEMMA MatchesOwn ==
  ASSUME PInv, NEW p \in Sent, turn[p] + 1 = turns, ~lapped,
         NEW e \in Sent, In(entries, e), num[e] = num[p]
  PROVE  e = p
<1>1. SeqCount \in Nat \ {0}
  BY PingerAssumption
<1>2. turn[p] \in Nat /\ turn[e] \in Nat /\ turns \in Nat /\ e \in Pings
  BY DEF PInv, Types, Sent
<1>3. turn[e] < turns /\ turns - turn[e] <= SeqCount
  BY <1>2 DEF PInv, Numbers
<1>4. e = p \/ turn[p] - turn[e] >= SeqCount \/ turn[e] - turn[p] >= SeqCount
  BY SameNumber
<1> QED
  BY <1>1, <1>2, <1>3, <1>4

\* The idle task and the type of a task.
LEMMA TaskTypes ==
  ASSUME PInv
  PROVE  /\ Idle \in [pc : PCs, ping : Pings \cup {None}]
         /\ Idle.pc = "idle"
         /\ \A pc \in PCs, p \in Pings \cup {None} :
              /\ [pc |-> pc, ping |-> p] \in [pc : PCs, ping : Pings \cup {None}]
              /\ [pc |-> pc, ping |-> p].pc = pc /\ [pc |-> pc, ping |-> p].ping = p
         /\ \A t \in Threads : task[t].pc \in PCs /\ task[t].ping \in Pings \cup {None}
BY DEF Idle, PCs, PInv, Types

\* A thread becomes idle, or goes on with another task.
LEMMA GoesOn ==
  ASSUME PInv, NEW t \in Threads, task[t].pc \notin Carrying
  PROVE  /\ task' = [task EXCEPT ![t] = Idle] => NextTask(t, Idle)
         /\ \A pc \in PCs \ Carrying, p \in Pings \cup {None} :
              /\ Goto(t, pc, p)
              /\ pc \in OnDuty => p \in Sent
              /\ pc \in Sending => task[t].pc \in Sending /\ p = task[t].ping
              => NextTask(t, [pc |-> pc, ping |-> p])
<1>1. Idle.pc \notin Carrying /\ Idle.pc \notin OnDuty /\ Idle.pc \notin Sending
  BY TaskTypes DEF Carrying, OnDuty, Sending
<1>2. task' = [task EXCEPT ![t] = Idle] => NextTask(t, Idle)
  BY <1>1, TaskTypes DEF NextTask
<1>3. ASSUME NEW pc \in PCs \ Carrying, NEW p \in Pings \cup {None}, Goto(t, pc, p),
             pc \in OnDuty => p \in Sent,
             pc \in Sending => task[t].pc \in Sending /\ p = task[t].ping
      PROVE  NextTask(t, [pc |-> pc, ping |-> p])
  BY <1>3, TaskTypes DEF NextTask, Goto
<1> QED
  BY <1>2, <1>3

-----------------------------------------------------------------------------
(***************************************************************************)
(* The steps.                                                              *)
(***************************************************************************)
\* Steps that touch only the socket, the clock, the timer and the mutex.
LEMMA QuietStep ==
  ASSUME PInv, Still, task' = task, called' = called, answer' = answer, entries' = entries,
         unanswered' = unanswered
  PROVE  PInv'
<1>1. Sent' = Sent
  BY DEF Sent, Still
<1>2. Types'
  BY DEF PInv, Types, Still
<1>3. Numbers'
  BY <1>1 DEF PInv, Numbers, Shows, In, Still
<1>4. Duties'
  BY <1>1 DEF PInv, Duties, In
<1>5. Once'
  BY <1>1 DEF PInv, Once, OnceEach, Distinct, In, Carried, Still
<1>6. Answers'
  BY <1>1 DEF PInv, Answers, Fits, Still
<1> QED
  BY <1>2, <1>3, <1>4, <1>5, <1>6 DEF PInv

\* The timer is set, a request sent, a reply received: the thread goes on.
LEMMA ThreadSteps ==
  ASSUME PInv, OneThread, NEW t \in Threads
  PROVE  /\ ArmFirst(t) => PInv'
         /\ Send(t) => PInv'
         /\ \A p \in Pings : OnReceive(t, p) => PInv'
         /\ Rearm(t) => PInv'
         /\ OnWait(t) => PInv'
         /\ Rewait(t) => PInv'
<1> DEFINE p0 == task[t].ping
<1>1. unanswered \subseteq Sent /\ Sent \subseteq Pings /\ None \in Pings \cup {None}
  BY DEF PInv, Duties, Sent
<1>2. task[t].pc \in OnDuty => p0 \in Sent /\ p0 \in Pings
  BY DEF PInv, Duties, Sent
<1>3. ASSUME ArmFirst(t)
      PROVE  PInv'
  <2>1. /\ task[t].pc = "arm" /\ Goto(t, "send", p0) /\ Still
        /\ called' = called /\ answer' = answer /\ entries' = entries /\ unanswered' = unanswered
    BY <1>3 DEF ArmFirst, request, history, Still
  <2>2. NextTask(t, [pc |-> "send", ping |-> p0])
    BY <1>2, <2>1, GoesOn DEF PCs, Carrying, OnDuty, Sending
  <2> QED
    BY <1>1, <2>1, <2>2, TaskStep
<1>4. ASSUME Send(t)
      PROVE  PInv'
  <2>1. /\ task[t].pc = "send" /\ Still
        /\ called' = called /\ answer' = answer /\ entries' = entries
        /\ \/ unanswered' = unanswered \cup {p0} /\ task' = [task EXCEPT ![t] = Idle]
           \/ unanswered' = unanswered /\ Goto(t, "unsend", p0)
    BY <1>4 DEF Send, history, Still
  <2>2. p0 \in Sent /\ p0 \in Pings
    BY <1>2, <2>1 DEF OnDuty
  <2>3. CASE unanswered' = unanswered \cup {p0} /\ task' = [task EXCEPT ![t] = Idle]
    <3>1. NextTask(t, Idle)
      BY <2>1, <2>3, GoesOn DEF Carrying
    <3>2. unanswered' \subseteq Sent
      BY <1>1, <2>2, <2>3
    <3> QED
      BY <2>1, <3>1, <3>2, TaskStep
  <2>4. CASE unanswered' = unanswered /\ Goto(t, "unsend", p0)
    <3>1. NextTask(t, [pc |-> "unsend", ping |-> p0])
      BY <1>2, <2>1, <2>4, GoesOn DEF PCs, Carrying, OnDuty, Sending
    <3>2. unanswered' \subseteq Sent
      BY <1>1, <2>4
    <3> QED
      BY <2>1, <3>1, <3>2, TaskStep
  <2> QED
    BY <2>1, <2>3, <2>4
<1>5. ASSUME NEW p \in Pings, OnReceive(t, p)
      PROVE  PInv'
  <2>1. /\ task[t] = Idle /\ p \in unanswered /\ Goto(t, "match", p)
        /\ unanswered' \in {unanswered, unanswered \ {p}} /\ Still
        /\ called' = called /\ answer' = answer /\ entries' = entries
    BY <1>5 DEF OnReceive, history, Still
  <2>2. task[t].pc = "idle"
    BY <2>1, TaskTypes
  <2>3. p \in Sent
    BY <1>1, <2>1
  <2>4. NextTask(t, [pc |-> "match", ping |-> p])
    BY <2>1, <2>2, <2>3, GoesOn DEF PCs, Carrying, Sending
  <2>5. unanswered' \subseteq Sent
    BY <1>1, <2>1
  <2> QED
    BY <2>1, <2>4, <2>5, TaskStep
<1>6. ASSUME Rearm(t) \/ Rewait(t)
      PROVE  PInv'
  <2>1. /\ task[t].pc \in {"rearm", "rewait"} /\ task' = [task EXCEPT ![t] = Idle] /\ Still
        /\ called' = called /\ answer' = answer /\ entries' = entries /\ unanswered' = unanswered
    BY <1>6 DEF Rearm, Rewait, request, history, Still
  <2>2. NextTask(t, Idle)
    BY <2>1, GoesOn DEF Carrying
  <2> QED
    BY <1>1, <2>1, <2>2, TaskStep
<1>7. ASSUME OnWait(t)
      PROVE  PInv'
  <2>1. /\ task[t] = Idle /\ Goto(t, "wait", None) /\ Still
        /\ called' = called /\ answer' = answer /\ entries' = entries /\ unanswered' = unanswered
    BY <1>7 DEF OnWait, request, history, Still
  <2>2. task[t].pc = "idle"
    BY <2>1, TaskTypes
  <2>3. NextTask(t, [pc |-> "wait", ping |-> None])
    BY <2>1, <2>2, GoesOn DEF PCs, Carrying, OnDuty, Sending
  <2> QED
    BY <1>1, <2>1, <2>3, TaskStep
<1> QED
  BY <1>3, <1>4, <1>5, <1>6, <1>7

\* send_to() fails: the entry with the number is the ping's own, unless seq_ has
\* lapped one.
LEMMA UnsendStep ==
  ASSUME PInv, OneThread, NEW t \in Threads, Unsend(t)
  PROVE  PInv'
<1> DEFINE p == task[t].ping
           m == Matching(num[p])
           e == entries[FirstOf(m)]
<1>1. /\ task[t].pc = "unsend" /\ task' = [task EXCEPT ![t] = Idle] /\ Still
      /\ IF m # {} THEN entries' = RemoveAt(entries, FirstOf(m)) /\ Call(p, "error")
                   ELSE entries' = entries /\ called' = called /\ answer' = answer
      /\ unanswered' = unanswered
  BY DEF Unsend, request, history, Still
<1>2. p \in Sent /\ turn[p] + 1 = turns /\ unanswered \subseteq Sent
  BY <1>1 DEF PInv, Duties, Numbers, OnDuty, Sending
<1>3. NextTask(t, Idle)
  BY <1>1, GoesOn DEF Carrying
<1>4. CASE m # {}
  <2>1. FirstOf(m) \in 1..Len(entries) /\ e \in Sent /\ num[e] = num[p] /\ In(entries, e)
    BY <1>4, FirstMatch
  <2>2. p = e \/ lapped
    <3> HIDE DEF p, e
    <3>1. lapped \in BOOLEAN
      BY DEF PInv, Types
    <3> QED
      BY <1>2, <2>1, <3>1, MatchesOwn
  <2>3. Fits(p, "error")
    BY DEF Fits
  <2> QED
    BY <1>1, <1>2, <1>3, <1>4, <2>1, <2>2, <2>3, CallStep
<1>5. CASE m = {}
  BY <1>1, <1>2, <1>3, <1>5, TaskStep
<1> QED
  BY <1>4, <1>5

\* A reply ends the check with its number, or is counted for the search.
LEMMA MatchStep ==
  ASSUME PInv, OneThread, NEW t \in Threads, Match(t)
  PROVE  PInv'
<1> DEFINE p == task[t].ping
           m == Matching(num[p])
           e == entries[FirstOf(m)]
<1>1. task[t].pc = "match" /\ Still /\ unanswered' = unanswered
  BY DEF Match, request, history, Still
<1>2. p \in Sent /\ p \in Pings /\ unanswered \subseteq Sent
  BY <1>1 DEF PInv, Duties, OnDuty, Sent
<1>3. \/ /\ task' = [task EXCEPT ![t] = Idle]
         /\ entries' = entries /\ called' = called /\ answer' = answer
      \/ /\ m # {} /\ entries' = RemoveAt(entries, FirstOf(m)) /\ Call(e, p)
         /\ Goto(t, "rearm", e)
  BY DEF Match
<1>4. CASE /\ task' = [task EXCEPT ![t] = Idle]
           /\ entries' = entries /\ called' = called /\ answer' = answer
  <2>1. NextTask(t, Idle)
    BY <1>1, <1>4, GoesOn DEF Carrying
  <2> QED
    BY <1>1, <1>2, <1>4, <2>1, TaskStep
<1>5. CASE /\ m # {} /\ entries' = RemoveAt(entries, FirstOf(m)) /\ Call(e, p)
           /\ Goto(t, "rearm", e)
  <2>1. FirstOf(m) \in 1..Len(entries) /\ e \in Sent /\ num[e] = num[p]
    BY <1>5, FirstMatch
  <2>2. e \in Pings
    BY <2>1 DEF Sent
  <2>3. Goto(t, "rearm", e) => NextTask(t, [pc |-> "rearm", ping |-> e])
    <3> HIDE DEF e
    <3> QED
      BY <1>1, <2>2, GoesOn DEF PCs, Carrying, OnDuty, Sending
  <2>4. Fits(e, p)
    <3> HIDE DEF e, p
    <3>1. e = p \/ turn[e] - turn[p] >= SeqCount \/ turn[p] - turn[e] >= SeqCount
      BY <1>2, <2>1, SameNumber
    <3> QED
      BY <1>2, <2>1, <3>1 DEF Fits
  <2> QED
    BY <1>1, <1>2, <1>5, <2>1, <2>3, <2>4, CallStep
<1> QED
  BY <1>3, <1>4, <1>5

\* The timer takes the first entry.
LEMMA TakeFirstStep ==
  ASSUME PInv, OneThread, NEW t \in Threads, TakeFirst(t)
  PROVE  PInv'
<1> DEFINE h == Head(entries)
           a == IF h \in Searches /\ found[h] > 0 THEN h ELSE "timeout"
<1>1. task[t].pc = "wait" /\ Still /\ unanswered' = unanswered
  BY DEF TakeFirst, request, history, Still
<1>2. unanswered \subseteq Sent /\ None \in Pings \cup {None}
  BY DEF PInv, Duties
<1>3. CASE entries = <<>>
  <2>1. /\ task' = [task EXCEPT ![t] = Idle]
        /\ entries' = entries /\ called' = called /\ answer' = answer
    BY <1>3 DEF TakeFirst
  <2>2. NextTask(t, Idle)
    BY <1>1, <2>1, GoesOn DEF Carrying
  <2> QED
    BY <1>1, <1>2, <2>1, <2>2, TaskStep
<1>4. CASE entries # <<>>
  <2>1. entries' = Tail(entries) /\ Call(h, a) /\ Goto(t, "rewait", None)
    BY <1>4 DEF TakeFirst
  <2>2. entries \in Seq(Pings)
    BY DEF PInv, Types
  <2>3. Tail(entries) = RemoveAt(entries, 1) /\ h = entries[1] /\ 1 \in 1..Len(entries)
    BY <1>4, <2>2, TailRemoves
  <2>4. NextTask(t, [pc |-> "rewait", ping |-> None])
    BY <1>1, <1>2, <2>1, GoesOn DEF PCs, Carrying, OnDuty, Sending
  <2>5. h \in Sent /\ h \in Pings
    <3>1. entries[1] \in Pings /\ In(entries, entries[1])
      BY <2>2, <2>3 DEF In
    <3> QED
      BY <2>3, <3>1 DEF PInv, Once
  <2>6. Fits(h, a) /\ a \in {None, "error", "timeout"} \cup Pings
    BY <2>5 DEF Fits
  <2> HIDE DEF a, h
  <2>7. entries' = RemoveAt(entries, 1)
    BY <2>1, <2>3
  <2> QED
    BY <1>1, <2>1, <2>3, <2>4, <2>5, <2>6, <2>7, CallStep
<1> QED
  BY <1>3, <1>4

\* A ping moves to another phase before it is sent: it asks the resolver, fails,
\* or finds no address.
LEMMA PhaseStep ==
  ASSUME PInv, NEW p \in Pings, phase[p] \in {"idle", "resolving"},
         NEW ph \in Phases \ {"sending", "idle"}, phase' = [phase EXCEPT ![p] = ph],
         \/ called' = called /\ answer' = answer
         \/ ph = "failed" /\ Call(p, "error"),
         seq' = seq, num' = num, turns' = turns, turn' = turn, lapped' = lapped,
         task' = task, entries' = entries, unanswered' = unanswered
  PROVE  PInv'
<1>1. /\ phase \in [Pings -> Phases] /\ called \in [Pings -> Nat]
      /\ answer \in [Pings -> {None, "error", "timeout"} \cup Pings]
  BY DEF PInv, Types
<1>2. /\ phase' \in [Pings -> Phases] /\ phase'[p] = ph
      /\ \A q \in Pings : q # p => phase'[q] = phase[q]
  BY <1>1
<1>3. p \notin Sent /\ Sent' = Sent
  BY <1>2 DEF Sent
<1>4. /\ called' \in [Pings -> Nat] /\ answer' \in [Pings -> {None, "error", "timeout"} \cup Pings]
      /\ \A q \in Pings : q # p => called'[q] = called[q] /\ answer'[q] = answer[q]
      /\ answer'[p] \in {answer[p], "error"}
      /\ ph # "failed" => called'[p] = called[p]
  <2>1. CASE called' = called /\ answer' = answer
    BY <1>1, <2>1
  <2>2. CASE ph = "failed" /\ Call(p, "error")
    <3>1. called' = [called EXCEPT ![p] = called[p] + 1] /\ answer' = [answer EXCEPT ![p] = "error"]
      BY <2>2 DEF Call
    <3>2. called[p] + 1 \in Nat
      BY <1>1
    <3> QED
      BY <1>1, <2>2, <3>1, <3>2
  <2> QED
    BY <2>1, <2>2
<1>5. Types'
  BY <1>2, <1>4 DEF PInv, Types
<1>6. Numbers'
  BY <1>3 DEF PInv, Numbers, Shows, In
<1>7. \A q \in Sent : q \in Pings /\ called'[q] = called[q]
  BY <1>3, <1>4 DEF Sent
<1>8. Duties'
  <2>1. \A t \in Threads : task[t].pc \in Carrying => task[t].ping \in Sent
    BY DEF PInv, Duties, Carrying, OnDuty
  <2> QED
    BY <1>3, <1>7, <2>1 DEF PInv, Duties, In
<1>9. Once'
  <2>1. called[p] = 0
    BY DEF PInv, Once
  <2>2. \A q \in Pings : phase'[q] \in {"idle", "resolving"} => called'[q] = 0
    BY <1>2, <1>4, <2>1 DEF PInv, Once
  <2>3. \A q \in Pings : In(entries, q) => q \in Sent /\ called'[q] = called[q]
    BY <1>7 DEF PInv, Once
  <2> QED
    BY <1>3, <1>7, <2>2, <2>3 DEF PInv, Once, OnceEach, Distinct, In, Carried
<1>10. Answers'
  <2>1. \A q, b : Fits(q, b)' <=> Fits(q, b)
    BY <1>3 DEF Fits
  <2>2. Fits(p, answer'[p])
    BY <1>4 DEF PInv, Answers, Fits
  <2> QED
    BY <1>4, <2>1, <2>2 DEF PInv, Answers
<1> QED
  BY <1>5, <1>6, <1>8, <1>9, <1>10 DEF PInv

\* async_check() and async_search() ask the resolver.
LEMMA AsyncCheckStep ==
  ASSUME PInv, NEW p \in Pings, NEW e, AsyncCheck(p, e)
  PROVE  PInv'
<1>1. /\ phase[p] = "idle" /\ phase' = [phase EXCEPT ![p] = "resolving"]
      /\ called' = called /\ answer' = answer /\ seq' = seq /\ num' = num /\ task' = task
      /\ turns' = turns /\ turn' = turn /\ lapped' = lapped
      /\ entries' = entries /\ unanswered' = unanswered
  BY DEF AsyncCheck, history
<1>2. "resolving" \in Phases \ {"sending", "idle"}
  BY DEF Phases
<1> QED
  BY <1>1, <1>2, PhaseStep

\* send_ping() begins: it is the turn of the ping, and seq_ is its number.
LEMMA SendBegins ==
  ASSUME PInv, OneThread, NEW t \in Threads, NEW p \in Pings,
         task[t] = Idle, phase[p] = "resolving",
         phase' = [phase EXCEPT ![p] = "sending"], num' = [num EXCEPT ![p] = seq],
         turns' = turns + 1, turn' = [turn EXCEPT ![p] = turns],
         lapped' = (lapped \/ \E i \in DOMAIN entries : turns - turn[entries[i]] >= SeqCount),
         Goto(t, "number", p), called' = called, answer' = answer,
         seq' = seq, entries' = entries, unanswered' = unanswered
  PROVE  PInv'
<1>1. /\ phase \in [Pings -> Phases] /\ num \in [Pings -> 0..(SeqCount - 1)]
      /\ seq \in 0..(SeqCount - 1) /\ turns \in Nat /\ turn \in [Pings -> Nat]
      /\ task \in [Threads -> [pc : PCs, ping : Pings \cup {None}]]
      /\ entries \in Seq(Pings)
  BY DEF PInv, Types
<1>2. /\ phase' \in [Pings -> Phases] /\ phase'[p] = "sending"
      /\ \A q \in Pings : q # p => phase'[q] = phase[q]
  BY <1>1 DEF Phases
<1>3. /\ num' \in [Pings -> 0..(SeqCount - 1)] /\ num'[p] = seq
      /\ turn' \in [Pings -> Nat] /\ turn'[p] = turns
      /\ \A q \in Pings : q # p => num'[q] = num[q] /\ turn'[q] = turn[q]
  BY <1>1
<1>4. /\ task' \in [Threads -> [pc : PCs, ping : Pings \cup {None}]]
      /\ \A s \in Threads : task'[s].pc = "number" /\ task'[s].ping = p /\ task[s].pc = "idle"
  <2>1. task' = [task EXCEPT ![t] = [pc |-> "number", ping |-> p]]
    BY DEF Goto
  <2>2. [pc |-> "number", ping |-> p] \in [pc : PCs, ping : Pings \cup {None}]
    BY DEF PCs
  <2>3. task'[t] = [pc |-> "number", ping |-> p]
    BY <1>1, <2>1
  <2>4. task[t].pc = "idle"
    BY TaskTypes
  <2> QED
    BY <1>1, <2>1, <2>2, <2>3, <2>4 DEF OneThread
<1>5. p \notin Sent /\ Sent' = Sent \cup {p} /\ Sent \subseteq Pings
  BY <1>2 DEF Sent
<1>6. called[p] = 0 /\ ~In(entries, p)
  BY <1>5 DEF PInv, Once
<1>7. \A q : In(entries, q)' <=> In(entries, q)
  BY DEF In
<1>8. Types'
  <2>1. lapped' \in BOOLEAN
    OBVIOUS
  <2>2. turns' \in Nat
    BY <1>1
  <2>3. called' \in [Pings -> Nat] /\ answer' \in [Pings -> {None, "error", "timeout"} \cup Pings]
    BY DEF PInv, Types
  <2> QED
    BY <1>1, <1>2, <1>3, <1>4, <2>1, <2>2, <2>3 DEF Types
<1>9. Numbers'
  <2>1. \A q \in Sent : turn[q] < turns /\ turn[q] \in Nat /\ Shows(turn[q], num[q])
    BY <1>1, <1>5 DEF PInv, Numbers
  <2>2. Shows(turns, seq)
    BY <1>4 DEF PInv, Numbers
  <2>3. \A q \in Sent' : turn'[q] < turns' /\ Shows(turn[q], num[q])'
    BY <1>1, <1>3, <1>5, <2>1, <2>2 DEF Shows
  <2>4. \A q, r \in Sent' : turn'[q] = turn'[r] => q = r
    BY <1>1, <1>3, <1>5, <2>1 DEF PInv, Numbers
  <2>5. ~lapped' => \A q \in Pings : In(entries, q)' => turns' - turn'[q] <= SeqCount
    <3> SUFFICES ASSUME ~lapped', NEW q \in Pings, In(entries, q)
                 PROVE  turns' - turn'[q] <= SeqCount
      BY <1>7
    <3>1. PICK i \in 1..Len(entries) : entries[i] = q
      BY DEF In
    <3>2. i \in DOMAIN entries
      BY <1>1, <3>1
    <3>3. ~(turns - turn[q] >= SeqCount)
      BY <3>1, <3>2
    <3>4. turn'[q] = turn[q] /\ turn[q] \in Nat /\ SeqCount \in Nat
      BY <1>1, <1>3, <1>6, PingerAssumption
    <3> QED
      BY <1>1, <3>3, <3>4
  <2> QED
    BY <1>3, <1>4, <2>3, <2>4, <2>5 DEF Numbers
<1>10. Duties'
  BY <1>4, <1>5, <1>6, <1>7 DEF PInv, Duties
<1>11. Once'
  <2>1. \A q : ~Carried(q)
    BY <1>4 DEF Carried, Carrying
  <2>2. Carried(p)'
    BY <1>4 DEF Carried, Carrying
  <2>3. \A q \in Pings : phase'[q] \in {"idle", "resolving"} => called'[q] = 0
    BY <1>2 DEF PInv, Once
  <2>4. ASSUME ~lapped' PROVE OnceEach'
    <3>1. OnceEach
      BY <2>4 DEF PInv, Once
    <3> QED
      BY <1>5, <1>6, <1>7, <2>1, <2>2, <3>1 DEF OnceEach
  <2>5. Distinct(entries)' /\ \A q \in Pings : In(entries, q)' => q \in Sent'
    BY <1>5, <1>7 DEF PInv, Once, Distinct
  <2> QED
    BY <2>3, <2>4, <2>5 DEF Once
<1>12. Answers'
  <2>1. ASSUME NEW q \in Pings, NEW b, Fits(q, b) PROVE Fits(q, b)'
    <3>1. CASE b \in {None, "error", "timeout"}
      BY <3>1 DEF Fits
    <3>2. CASE b \notin {None, "error", "timeout"}
      <4>1. /\ q \in Sent /\ b \in Sent
            /\ b = q \/ turn[q] - turn[b] >= SeqCount \/ turn[b] - turn[q] >= SeqCount
        BY <2>1, <3>2 DEF Fits
      <4>2. turn'[q] = turn[q] /\ turn'[b] = turn[b]
        BY <1>3, <1>5, <4>1
      <4> QED
        BY <1>5, <4>1, <4>2 DEF Fits
    <3> QED
      BY <3>1, <3>2
  <2> QED
    BY <2>1 DEF PInv, Answers
<1> QED
  BY <1>8, <1>9, <1>10, <1>11, <1>12 DEF PInv

\* on_resolve()
LEMMA OnResolveStep ==
  ASSUME PInv, OneThread, NEW t \in Threads, NEW p \in Pings, OnResolve(t, p)
  PROVE  PInv'
<1> DEFINE Same == num' = num /\ turns' = turns /\ turn' = turn /\ lapped' = lapped
<1>1. /\ task[t] = Idle /\ phase[p] = "resolving"
      /\ seq' = seq /\ entries' = entries /\ unanswered' = unanswered
  BY DEF OnResolve
<1>2. "failed" \in Phases \ {"sending", "idle"} /\ "lost" \in Phases \ {"sending", "idle"}
  BY DEF Phases
<1>3. \/ /\ phase' = [phase EXCEPT ![p] = "failed"] /\ Call(p, "error") /\ task' = task /\ Same
      \/ /\ phase' = [phase EXCEPT ![p] = "lost"] /\ task' = task /\ Same
         /\ called' = called /\ answer' = answer
      \/ /\ phase' = [phase EXCEPT ![p] = "sending"] /\ num' = [num EXCEPT ![p] = seq]
         /\ turns' = turns + 1 /\ turn' = [turn EXCEPT ![p] = turns]
         /\ lapped' = (lapped \/ \E i \in DOMAIN entries : turns - turn[entries[i]] >= SeqCount)
         /\ Goto(t, "number", p) /\ called' = called /\ answer' = answer
  BY DEF OnResolve, history
<1>4. CASE phase' = [phase EXCEPT ![p] = "failed"] /\ Call(p, "error") /\ task' = task /\ Same
  BY <1>1, <1>2, <1>4, PhaseStep
<1>5. CASE /\ phase' = [phase EXCEPT ![p] = "lost"] /\ task' = task /\ Same
           /\ called' = called /\ answer' = answer
  BY <1>1, <1>2, <1>5, PhaseStep
<1>6. CASE /\ phase' = [phase EXCEPT ![p] = "sending"] /\ num' = [num EXCEPT ![p] = seq]
           /\ turns' = turns + 1 /\ turn' = [turn EXCEPT ![p] = turns]
           /\ lapped' = (lapped \/ \E i \in DOMAIN entries : turns - turn[entries[i]] >= SeqCount)
           /\ Goto(t, "number", p) /\ called' = called /\ answer' = answer
  BY <1>1, <1>6, SendBegins
<1> QED
  BY <1>3, <1>4, <1>5, <1>6

\* seq_ is advanced past the number of the ping that had the last turn.
LEMMA NumberStep ==
  ASSUME PInv, OneThread, NEW t \in Threads, Number(t)
  PROVE  PInv'
<1> DEFINE p == task[t].ping
<1>1. /\ task[t].pc = "number" /\ seq' = (num[p] + 1) % SeqCount /\ Goto(t, "emplace", p)
      /\ num' = num /\ phase' = phase /\ called' = called /\ answer' = answer
      /\ turns' = turns /\ turn' = turn /\ lapped' = lapped
      /\ entries' = entries /\ unanswered' = unanswered
  BY DEF Number, NextSeq, history
<1>2. /\ p \in Sent /\ p \in Pings /\ called[p] = 0 /\ ~In(entries, p)
      /\ turn[p] + 1 = turns /\ Shows(turn[p], num[p])
  BY <1>1 DEF PInv, Duties, Numbers, OnDuty, Carrying, Sending, Sent
<1>3. /\ task' \in [Threads -> [pc : PCs, ping : Pings \cup {None}]]
      /\ \A s \in Threads : /\ task'[s].pc = "emplace" /\ task'[s].ping = p
                            /\ task[s].pc = "number" /\ task[s].ping = p
  <2>1. task' = [task EXCEPT ![t] = [pc |-> "emplace", ping |-> p]]
    BY <1>1 DEF Goto
  <2>2. [pc |-> "emplace", ping |-> p] \in [pc : PCs, ping : Pings \cup {None}]
    BY <1>2 DEF PCs
  <2>3. task \in [Threads -> [pc : PCs, ping : Pings \cup {None}]]
    BY DEF PInv, Types
  <2> HIDE DEF p
  <2>4. task'[t] = [pc |-> "emplace", ping |-> p]
    BY <2>1, <2>3
  <2> QED
    BY <1>1, <2>1, <2>2, <2>3, <2>4 DEF OneThread, p
<1> HIDE DEF p
<1>4. Sent' = Sent
  BY <1>1 DEF Sent
<1>5. turn[p] \in Nat /\ num[p] \in 0..(SeqCount - 1)
  BY <1>2 DEF PInv, Types
<1>6. seq' \in 0..(SeqCount - 1) /\ Shows(turns, seq')
  BY <1>1, <1>2, <1>5, NextShown
<1>7. Types'
  BY <1>1, <1>3, <1>6 DEF PInv, Types
<1>8. Numbers'
  <2>1. Shows(turns, seq)'
    BY <1>1, <1>6 DEF Shows
  <2>2. \A q \in Sent' : turn'[q] < turns' /\ Shows(turn[q], num[q])'
    BY <1>1, <1>4 DEF PInv, Numbers, Shows
  <2>3. \A q, r \in Sent' : turn'[q] = turn'[r] => q = r
    BY <1>1, <1>4 DEF PInv, Numbers
  <2>4. ~lapped' => \A q \in Pings : In(entries, q)' => turns' - turn'[q] <= SeqCount
    BY <1>1 DEF PInv, Numbers, In
  <2>5. \A s \in Threads : turn'[task'[s].ping] + 1 = turns'
    BY <1>1, <1>2, <1>3
  <2> QED
    BY <2>1, <2>2, <2>3, <2>4, <2>5 DEF Numbers
<1>9. Duties'
  BY <1>1, <1>2, <1>3, <1>4 DEF PInv, Duties, In
<1>10. Once'
  <2>1. \A q : Carried(q) <=> Carried(q)'
    BY <1>3 DEF Carried, Carrying
  <2> QED
    BY <1>1, <1>4, <2>1 DEF PInv, Once, OnceEach, Distinct, In
<1>11. Answers'
  BY <1>1, <1>4 DEF PInv, Answers, Fits
<1> QED
  BY <1>7, <1>8, <1>9, <1>10, <1>11 DEF PInv

\* Where the new entry goes is a place of entries_.
LEMMA EmplacedPlace ==
  ASSUME entries \in Seq(Pings), NEW p
  PROVE  Cardinality({i \in DOMAIN entries : expire[entries[i]] < expire[p]}) + 1
           \in 1..(Len(entries) + 1)
<1> DEFINE D == 1..Len(entries)
           E == {i \in D : expire[entries[i]] < expire[p]}
<1>1. DOMAIN entries = D /\ Len(entries) \in Nat
  OBVIOUS
<1>2. IsFiniteSet(D) /\ Cardinality(D) = Len(entries)
  <2>1. 1 \in Int /\ Len(entries) \in Int
    BY <1>1
  <2>2. Cardinality(D) = IF 1 > Len(entries) THEN 0 ELSE Len(entries) - 1 + 1
    BY <2>1, FS_Interval
  <2>3. IsFiniteSet(D)
    BY <2>1, FS_Interval
  <2> DEFINE n == Len(entries)
             k == Cardinality(D)
  <2> HIDE DEF D, n, k
  <2>4. k = IF 1 > n THEN 0 ELSE n - 1 + 1
    BY <2>2 DEF n, k
  <2>5. n \in Nat
    BY <1>1 DEF n
  <2>6. k = n
    BY <2>4, <2>5
  <2> QED
    BY <2>3, <2>6 DEF n, k
<1>3. E \subseteq D
  OBVIOUS
<1> HIDE DEF E
<1>4. IsFiniteSet(E) /\ Cardinality(E) <= Cardinality(D)
  BY <1>2, <1>3, FS_Subset
<1>5. Cardinality(E) \in Nat
  BY <1>4, FS_CardinalityType
<1>6. Cardinality(E) + 1 \in 1..(Len(entries) + 1)
  BY <1>1, <1>2, <1>4, <1>5
<1> QED
  BY <1>1, <1>6 DEF E

\* The ping is put into entries_.
LEMMA EmplaceStep ==
  ASSUME PInv, OneThread, NEW t \in Threads, Emplace(t)
  PROVE  PInv'
<1> DEFINE p == task[t].ping
           pc == IF Head(Emplaced(p)) = p THEN "arm" ELSE "send"
<1>1. /\ task[t].pc = "emplace" /\ entries' = Emplaced(p) /\ Goto(t, pc, p) /\ Still
      /\ called' = called /\ answer' = answer /\ unanswered' = unanswered
  BY DEF Emplace, request, history, Still
<1>2. p \in Sent /\ p \in Pings /\ called[p] = 0 /\ ~In(entries, p) /\ turn[p] + 1 = turns
  BY <1>1 DEF PInv, Duties, Numbers, OnDuty, Carrying, Sending, Sent
<1>3. pc \in {"arm", "send"}
  OBVIOUS
<1> HIDE DEF pc
<1>4. /\ task' \in [Threads -> [pc : PCs, ping : Pings \cup {None}]]
      /\ \A s \in Threads : /\ task'[s].pc \in {"arm", "send"} /\ task'[s].ping = p
                            /\ task[s].pc = "emplace" /\ task[s].ping = p
  <2>1. task' = [task EXCEPT ![t] = [pc |-> pc, ping |-> p]]
    BY <1>1 DEF Goto
  <2>2. [pc |-> pc, ping |-> p] \in [pc : PCs, ping : Pings \cup {None}]
    BY <1>2, <1>3 DEF PCs
  <2>3. task \in [Threads -> [pc : PCs, ping : Pings \cup {None}]]
    BY DEF PInv, Types
  <2> HIDE DEF p
  <2>4. task'[t] = [pc |-> pc, ping |-> p]
    BY <2>1, <2>3
  <2> QED
    BY <1>1, <1>3, <2>1, <2>2, <2>3, <2>4 DEF OneThread, p
<1> HIDE DEF p
<1>5. entries \in Seq(Pings) /\ Distinct(entries)
  BY DEF PInv, Types, Once
<1>6. /\ entries' \in Seq(Pings) /\ Distinct(entries)'
      /\ \A q : In(entries, q)' <=> In(entries, q) \/ q = p
  <2> DEFINE n == Cardinality({i \in DOMAIN entries : expire[entries[i]] < expire[p]}) + 1
  <2>1. n \in 1..(Len(entries) + 1)
    BY <1>5, EmplacedPlace
  <2>2. entries' = InsertAt(entries, n, p)
    BY <1>1 DEF Emplaced
  <2> HIDE DEF n
  <2>3. /\ InsertAt(entries, n, p) \in Seq(Pings) /\ Distinct(InsertAt(entries, n, p))
        /\ \A q : In(InsertAt(entries, n, p), q) <=> In(entries, q) \/ q = p
    BY <1>2, <1>5, <2>1, PutIn
  <2> QED
    BY <2>2, <2>3 DEF Distinct, In
<1>7. Sent' = Sent
  BY <1>1 DEF Sent, Still
<1>8. Types'
  BY <1>1, <1>4, <1>6 DEF PInv, Types, Still
<1>9. Numbers'
  <2>1. Shows(turns, seq)'
    BY <1>1, <1>4 DEF PInv, Numbers, Shows, Still
  <2>2. \A q \in Sent' : turn'[q] < turns' /\ Shows(turn[q], num[q])'
    BY <1>1, <1>7 DEF PInv, Numbers, Shows, Still
  <2>3. \A q, r \in Sent' : turn'[q] = turn'[r] => q = r
    BY <1>1, <1>7 DEF PInv, Numbers, Still
  <2>4. ~lapped' => \A q \in Pings : In(entries, q)' => turns' - turn'[q] <= SeqCount
    <3>1. turns - turn[p] <= SeqCount
      <4>1. turn[p] \in Nat /\ SeqCount \in Nat \ {0}
        BY <1>2, PingerAssumption DEF PInv, Types
      <4> QED
        BY <1>2, <4>1
    <3> QED
      BY <1>1, <1>6, <3>1 DEF PInv, Numbers, Still
  <2>5. \A s \in Threads : turn'[task'[s].ping] + 1 = turns'
    BY <1>1, <1>2, <1>4 DEF Still
  <2> QED
    BY <2>1, <2>2, <2>3, <2>4, <2>5 DEF Numbers
<1>10. Duties'
  <2>1. \A s \in Threads : task'[s].pc \notin Carrying
    BY <1>4 DEF Carrying
  <2> QED
    BY <1>1, <1>2, <1>4, <1>7, <2>1 DEF PInv, Duties
<1>11. Once'
  <2>1. \A q : Carried(q) => q = p
    BY <1>4 DEF Carried
  <2>2. ASSUME ~lapped' PROVE OnceEach'
    <3>1. OnceEach
      BY <1>1, <2>2 DEF PInv, Once, Still
    <3>2. \A q \in Pings : In(entries, q)' => called'[q] = 0
      BY <1>1, <1>2, <1>6, <3>1 DEF OnceEach
    <3>3. \A q \in Sent' : called'[q] \in {0, 1} /\ (called'[q] = 0 => In(entries, q)')
      BY <1>1, <1>6, <1>7, <2>1, <3>1 DEF OnceEach
    <3> QED
      BY <3>2, <3>3 DEF OnceEach
  <2>3. \A q \in Pings : /\ In(entries, q)' => q \in Sent'
                         /\ phase'[q] \in {"idle", "resolving"} => called'[q] = 0
    BY <1>1, <1>2, <1>6, <1>7 DEF PInv, Once, Still
  <2> QED
    BY <1>6, <2>2, <2>3 DEF Once
<1>12. Answers'
  BY <1>1, <1>7 DEF PInv, Answers, Fits, Still
<1> QED
  BY <1>8, <1>9, <1>10, <1>11, <1>12 DEF PInv

-----------------------------------------------------------------------------
(***************************************************************************)
(* The theorems.                                                           *)
(***************************************************************************)
\* A pinger starts without pings.
LEMMA PingerInitially ==
  ASSUME PingerInit
  PROVE  PInv
<1>0. SeqCount \in Nat \ {0}
  BY PingerAssumption
<1>1. entries = <<>> /\ Len(entries) = 0 /\ 1..Len(entries) = {}
  BY DEF PingerInit
<1>2. \A p : ~In(entries, p)
  BY <1>1 DEF In
<1>3. Sent = {}
  BY DEF PingerInit, Sent
<1>4. \A t \in Threads : task[t] = Idle /\ task[t].pc = "idle"
  BY DEF PingerInit, Idle
<1>5. Types
  <2>1. Idle \in [pc : PCs, ping : Pings \cup {None}]
    BY DEF Idle, PCs
  <2>2. <<>> \in Seq(Pings)
    OBVIOUS
  <2>3. 0 \in 0..(SeqCount - 1)
    BY <1>0
  <2> QED
    BY <2>1, <2>2, <2>3 DEF PingerInit, Types, Phases
<1>6. Numbers
  <2>1. 0 = SeqCount * 0 + 0 /\ 0 \in Nat
    BY <1>0
  <2>2. Shows(turns, seq)
    BY <2>1 DEF PingerInit, Shows
  <2> QED
    BY <1>2, <1>3, <1>4, <2>2 DEF Numbers, Sending
<1>7. Duties
  BY <1>4 DEF Duties, PingerInit, OnDuty, Carrying
<1>8. Once
  BY <1>1, <1>2, <1>3 DEF Once, OnceEach, PingerInit, Distinct
<1>9. Answers
  BY DEF Answers, Fits, PingerInit
<1> QED
  BY <1>5, <1>6, <1>7, <1>8, <1>9 DEF PInv

\* Every step keeps the invariant.
LEMMA PingerSteps ==
  ASSUME PInv, OneThread, [PingerNext]_pingerVars
  PROVE  PInv'
<1>1. CASE UNCHANGED pingerVars
  BY <1>1, QuietStep DEF pingerVars, Still
<1>2. CASE StartPinger \/ CancelOrStop \/ Fire \/ Tick
  BY <1>2, QuietStep DEF StartPinger, CancelOrStop, Fire, Tick, request, history, Still
<1>3. ASSUME NEW t \in Threads, Enter(t)
      PROVE  PInv'
  BY <1>3, QuietStep DEF Enter, request, history, Still
<1>4. ASSUME NEW p \in Pings, NEW e, AsyncCheck(p, e)
      PROVE  PInv'
  BY <1>4, AsyncCheckStep
<1>5. ASSUME NEW t \in Threads, NEW p \in Pings, OnResolve(t, p) \/ OnReceive(t, p)
      PROVE  PInv'
  BY <1>5, OnResolveStep, ThreadSteps
<1>6. ASSUME NEW t \in Threads, Step(t) \/ OnWait(t)
      PROVE  PInv'
  BY <1>3, <1>6, NumberStep, EmplaceStep, ThreadSteps, UnsendStep, MatchStep, TakeFirstStep
     DEF Step
<1> QED
  BY <1>1, <1>2, <1>4, <1>5, <1>6 DEF PingerNext

\* On one thread the number of a ping is what seq_ shows at its turn, each ping is
\* in entries_ or has been answered once until seq_ laps an entry, and what is
\* handed out fits the ping.
THEOREM PingerInvariant ==
  ASSUME OneThread
  PROVE  PingerSpec => []PInv
<1>1. PingerInit => PInv
  BY PingerInitially
<1>2. PInv /\ [PingerNext]_pingerVars => PInv'
  BY PingerSteps
<1> QED
  BY <1>1, <1>2, PTL DEF PingerSpec

\* On one thread a ping that has been given to send_ping() is carried, in entries_
\* or answered, and exactly one of these, until seq_ laps an entry: replies,
\* timeouts and failing sends never lose a handler or call it twice
\* (basic_pinger.hpp:104-174, 193-213).
THEOREM PingerHandlerKept ==
  ASSUME OneThread
  PROVE  PingerSpec => []HandlerKept
<1>1. ASSUME PInv, ~lapped
      PROVE  HandlerKept
  <2>1. ASSUME NEW p \in Pings, phase[p] = "sending"
        PROVE  Cardinality(Positions(p)) + called[p] + (IF Held(p) THEN 1 ELSE 0) = 1
    <3>1. p \in Sent
      BY <2>1 DEF Sent
    <3>2. Held(p) <=> Carried(p)
      <4>1. task \in [Threads -> [pc : PCs, ping : Pings \cup {None}]]
        BY <1>1 DEF PInv, Types
      <4>2. \A t \in Threads : task[t] = [pc |-> task[t].pc, ping |-> task[t].ping]
        BY <4>1
      <4>3. ASSUME NEW t \in Threads
            PROVE  (\E pc \in {"number", "emplace"} : task[t] = [pc |-> pc, ping |-> p])
                     <=> task[t].pc \in {"number", "emplace"} /\ task[t].ping = p
        <5>1. ASSUME NEW pc \in {"number", "emplace"}, task[t] = [pc |-> pc, ping |-> p]
              PROVE  task[t].pc = pc /\ task[t].ping = p
          BY <5>1
        <5>2. ASSUME task[t].pc \in {"number", "emplace"}, task[t].ping = p
              PROVE  task[t] = [pc |-> task[t].pc, ping |-> p]
          BY <4>2, <5>2
        <5> QED
          BY <5>1, <5>2
      <4> QED
        BY <4>3 DEF Held, Carried, Carrying
    <3>3. Carried(p) => called[p] = 0 /\ ~In(entries, p)
      BY <1>1 DEF PInv, Duties, Carried
    <3>4. /\ called[p] \in {0, 1} /\ (called[p] = 0 => In(entries, p) \/ Carried(p))
          /\ In(entries, p) => called[p] = 0
      BY <1>1, <2>1, <3>1 DEF PInv, Once, OnceEach
    <3>5. Cardinality(Positions(p)) = IF In(entries, p) THEN 1 ELSE 0
      <4>1. entries \in Seq(Pings) /\ Distinct(entries)
        BY <1>1 DEF PInv, Types, Once
      <4>2. Positions(p) = {i \in 1..Len(entries) : entries[i] = p}
        BY <4>1 DEF Positions
      <4>3. CASE In(entries, p)
        <5>1. PICK i \in 1..Len(entries) : entries[i] = p
          BY <4>3 DEF In
        <5>2. Positions(p) = {i}
          BY <4>1, <4>2, <5>1 DEF Distinct
        <5> QED
          BY <4>3, <5>2, FS_Singleton
      <4>4. CASE ~In(entries, p)
        <5>1. Positions(p) = {}
          BY <4>2, <4>4 DEF In
        <5> QED
          BY <4>4, <5>1, FS_EmptySet
      <4> QED
        BY <4>3, <4>4
    <3> QED
      BY <3>2, <3>3, <3>4, <3>5
  <2> QED
    BY <2>1 DEF HandlerKept
<1>2. PInv => HandlerKept
  BY <1>1 DEF HandlerKept
<1> QED
  BY <1>2, PingerInvariant, PTL

\* On one thread the answer handed to a ping is the answer to its own request, or
\* to one that is at least a whole round of sequence numbers away: however late the
\* others come in, and wherever seq_ is (basic_pinger.hpp:97-98, 153).
THEOREM PingerOwnReply ==
  ASSUME OneThread
  PROVE  PingerSpec => []OwnReply
<1>1. PInv => OwnReply
  BY DEF PInv, Answers, Fits, OwnReply
<1> QED
  BY <1>1, PingerInvariant, PTL
=============================================================================
