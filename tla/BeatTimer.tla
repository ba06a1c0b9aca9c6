----------------------------- MODULE BeatTimer ------------------------------
(***************************************************************************)
(* acqua::asio::beat_timer: many timed callbacks on one asio timer.        *)
(* map_ holds the callbacks in the order of their times; the asio timer is *)
(* armed for the first of them.  Code that runs with mutex_ held is one    *)
(* step; on_wait() gives the mutex up while the callback runs, so that a   *)
(* callback is a step of its own between two steps of on_wait().  cancel() *)
(* takes no lock and is two steps.                                         *)
(***************************************************************************)
EXTENDS Integers, Sequences, FiniteSets

CONSTANTS Tasks,     \* identities of the callbacks given to async_wait()
          Threads,   \* the threads that run handlers and call cancel()
          Delays,    \* distances from now of the times given to async_wait()
          MaxTime,   \* bound on the clock and on the times
          Cancels    \* whether the application calls cancel()

ASSUME BeatAssumption ==
  /\ Delays \subseteq Int
  /\ MaxTime \in Nat
  /\ Cancels \in BOOLEAN

Entry   == [task : Tasks, time : 0..MaxTime]
NoEntry == [task |-> "none", time |-> 0]

VARIABLES
  now,             \* timer_traits::now()
  map_,            \* the flat_multimap, a sequence of entries ordered by time
  cancel_request,  \* cancel_request_
  expiry,          \* timer_'s expiry time
  pending,         \* number of waits outstanding on timer_
  succ,            \* number of on_wait handlers queued with success
  abrt,            \* number of on_wait handlers queued with operation_aborted
  pc,              \* per thread: what it is doing
  held,            \* per thread: the entry whose callback it runs
  used             \* the tasks given to async_wait() so far

timerVars == <<expiry, pending, succ, abrt>>
vars == <<now, map_, cancel_request, timerVars, pc, held, used>>

\* "run": in the callback of an expired entry; "drain": in the loop that cancels
\* every entry, before it looks at map_; "drain_run": in a callback of that
\* loop; "cancel": between the two statements of cancel().
PCs == {"idle", "run", "drain", "drain_run", "cancel"}

TypeOK ==
  /\ now \in 0..MaxTime
  /\ map_ \in Seq(Entry)
  /\ cancel_request \in BOOLEAN
  /\ expiry \in 0..MaxTime
  /\ pending \in Nat /\ succ \in Nat /\ abrt \in Nat
  /\ pc \in [Threads -> PCs]
  /\ held \in [Threads -> Entry \cup {NoEntry}]
  /\ used \subseteq Tasks

Init ==
  /\ now = 0
  /\ map_ = <<>>
  /\ cancel_request = FALSE
  /\ expiry = 0 /\ pending = 0 /\ succ = 0 /\ abrt = 0
  /\ pc = [t \in Threads |-> "idle"]
  /\ held = [t \in Threads |-> NoEntry]
  /\ used = {}

-----------------------------------------------------------------------------
(***************************************************************************)
(* The asio timer.                                                         *)
(***************************************************************************)

\* Mutant: the timer expires one unit early.
MutArm(m) ==
  /\ expiry' = m[1].time - 1
  /\ abrt' = abrt + pending
  /\ pending' = 1

\* timer_.expires_at(m.begin()->first) aborts the outstanding waits, whose
\* handlers are queued with an error; timer_.async_wait() starts a new one.
\* Handlers that are queued already keep their success.
Arm(m) ==
  /\ expiry' = m[1].time
  /\ abrt' = abrt + pending
  /\ pending' = 1

\* The reactor, run by a thread that has no handler to run, finds the timer
\* expired: the outstanding waits complete with success.
Fire ==
  /\ pending > 0 /\ now >= expiry
  /\ \E t \in Threads : pc[t] = "idle"
  /\ succ' = succ + pending
  /\ pending' = 0
  /\ UNCHANGED <<now, map_, cancel_request, expiry, abrt, pc, held, used>>

Tick ==
  /\ now < MaxTime
  /\ now' = now + 1
  /\ UNCHANGED <<map_, cancel_request, timerVars, pc, held, used>>

-----------------------------------------------------------------------------
(***************************************************************************)
(* beat_timer.                                                             *)
(***************************************************************************)

\* Mutant: the hint is taken for the place.
MutPosition(m, e) == 1

\* emplace_hint(map_.begin(), ...): e goes before the first entry whose time is
\* not smaller, so among equal times the last one added comes first.
Position(m, e) == 1 + Cardinality({i \in 1..Len(m) : m[i].time < e.time})

Insert(m, e) ==
  LET p == Position(m, e) IN
  [i \in 1..(Len(m) + 1) |-> IF i < p THEN m[i] ELSE IF i = p THEN e ELSE m[i - 1]]

\* Mutant: the timer is only armed for the first of all entries.
MutAsyncWait(e) ==
  /\ e.task \notin used
  /\ map_' = Insert(map_, e)
  /\ used' = used \cup {e.task}
  /\ IF map_ = <<>> /\ ~cancel_request
     THEN Arm(map_') /\ UNCHANGED succ
     ELSE UNCHANGED timerVars
  /\ UNCHANGED <<now, cancel_request, pc, held>>

\* async_wait(time, args...), from any thread and from inside a callback.
AsyncWait(e) ==
  /\ e.task \notin used
  /\ map_' = Insert(map_, e)
  /\ used' = used \cup {e.task}
  /\ IF Position(map_, e) = 1 /\ ~cancel_request
     THEN Arm(map_') /\ UNCHANGED succ
     ELSE UNCHANGED timerVars
  /\ UNCHANGED <<now, cancel_request, pc, held>>

\* cancel(): timer_.cancel() ...
CancelTimer(t) ==
  /\ Cancels /\ pc[t] = "idle"
  /\ abrt' = abrt + pending
  /\ pending' = 0
  /\ pc' = [pc EXCEPT ![t] = "cancel"]
  /\ UNCHANGED <<now, map_, cancel_request, expiry, succ, held, used>>

\* ... then cancel_request_ = true.
CancelRequest(t) ==
  /\ pc[t] = "cancel"
  /\ cancel_request' = TRUE
  /\ pc' = [pc EXCEPT ![t] = "idle"]
  /\ UNCHANGED <<now, map_, timerVars, held, used>>

\* on_wait() without an error takes the first entry, if there is one, and runs
\* its callback.
OnWait(t) ==
  /\ pc[t] = "idle" /\ succ > 0
  /\ succ' = succ - 1
  /\ IF map_ = <<>>
     THEN UNCHANGED <<map_, pc, held>>
     ELSE /\ map_' = Tail(map_)
          /\ pc' = [pc EXCEPT ![t] = "run"]
          /\ held' = [held EXCEPT ![t] = Head(map_)]
  /\ UNCHANGED <<now, cancel_request, expiry, pending, abrt, used>>

\* Mutant: the timer is not armed again after a callback.
MutRearm(t) ==
  /\ pc[t] = "run"
  /\ pc' = [pc EXCEPT ![t] = "idle"]
  /\ held' = [held EXCEPT ![t] = NoEntry]
  /\ UNCHANGED <<now, map_, cancel_request, timerVars, used>>

\* The callback has returned: the timer is armed for the entry that is first
\* now, whatever happened to the timer in the meantime.
Rearm(t) ==
  /\ pc[t] = "run"
  /\ pc' = [pc EXCEPT ![t] = "idle"]
  /\ held' = [held EXCEPT ![t] = NoEntry]
  /\ IF map_ = <<>> THEN UNCHANGED timerVars ELSE Arm(map_) /\ UNCHANGED succ
  /\ UNCHANGED <<now, map_, cancel_request, used>>

\* on_wait() with an error does nothing unless a cancel was requested.
OnAborted(t) ==
  /\ pc[t] = "idle" /\ abrt > 0
  /\ abrt' = abrt - 1
  /\ pc' = [pc EXCEPT ![t] = IF cancel_request THEN "drain" ELSE "idle"]
  /\ UNCHANGED <<now, map_, cancel_request, expiry, pending, succ, held, used>>

\* The loop that cancels every entry: one entry and its callback, or the end.
Drain(t) ==
  /\ pc[t] = "drain"
  /\ IF map_ = <<>>
     THEN /\ cancel_request' = FALSE
          /\ pc' = [pc EXCEPT ![t] = "idle"]
          /\ UNCHANGED <<map_, held>>
     ELSE /\ map_' = Tail(map_)
          /\ held' = [held EXCEPT ![t] = Head(map_)]
          /\ pc' = [pc EXCEPT ![t] = "drain_run"]
          /\ UNCHANGED cancel_request
  /\ UNCHANGED <<now, timerVars, used>>

DrainNext(t) ==
  /\ pc[t] = "drain_run"
  /\ pc' = [pc EXCEPT ![t] = "drain"]
  /\ held' = [held EXCEPT ![t] = NoEntry]
  /\ UNCHANGED <<now, map_, cancel_request, timerVars, used>>

-----------------------------------------------------------------------------
\* What a thread goes on with once it has begun.
ThreadStep(t) == Rearm(t) \/ Drain(t) \/ DrainNext(t) \/ CancelRequest(t)

Next ==
  \/ Tick \/ Fire
  \/ \E x \in Tasks, d \in Delays :
       /\ now + d \in 0..MaxTime
       /\ AsyncWait([task |-> x, time |-> now + d])
  \/ \E t \in Threads :
       CancelTimer(t) \/ OnWait(t) \/ OnAborted(t) \/ ThreadStep(t)

Spec == Init /\ [][Next]_vars

\* Time passes, the reactor reports an expired timer, callbacks return and a
\* queued handler finds a thread.  Nothing makes the application call anything.
Fairness ==
  /\ WF_vars(Tick) /\ WF_vars(Fire)
  /\ \A t \in Threads : WF_vars(ThreadStep(t))
  /\ SF_vars(\E t \in Threads : OnWait(t))
  /\ SF_vars(\E t \in Threads : OnAborted(t))

FairSpec == Spec /\ Fairness

-----------------------------------------------------------------------------
(***************************************************************************)
(* Properties.                                                             *)
(***************************************************************************)

\* map_ stays ordered by time, so that its first entry is the next one due.
Ordered == \A i, j \in 1..Len(map_) : i < j => map_[i].time <= map_[j].time

\* A callback that waits is never forgotten: the timer is armed for the first
\* entry, or a handler that will look at map_ is queued or running, or a cancel
\* is under way.  Without cancel() only the first three cases are left.
Armed ==
  map_ # <<>> => \/ pending > 0 /\ expiry = map_[1].time
                 \/ succ > 0
                 \/ \E t \in Threads : pc[t] = "run"
                 \/ cancel_request
                 \/ \E t \in Threads : pc[t] \in {"cancel", "drain", "drain_run"}

Waits(x) == \/ \E i \in 1..Len(map_) : map_[i].task = x
            \/ \E t \in Threads : held[t].task = x

\* Every callback given to async_wait() is run some day, with success or with an
\* error, whatever cancel() and the callbacks of other threads do to the timer in
\* between.  The one exception is a cancel_request_ that stays set for ever: a
\* cancel() that finds no wait to abort leaves it so, and async_wait() then never
\* arms the timer again.
Delivered ==
  \/ <>[]cancel_request
  \/ \A x \in Tasks : x \in used ~> ~Waits(x)
=============================================================================
