------------------------------- MODULE Pinger -------------------------------
(***************************************************************************)
(* basic_pinger (asio/icmp/basic_pinger.hpp) with pinger_v4 or pinger_v6   *)
(* as its base: echo requests are sent on a raw socket, the requests that  *)
(* have no answer yet are kept in entries_, ordered by expire_, and one    *)
(* timer waits for the first of them.                                      *)
(*                                                                         *)
(* The handlers run on the threads of the io_service.  A thread enters a   *)
(* critical section with Enter and leaves it in the action that is the     *)
(* section's body; "inside" are the threads that believe to hold mutex_.   *)
(* send_ping() gives mutex_ up twice, so that with several threads mutex_  *)
(* may be free while a thread is inside.                                   *)
(***************************************************************************)
EXTENDS Integers, Sequences, FiniteSets, SequencesExt

CONSTANTS Pings,    \* the calls of async_check() and async_search()
          Threads,  \* the threads that run the io_service
          Searches, \* the pings of async_search(); the others check
          SeqCount,   \* seq_ counts modulo this (2^16 in the code)
          MaxNow,   \* bound on the clock
          MaxFound, \* bound on the answers one search collects
          None

ASSUME PingerAssumption == /\ Searches \subseteq Pings
                           /\ SeqCount \in Nat \ {0}
                           /\ MaxNow \in Nat /\ MaxFound \in Nat
                           /\ None \notin Pings \cup Threads

VARIABLES
    now,        \* steady_clock::now()
    isOpen,     \* socket_.is_open()
    listening,  \* async_receive_from() is outstanding
    seq,        \* seq_
    entries,    \* entries_: the pings, in the order of expire_
    num,        \* entry::seq_ of a ping
    expire,     \* entry::expire_ of a ping
    found,      \* how many endpoints a search has collected
    timer,      \* timer_: its expiry and the number of waits that have not fired
    fired,      \* calls of on_wait(success) in the queue of the io_service
    mutex,      \* mutex_: the thread that holds it, or None
    inside,     \* threads inside a critical section
    task,       \* what a thread is about to do, and for which ping
    phase,      \* how far a ping has come
    called,     \* how often a ping's handler has been called
    answer,     \* what it was called with: "error", "timeout" or the ping answered
    unanswered, \* requests that hosts may answer
    turns,      \* how many pings have read seq_
    turn,       \* how many had before this one did
    lapped      \* one read seq_ while entries_ held one SeqCount or more turns older

pingerVars == <<now, isOpen, listening, seq, entries, num, expire, found, timer, fired,
                mutex, inside, task, phase, called, answer, unanswered, turns, turn, lapped>>
socket == <<isOpen, listening>>
request == <<seq, num, expire, unanswered>>
history == <<turns, turn, lapped>>

Idle == [pc |-> "idle", ping |-> None]

PingerInit ==
    /\ now = 0
    /\ isOpen = FALSE /\ listening = FALSE
    /\ seq = 0
    /\ entries = <<>>
    /\ num = [p \in Pings |-> 0]
    /\ expire = [p \in Pings |-> 0]
    /\ found = [p \in Pings |-> 0]
    /\ timer = [expiry |-> 0, waits |-> 0]
    /\ fired = 0
    /\ mutex = None /\ inside = {}
    /\ task = [t \in Threads |-> Idle]
    /\ phase = [p \in Pings |-> "idle"]
    /\ called = [p \in Pings |-> 0]
    /\ answer = [p \in Pings |-> None]
    /\ unanswered = {}
    /\ turns = 0 /\ turn = [p \in Pings |-> 0] /\ lapped = FALSE

-----------------------------------------------------------------------------
(* The socket and the application.                                         *)

\* start(): an open socket is an error; bind() may fail and leave the socket
\* open without a receive.
StartPinger ==
    /\ ~isOpen
    /\ isOpen' = TRUE
    /\ listening' \in BOOLEAN
    /\ UNCHANGED <<now, request, entries, found, timer, fired, mutex, inside, task, phase,
                   called, answer, history>>

\* cancel() aborts the receive, which is not started again; stop() closes.
CancelOrStop ==
    /\ isOpen
    /\ listening' = FALSE
    /\ isOpen' \in BOOLEAN
    /\ UNCHANGED <<now, request, entries, found, timer, fired, mutex, inside, task, phase,
                   called, answer, history>>

\* async_check() and async_search() only ask the resolver.
AsyncCheck(p, e) ==
    /\ phase[p] = "idle"
    /\ phase' = [phase EXCEPT ![p] = "resolving"]
    /\ expire' = [expire EXCEPT ![p] = e]
    /\ UNCHANGED <<now, socket, seq, num, unanswered, entries, found, timer, fired, mutex, inside,
                   task, called, answer, history>>

-----------------------------------------------------------------------------
(* Helpers.                                                                *)

Call(p, a) ==
    /\ called' = [called EXCEPT ![p] = @ + 1]
    /\ answer' = [answer EXCEPT ![p] = a]

\* timer_.expires_at(e), which aborts the waits outstanding, and async_wait().
Arm(e) == timer' = [expiry |-> e, waits |-> 1]

\* emplace_hint(begin): before the first entry that does not expire earlier.
Emplaced(p) ==
    LET earlier == Cardinality({i \in DOMAIN entries : expire[entries[i]] < expire[p]})
    IN  InsertAt(entries, earlier + 1, p)

\* Mutant: the number is not compared.
MutMatching(n) == DOMAIN entries

Matching(n) == {i \in DOMAIN entries : num[entries[i]] = n}
FirstOf(S) == CHOOSE i \in S : \A j \in S : i <= j

Goto(t, pc, p) == task' = [task EXCEPT ![t] = [pc |-> pc, ping |-> p]]
Leave(t) == /\ inside' = inside \ {t}
            /\ mutex' = None

\* std::lock_guard, or mutex_.lock() after a callback.
Enter(t) ==
    /\ task[t].pc \in {"emplace", "unsend", "match", "rearm", "wait", "rewait"}
    /\ t \notin inside
    /\ mutex = None
    /\ mutex' = t
    /\ inside' = inside \cup {t}
    /\ UNCHANGED <<now, socket, request, entries, found, timer, fired, task, phase, called, answer,
                   history>>

-----------------------------------------------------------------------------
(* on_resolve() and send_ping().                                           *)

\* The resolver fails; no address has the family of the pinger; or one does
\* and seq_ is read.
OnResolve(t, p) ==
    /\ task[t] = Idle
    /\ phase[p] = "resolving"
    /\ \/ /\ phase' = [phase EXCEPT ![p] = "failed"]
          /\ Call(p, "error")
          /\ UNCHANGED <<task, num, history>>
       \/ /\ phase' = [phase EXCEPT ![p] = "lost"]
          /\ UNCHANGED <<task, num, called, answer, history>>
       \/ /\ ~isOpen
          /\ phase' = [phase EXCEPT ![p] = "failed"]
          /\ Call(p, "error")
          /\ UNCHANGED <<task, num, history>>
       \/ /\ isOpen
          /\ phase' = [phase EXCEPT ![p] = "sending"]
          /\ num' = [num EXCEPT ![p] = seq]
          /\ turns' = turns + 1
          /\ turn' = [turn EXCEPT ![p] = turns]
          /\ lapped' = (lapped \/ \E i \in DOMAIN entries : turns - turn[entries[i]] >= SeqCount)
          /\ Goto(t, "number", p)
          /\ UNCHANGED <<called, answer>>
    /\ UNCHANGED <<now, socket, seq, expire, unanswered, entries, found, timer, fired, mutex, inside>>

\* Mutant: the number is not incremented.
MutSameSeq(n) == n

NextSeq(n) == (n + 1) % SeqCount

\* seq_++ is written back, without a lock.
Number(t) ==
    /\ task[t].pc = "number"
    /\ seq' = NextSeq(num[task[t].ping])
    /\ Goto(t, "emplace", task[t].ping)
    /\ UNCHANGED <<now, socket, num, expire, unanswered, entries, found, timer, fired, mutex,
                   inside, phase, called, answer, history>>

Emplace(t) ==
    LET p == task[t].ping IN
    /\ task[t].pc = "emplace" /\ t \in inside
    /\ entries' = Emplaced(p)
    /\ Goto(t, IF Head(Emplaced(p)) = p THEN "arm" ELSE "send", p)
    /\ Leave(t)
    /\ UNCHANGED <<now, socket, request, found, timer, fired, phase, called, answer,
                   history>>

\* The timer is set after the lock has been given up.
ArmFirst(t) ==
    /\ task[t].pc = "arm"
    /\ Arm(expire[task[t].ping])
    /\ Goto(t, "send", task[t].ping)
    /\ UNCHANGED <<now, socket, request, entries, found, fired, mutex, inside, phase, called,
                   answer, history>>

\* send_to().  After a success the lock_guard gives up a mutex this thread does
\* not hold; after an error the entry is looked up again.
Send(t) ==
    /\ task[t].pc = "send"
    /\ \/ /\ isOpen
          /\ unanswered' = unanswered \cup {task[t].ping}
          /\ task' = [task EXCEPT ![t] = Idle]
          /\ mutex' = None
       \/ /\ Goto(t, "unsend", task[t].ping)
          /\ UNCHANGED <<unanswered, mutex>>
    /\ UNCHANGED <<now, socket, seq, num, expire, entries, found, timer, fired, inside, phase,
                   called, answer, history>>

\* The entry may be gone: timed out while send_to() was failing.
Unsend(t) ==
    LET p == task[t].ping
        m == Matching(num[p])
    IN
    /\ task[t].pc = "unsend" /\ t \in inside
    /\ Leave(t)
    /\ task' = [task EXCEPT ![t] = Idle]
    /\ IF m # {}
       THEN /\ entries' = RemoveAt(entries, FirstOf(m))
            /\ Call(p, "error")
       ELSE UNCHANGED <<entries, called, answer>>
    /\ UNCHANGED <<now, socket, request, found, timer, fired, phase, history>>

-----------------------------------------------------------------------------
(* on_receive().                                                           *)

\* An answer that parses and bears id_; async_receive() is called again before
\* the entry is looked up.  A host may answer again, and several may answer.
OnReceive(t, p) ==
    /\ task[t] = Idle
    /\ listening
    /\ p \in unanswered
    /\ \A q \in Searches : num[q] = num[p] => found[q] < MaxFound
    /\ Goto(t, "match", p)
    /\ unanswered' \in {unanswered, unanswered \ {p}}
    /\ UNCHANGED <<now, socket, seq, num, expire, entries, found, timer, fired, mutex,
                   inside, phase, called, answer, history>>

Match(t) ==
    LET p == task[t].ping
        m == Matching(num[p])
        e == entries[FirstOf(m)]
    IN
    /\ task[t].pc = "match" /\ t \in inside
    /\ Leave(t)
    /\ \/ /\ m = {}
          /\ task' = [task EXCEPT ![t] = Idle]
          /\ UNCHANGED <<entries, called, answer, found, timer>>
       \/ /\ m # {} /\ e \notin Searches
          /\ entries' = RemoveAt(entries, FirstOf(m))
          /\ Call(e, p)
          /\ Goto(t, "rearm", e)
          /\ UNCHANGED <<found, timer>>
       \/ /\ m # {} /\ e \in Searches
          /\ found' = [found EXCEPT ![e] = @ + 1]
          /\ Arm(expire[Head(entries)])
          /\ task' = [task EXCEPT ![t] = Idle]
          /\ UNCHANGED <<entries, called, answer>>
    /\ UNCHANGED <<now, socket, request, fired, phase, history>>

\* After the handler of a check: the timer waits for the entry that is first now.
Rearm(t) ==
    /\ task[t].pc = "rearm" /\ t \in inside
    /\ IF entries = <<>> THEN timer' = [timer EXCEPT !.waits = 0]
                         ELSE Arm(expire[Head(entries)])
    /\ task' = [task EXCEPT ![t] = Idle]
    /\ Leave(t)
    /\ UNCHANGED <<now, socket, request, entries, found, fired, phase, called, answer, history>>

-----------------------------------------------------------------------------
(* The timer and on_wait().                                                *)

Fire ==
    /\ timer.waits > 0 /\ now >= timer.expiry
    /\ fired' = fired + timer.waits
    /\ timer' = [timer EXCEPT !.waits = 0]
    /\ UNCHANGED <<now, socket, request, entries, found, mutex, inside, task, phase, called, answer,
                   history>>

Tick ==
    /\ now < MaxNow
    /\ now' = now + 1
    /\ UNCHANGED <<socket, request, entries, found, timer, fired, mutex, inside, task, phase,
                   called, answer, history>>

OnWait(t) ==
    /\ task[t] = Idle
    /\ fired > 0
    /\ fired' = fired - 1
    /\ Goto(t, "wait", None)
    /\ UNCHANGED <<now, socket, request, entries, found, timer, mutex, inside, phase, called,
                   answer, history>>

\* The first entry is taken, whatever its expire_ is; a search that has found
\* something succeeds.
TakeFirst(t) ==
    LET p == Head(entries) IN
    /\ task[t].pc = "wait" /\ t \in inside
    /\ Leave(t)
    /\ IF entries = <<>>
       THEN /\ task' = [task EXCEPT ![t] = Idle]
            /\ UNCHANGED <<entries, called, answer>>
       ELSE /\ entries' = Tail(entries)
            /\ Call(p, IF p \in Searches /\ found[p] > 0 THEN p ELSE "timeout")
            /\ Goto(t, "rewait", None)
    /\ UNCHANGED <<now, socket, request, found, timer, fired, phase, history>>

\* Mutant: the timer is not set again after a timeout.
MutRewait(t) ==
    /\ task[t].pc = "rewait" /\ t \in inside
    /\ task' = [task EXCEPT ![t] = Idle]
    /\ Leave(t)
    /\ UNCHANGED <<now, socket, request, entries, found, timer, fired, phase, called, answer,
                   history>>

Rewait(t) ==
    /\ task[t].pc = "rewait" /\ t \in inside
    /\ IF entries = <<>> THEN UNCHANGED timer ELSE Arm(expire[Head(entries)])
    /\ task' = [task EXCEPT ![t] = Idle]
    /\ Leave(t)
    /\ UNCHANGED <<now, socket, request, entries, found, fired, phase, called, answer, history>>

-----------------------------------------------------------------------------
Step(t) == \/ Enter(t) \/ Number(t) \/ Emplace(t) \/ ArmFirst(t) \/ Send(t) \/ Unsend(t)
           \/ Match(t) \/ Rearm(t) \/ TakeFirst(t) \/ Rewait(t)

PingerNext ==
    \/ StartPinger \/ CancelOrStop
    \/ \E p \in Pings, e \in 0..MaxNow : AsyncCheck(p, e)
    \/ \E t \in Threads, p \in Pings : OnResolve(t, p) \/ OnReceive(t, p)
    \/ \E t \in Threads : Step(t) \/ OnWait(t)
    \/ Fire \/ Tick

PingerSpec == PingerInit /\ [][PingerNext]_pingerVars

-----------------------------------------------------------------------------
(* Properties.                                                             *)

Held(p) == \E t \in Threads :
              task[t] \in {[pc |-> "number", ping |-> p], [pc |-> "emplace", ping |-> p]}

Positions(p) == {i \in DOMAIN entries : entries[i] = p}

\* A ping that has been given to send_ping() is either on its way into entries_,
\* there exactly once, or its handler has been called exactly once: replies,
\* the timer and a failing send_to() compete for the entry, and none of them
\* loses the handler or calls it again.  It is so until seq_ laps an entry: then
\* a failing send_to() may erase the older entry of the same number
\* (basic_pinger.hpp:104-174, 193-213).
HandlerKept ==
    ~lapped => \A p \in Pings : phase[p] = "sending" =>
        Cardinality(Positions(p)) + called[p] + (IF Held(p) THEN 1 ELSE 0) = 1

\* The answer handed to a check is the answer to its own request, or to one that
\* is at least a whole round of the sequence numbers away: a late reply is never
\* taken for that of a ping sent since, until seq_ has come round
\* (basic_pinger.hpp:97-98, 153).
OwnReply ==
    \A p \in Pings :
        \/ answer[p] \in {None, "error", "timeout", p}
        \/ turn[p] - turn[answer[p]] >= SeqCount
        \/ turn[answer[p]] - turn[p] >= SeqCount

\* Every ping that reaches send_ping() is answered, by a reply, an error or the
\* timer, unless seq_ laps an entry: again and again none is waiting, so that, as
\* each is sent once, none waits for ever (basic_pinger.hpp:82-213).
Answered == []<>(lapped \/ \A p \in Pings : phase[p] = "sending" => called[p] > 0)
=============================================================================
