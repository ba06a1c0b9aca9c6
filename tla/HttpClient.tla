----------------------------- MODULE HttpClient -----------------------------
(***************************************************************************)
(* acqua::webclient::http_client: a bounded pool of client_socket objects. *)
(* wget() and wpost() call connect(), which waits for a free place in the  *)
(* pool and makes a client_socket, then start() or async_start(), which    *)
(* hands the request's result object to it.  The socket's handlers run on  *)
(* io_service threads: connect, write, read, follow a redirection, call    *)
(* the request back.  A socket whose server allows it is kept, with a read *)
(* of one byte outstanding, and later gives its connection to a new socket *)
(* with the same endpoint.  Plain HTTP; https_socket is not modelled.      *)
(*                                                                         *)
(* A critical section of mutex_ is one step, and so is a handler, except   *)
(* where it touches what another thread touches without the mutex: result_ *)
(* and is_ready_ (start() against on_connect), reuse_ (reuse() against     *)
(* on_keep_alive()) and result_ of the socket made for a redirection.      *)
(***************************************************************************)
EXTENDS Integers, FiniteSets, Sequences

CONSTANTS Reqs,       \* the requests, each made by a thread of the application
          Socks,      \* identities (addresses) of client_socket objects
          None,
          Eps,        \* endpoints
          Hosts,      \* what the resolver may return: sequences of endpoints
          MaxCount,   \* max_count_
          MaxRetry,   \* retry_ of a socket made by connect(), 3 in the code
          OneThread,  \* whether one thread only runs the io_service
          Events      \* what the environment does, a subset of AllEvents

AllEvents == {"bad_answer", "chunked", "connect_error", "io_error", "keep_alive",
              "peer_close", "redirect", "resolve_error", "timeout"}

ASSUME HttpAssumption ==
  /\ None \notin Reqs /\ None \notin Socks
  /\ IsFiniteSet(Reqs) /\ IsFiniteSet(Socks)
  /\ Hosts \subseteq Seq(Eps) \ {<<>>}
  /\ MaxCount \in Nat \ {0} /\ MaxRetry \in Nat
  /\ OneThread \in BOOLEAN
  /\ Events \subseteq AllEvents

VARIABLES
  pc,      \* per request: where the thread that makes it is
  host,    \* per request: what its host name resolves to
  sock,    \* per request: the socket its thread holds, or None
  answer,  \* per request: what callback() has posted, in order
  so,      \* per socket: its members, see Socket
  count,   \* count_
  keep,    \* keep_sockets_
  owed,    \* number of threads in socket_deleter() between collect() and --count_
  leaked   \* history: places counted for sockets that resolve() kept from being made

vars == <<pc, host, sock, answer, so, count, keep, owed, leaked>>

\* "lock": before the predicate of lock_wait(), "asleep": waiting on cond_,
\* "make": before the resolver is asked, "connect": in async_connect(),
\* "start": before start() sets result_, "write": before it looks at is_ready_.
PCs == {"idle", "lock", "asleep", "make", "connect", "start", "write", "done",
        "thrown"}

Ops == {"none", "connect2", "connect1", "write", "read_1", "read_header",
        "read_content", "keep_alive"}

\* A step a thread is about to take for the socket.  "ready": on_connect has set
\* is_ready_; "made", "taking": in async_connect(), before and after reuse();
\* "moving", "move_start": in on_move(), while the new socket is being connected
\* and before it gets the result; "dying": on_keep_alive() has seen no reuse_.
Stages == {"none", "made", "taking", "ready", "moving", "move_start", "dying"}

\* What a request is called back with: its content, an error, or the error of an
\* answer that begins with what was left of an earlier one.
Outcomes == {"content", "error", "garbled"}

Socket == [used   : BOOLEAN,            \* the object exists
           stage  : Stages,
           op     : Ops,                \* the outstanding asynchronous operation
           comp   : {"pending", "ok", "error"},  \* and how it has completed
           writes : 0..2,               \* number of async_write outstanding
           link   : {"closed", "open", "peer_closed"},
           stale  : BOOLEAN,            \* unread bytes of an earlier answer
           ep     : Eps \cup {None},    \* endpoint_
           rest   : Seq(Eps),           \* the addresses still to be tried
           result : Reqs \cup {None},   \* result_
           ready  : BOOLEAN,            \* is_ready_
           alive  : BOOLEAN,            \* is_keep_alive_
           retry  : 0..MaxRetry,        \* retry_
           timer  : {"off", "armed", "due", "aborted"},
           other  : Socks \cup {None}]  \* taking: the kept socket; moving: the new
                                        \* one; kept: reuse_

Free == [used |-> FALSE, stage |-> "none", op |-> "none", comp |-> "pending",
         writes |-> 0, link |-> "closed", stale |-> FALSE, ep |-> None,
         rest |-> <<>>, result |-> None, ready |-> FALSE, alive |-> FALSE,
         retry |-> 0, timer |-> "off", other |-> None]

TypeOK ==
  /\ pc \in [Reqs -> PCs]
  /\ host \in [Reqs -> Hosts \cup {<<>>}]
  /\ sock \in [Reqs -> Socks \cup {None}]
  /\ answer \in [Reqs -> Seq(Outcomes)]
  /\ so \in [Socks -> Socket]
  /\ count \in Nat
  /\ keep \subseteq Socks
  /\ owed \in Nat /\ leaked \in Nat

Init ==
  /\ pc = [r \in Reqs |-> "idle"]
  /\ host = [r \in Reqs |-> <<>>]
  /\ sock = [r \in Reqs |-> None]
  /\ answer = [r \in Reqs |-> <<>>]
  /\ so = [s \in Socks |-> Free]
  /\ count = 0
  /\ keep = {}
  /\ owed = 0 /\ leaked = 0

-----------------------------------------------------------------------------
(***************************************************************************)
(* connect() and start(), on a thread of the application.                  *)
(***************************************************************************)
Connect(r, h) ==
  /\ pc[r] = "idle"
  /\ pc' = [pc EXCEPT ![r] = "lock"]
  /\ host' = [host EXCEPT ![r] = h]
  /\ UNCHANGED <<sock, answer, so, count, keep, owed, leaked>>

\* Mutant: kept connections are not counted.
MutLockWait(r) ==
  /\ pc[r] = "lock"
  /\ IF count < MaxCount
     THEN pc' = [pc EXCEPT ![r] = "make"] /\ count' = count + 1
     ELSE pc' = [pc EXCEPT ![r] = "asleep"] /\ UNCHANGED count
  /\ UNCHANGED <<host, sock, answer, so, keep, owed, leaked>>

\* lock_wait(true): the predicate of cond_.wait(), then ++count_.
LockWait(r) ==
  /\ pc[r] = "lock"
  /\ IF count + Cardinality(keep) < MaxCount
     THEN pc' = [pc EXCEPT ![r] = "make"] /\ count' = count + 1
     ELSE pc' = [pc EXCEPT ![r] = "asleep"] /\ UNCHANGED count
  /\ UNCHANGED <<host, sock, answer, so, keep, owed, leaked>>

\* cond_.notify_one()
NotifyOne ==
  LET asleep == {r \in Reqs : pc[r] = "asleep"} IN
  IF asleep = {} THEN UNCHANGED pc
  ELSE \E r \in asleep : pc' = [pc EXCEPT ![r] = "lock"]

\* A socket made by make_http_socket(): its timer runs, and its async_connect()
\* is about to look for a kept connection.
NewSocket(h, retry) ==
  [Free EXCEPT !.used = TRUE, !.stage = "made", !.rest = h, !.retry = retry,
               !.timer = "armed"]

\* The rest of do_connect(): resolve() may throw.
Make(r) ==
  /\ pc[r] = "make"
  /\ \/ \E s \in Socks :
          /\ ~so[s].used
          /\ so' = [so EXCEPT ![s] = NewSocket(host[r], MaxRetry)]
          /\ sock' = [sock EXCEPT ![r] = s]
          /\ pc' = [pc EXCEPT ![r] = "connect"]
          /\ UNCHANGED leaked
     \/ /\ "resolve_error" \in Events
        /\ pc' = [pc EXCEPT ![r] = "thrown"]
        /\ leaked' = leaked + 1
        /\ UNCHANGED <<so, sock>>
  /\ UNCHANGED <<host, answer, count, keep, owed>>

\* async_connect() of socket s has returned to connect() or to on_move().
Returned(s, sockets) ==
  /\ pc' = [r \in Reqs |-> IF pc[r] = "connect" /\ sock[r] = s THEN "start" ELSE pc[r]]
  /\ so' = [m \in Socks |-> IF sockets[m].stage = "moving" /\ sockets[m].other = s
                            THEN [sockets[m] EXCEPT !.stage = "move_start"]
                            ELSE sockets[m]]

\* reuse(): the kept sockets it may find for endpoint e.
Reusable(e) == {k \in keep : so[k].ep = e}

\* async_connect(error, it): take a kept connection to the endpoint, if there is
\* one, otherwise connect.
AsyncConnect(s) ==
  /\ so[s].stage = "made"
  /\ LET e == Head(so[s].rest)
         x == [so[s] EXCEPT !.ep = e]
     IN  \/ /\ Reusable(e) = {}
            /\ Returned(s, [so EXCEPT ![s] = [x EXCEPT !.stage = "none",
                                       !.op = "connect2", !.comp = "pending"]])
            /\ UNCHANGED keep
         \/ \E k \in Reusable(e) :
            /\ keep' = keep \ {k}
            /\ so' = [so EXCEPT ![s] = [x EXCEPT !.stage = "taking", !.other = k]]
            /\ UNCHANGED pc
  /\ UNCHANGED <<host, sock, answer, count, owed, leaked>>

\* async_reuse(): the kept socket is told for whom, and its read is cancelled.
\* When on_keep_alive() has deleted it in the meantime, nothing comes of it.
AsyncReuse(s) ==
  /\ so[s].stage = "taking"
  /\ LET k == so[s].other
         x == [so[s] EXCEPT !.stage = "none", !.other = None]
         y == [so[k] EXCEPT !.other = s,
                            !.comp = IF @ = "pending" THEN "error" ELSE @]
     IN  Returned(s, IF so[k].op = "keep_alive" THEN [so EXCEPT ![s] = x, ![k] = y]
                                                ELSE [so EXCEPT ![s] = x])
  /\ UNCHANGED <<host, sock, answer, count, keep, owed, leaked>>

\* start() and async_start(): result_ is set ...
Start(r) ==
  /\ pc[r] = "start"
  /\ so' = [so EXCEPT ![sock[r]].result = r]
  /\ pc' = [pc EXCEPT ![r] = "write"]
  /\ UNCHANGED <<host, sock, answer, count, keep, owed, leaked>>

\* Mutant: is_ready_ is read and not exchanged.
MutWrite(x) ==
  IF x.result # None /\ x.ready
  THEN [x EXCEPT !.op = "write", !.comp = "pending", !.writes = @ + 1]
  ELSE x

\* async_write(): whoever finds both the result and is_ready_ writes.
Write(x) ==
  IF x.result # None /\ x.ready
  THEN [x EXCEPT !.ready = FALSE, !.op = "write", !.comp = "pending",
                 !.writes = @ + 1]
  ELSE x

\* ... and then async_write() is called; the thread gives its socket up.
StartWrite(r) ==
  /\ pc[r] = "write"
  /\ so' = [so EXCEPT ![sock[r]] = Write(@)]
  /\ pc' = [pc EXCEPT ![r] = "done"]
  /\ sock' = [sock EXCEPT ![r] = None]
  /\ UNCHANGED <<host, answer, count, keep, owed, leaked>>

-----------------------------------------------------------------------------
(***************************************************************************)
(* The network, the peer and the clock.                                    *)
(***************************************************************************)
Reads == {"read_1", "read_header", "read_content"}

\* How an operation may complete: a read succeeds while the connection is open,
\* a write until it is closed here, and either fails when the peer has gone; a
\* connect may succeed or fail.
MayComplete(x, result) ==
  \/ x.op \in Reads /\ result = "ok" /\ x.link = "open"
  \/ x.op = "write" /\ result = "ok" /\ x.link # "closed"
  \/ /\ x.op \in Reads \cup {"write"} /\ result = "error"
     /\ x.link # "open" \/ "io_error" \in Events
  \/ /\ x.op \in {"connect1", "connect2"}
     /\ result = "ok" \/ "connect_error" \in Events

\* The outstanding operation of s completes; its handler is queued.
Complete(s, result) ==
  LET x == so[s] IN
  /\ x.comp = "pending" /\ MayComplete(x, result)
  /\ so' = [so EXCEPT ![s].comp = result,
                      ![s].link = IF result = "ok" /\ x.op \in {"connect1", "connect2"}
                                  THEN "open"
                                  ELSE IF result = "error" /\ @ = "open"
                                  THEN "peer_closed" ELSE @]
  /\ UNCHANGED <<pc, host, sock, answer, count, keep, owed, leaked>>

\* The peer of a kept connection closes it or has closed it, or what is left of
\* an earlier answer arrives: the read of one byte completes.
KeptReadable(k) ==
  /\ so[k].op = "keep_alive" /\ so[k].comp = "pending"
  /\ \/ /\ "peer_close" \in Events \/ so[k].link # "open"
        /\ so' = [so EXCEPT ![k].comp = "error", ![k].link = "peer_closed"]
     \/ so[k].stale /\ so' = [so EXCEPT ![k].comp = "ok"]
  /\ UNCHANGED <<pc, host, sock, answer, count, keep, owed, leaked>>

\* Five seconds have passed since the socket was made.
TimerDue(s) ==
  /\ "timeout" \in Events
  /\ so[s].timer = "armed"
  /\ so' = [so EXCEPT ![s].timer = "due"]
  /\ UNCHANGED <<pc, host, sock, answer, count, keep, owed, leaked>>

-----------------------------------------------------------------------------
(***************************************************************************)
(* The handlers, on the io_service's threads.                              *)
(***************************************************************************)

\* A thread of the io_service is in the middle of a handler of s.
InHandler(s) ==
  \/ so[s].stage \in {"ready", "moving", "move_start", "dying"}
  \/ /\ so[s].stage \in {"made", "taking"}
     /\ ~\E r \in Reqs : pc[r] = "connect" /\ sock[r] = s
     /\ ~\E m \in Socks : so[m].stage = "moving" /\ so[m].other = s

\* A thread is free to run the next handler.
CanRun == OneThread => \A s \in Socks : ~InHandler(s)

Completed(s, op) == so[s].op = op /\ so[s].comp # "pending" /\ CanRun

\* timer_.cancel()
CancelTimer(timer) == IF timer = "armed" THEN "aborted" ELSE timer

\* The end of a request: timer_.cancel() and callback(), which posts the result
\* if there is one and forgets it.  on_error(), and the success paths.
Finish(s, x, outcome) ==
  /\ so' = [so EXCEPT ![s] = [x EXCEPT !.op = "none", !.comp = "pending",
                                       !.result = None, !.timer = CancelTimer(@)]]
  /\ answer' = IF x.result = None THEN answer
               ELSE [answer EXCEPT ![x.result] = Append(@, outcome)]

\* Socket s goes on with another operation.
Continue(s, x, op) ==
  /\ so' = [so EXCEPT ![s] = [x EXCEPT !.op = op, !.comp = "pending"]]
  /\ UNCHANGED answer

\* Mutant: the error is not reported when retry_ is used up.
MutRetry(s, x) ==
  IF x.retry > 0
  THEN Continue(s, [x EXCEPT !.retry = @ - 1, !.link = "closed", !.stale = FALSE],
                "connect1")
  ELSE Continue(s, x, "none")

\* on_write() and on_read_1() with an error: reconnect while retry_ lasts.
Retry(s, x) ==
  IF x.retry > 0
  THEN Continue(s, [x EXCEPT !.retry = @ - 1, !.link = "closed", !.stale = FALSE],
                "connect1")
  ELSE Finish(s, x, "error")

\* on_connect1() and on_connect2(); the latter tries the next address.
OnConnect(s, op) ==
  /\ Completed(s, op)
  /\ LET x == so[s] IN
     \/ /\ x.comp = "ok"
        /\ so' = [so EXCEPT ![s] = [x EXCEPT !.ready = TRUE, !.stage = "ready",
                                             !.op = "none", !.comp = "pending"]]
        /\ UNCHANGED answer
     \/ /\ x.comp = "error"
        /\ op = "connect1" \/ Len(x.rest) = 1
        /\ Finish(s, [x EXCEPT !.ready = TRUE, !.link = "closed"], "error")
     \/ /\ x.comp = "error"
        /\ op = "connect2" /\ Len(x.rest) > 1
        /\ Continue(s, [x EXCEPT !.stage = "made", !.rest = Tail(@), !.link = "closed"],
                    "none")
  /\ UNCHANGED <<pc, host, sock, count, keep, owed, leaked>>

\* async_handshake() of plain HTTP: the write, unless start() is still to come.
Ready(s) ==
  /\ so[s].stage = "ready"
  /\ so' = [so EXCEPT ![s] = [Write(@) EXCEPT !.stage = "none"]]
  /\ UNCHANGED <<pc, host, sock, answer, count, keep, owed, leaked>>

OnWrite(s) ==
  /\ Completed(s, "write")
  /\ LET x == [so[s] EXCEPT !.writes = @ - 1] IN
     IF x.comp = "ok" THEN Continue(s, x, "read_1") ELSE Retry(s, x)
  /\ UNCHANGED <<pc, host, sock, count, keep, owed, leaked>>

OnRead1(s) ==
  /\ Completed(s, "read_1")
  /\ IF so[s].comp = "ok" THEN Continue(s, so[s], "read_header") ELSE Retry(s, so[s])
  /\ UNCHANGED <<pc, host, sock, count, keep, owed, leaked>>

\* on_read_line() and on_read_header() without a Location: an error, an answer
\* that cannot be parsed, or content to read.
OnReadHeader(s) ==
  /\ Completed(s, "read_header")
  /\ LET x == so[s] IN
     \/ /\ x.comp = "error" \/ ("bad_answer" \in Events /\ ~x.stale)
        /\ Finish(s, x, "error")
     \/ /\ x.comp = "ok" /\ x.stale
        /\ Finish(s, x, "garbled")
     \/ /\ x.comp = "ok" /\ ~x.stale
        /\ \E alive \in {FALSE} \cup (IF "keep_alive" \in Events THEN {TRUE} ELSE {}) :
             Continue(s, [x EXCEPT !.alive = alive], "read_content")
  /\ UNCHANGED <<pc, host, sock, count, keep, owed, leaked>>

\* on_read_sized_content() and on_read_chunked_size(), on_read_chunked_content().
\* The line after the last chunk is not read.  A read given up by the timer
\* leaves the rest of the answer in the connection.
OnReadContent(s) ==
  /\ Completed(s, "read_content")
  /\ LET x == so[s] IN
     \/ /\ x.comp = "ok"
        /\ \E stale \in {FALSE} \cup (IF "chunked" \in Events THEN {TRUE} ELSE {}) :
             Finish(s, [x EXCEPT !.stale = stale], "content")
     \/ /\ x.comp = "error"
        /\ Finish(s, [x EXCEPT !.stale = x.link = "open"], "error")
  /\ UNCHANGED <<pc, host, sock, count, keep, owed, leaked>>

\* on_read_header() with a Location: on_move() calls do_connect() without
\* waiting for a place, which makes another socket, or throws.
OnMove(s, h) ==
  /\ "redirect" \in Events
  /\ Completed(s, "read_header") /\ so[s].comp = "ok" /\ ~so[s].stale
  /\ count' = count + 1
  /\ LET x == [so[s] EXCEPT !.op = "none", !.comp = "pending"] IN
     \/ \E n \in Socks :
          /\ ~so[n].used
          /\ so' = [so EXCEPT ![n] = NewSocket(h, x.retry),
                              ![s] = [x EXCEPT !.stage = "moving", !.other = n]]
          /\ UNCHANGED leaked
     \/ /\ "resolve_error" \in Events
        /\ so' = [so EXCEPT ![s] = x]
        /\ leaked' = leaked + 1
  /\ UNCHANGED <<pc, host, sock, answer, keep, owed>>

\* move_start(): the new socket gets the result.
MoveStart(s) ==
  /\ so[s].stage = "move_start"
  /\ so' = [so EXCEPT ![so[s].other].result = so[s].result,
                      ![s] = [@ EXCEPT !.stage = "none", !.other = None]]
  /\ UNCHANGED <<pc, host, sock, answer, count, keep, owed, leaked>>

\* on_wait(): without an error the outstanding operation is cancelled.
OnWait(s) ==
  /\ so[s].timer \in {"due", "aborted"} /\ CanRun
  /\ so' = [so EXCEPT ![s].timer = "off",
                      ![s].comp = IF so[s].timer = "due" /\ so[s].op # "none"
                                     /\ @ = "pending" THEN "error" ELSE @]
  /\ UNCHANGED <<pc, host, sock, answer, count, keep, owed, leaked>>

\* Nobody refers to the socket: no thread, no handler, no kept socket.
Unreferenced(s) ==
  /\ so[s].used /\ so[s].stage = "none" /\ so[s].op = "none" /\ so[s].timer = "off"
  /\ \A r \in Reqs : sock[r] # s
  /\ \A m \in Socks : so[m].other # s

\* Mutant: nobody is woken up.
MutDelete(s) ==
  /\ Unreferenced(s) /\ ~so[s].alive
  /\ so' = [so EXCEPT ![s] = Free]
  /\ count' = count - 1
  /\ UNCHANGED <<pc, host, sock, answer, keep, owed, leaked>>

\* socket_deleter() of a socket that is not kept.
Delete(s) ==
  /\ Unreferenced(s) /\ ~so[s].alive
  /\ so' = [so EXCEPT ![s] = Free]
  /\ count' = count - 1
  /\ NotifyOne
  /\ UNCHANGED <<host, sock, answer, keep, owed, leaked>>

\* socket_deleter() of a socket that is kept: collect() ...
Collect(s) ==
  /\ Unreferenced(s) /\ so[s].alive
  /\ keep' = keep \cup {s}
  /\ so' = [so EXCEPT ![s].op = "keep_alive", ![s].comp = "pending"]
  /\ owed' = owed + 1
  /\ UNCHANGED <<pc, host, sock, answer, count, leaked>>

\* ... and --count_.
Uncount ==
  /\ owed > 0
  /\ owed' = owed - 1 /\ count' = count - 1
  /\ NotifyOne
  /\ UNCHANGED <<host, sock, answer, so, keep, leaked>>

\* Mutant: the connection is moved and on_connect1() is not called.
MutOnKeepAlive(k) ==
  /\ Completed(k, "keep_alive") /\ so[k].stage = "none"
  /\ LET x == so[k] IN
     so' = IF x.other = None THEN [so EXCEPT ![k].stage = "dying"]
           ELSE [so EXCEPT ![k] = Free,
                           ![x.other] = [@ EXCEPT !.link = x.link, !.stale = x.stale]]
  /\ UNCHANGED <<pc, host, sock, answer, count, keep, owed, leaked>>

\* on_keep_alive(): the connection goes to the socket that waits for it, whose
\* on_connect1() is called; without one ...
OnKeepAlive(k) ==
  /\ Completed(k, "keep_alive") /\ so[k].stage = "none"
  /\ LET x == so[k] IN
     so' = IF x.other = None THEN [so EXCEPT ![k].stage = "dying"]
           ELSE [so EXCEPT ![k] = Free,
                           ![x.other] = [@ EXCEPT !.link = x.link, !.stale = x.stale,
                                                  !.ready = TRUE, !.stage = "ready"]]
  /\ UNCHANGED <<pc, host, sock, answer, count, keep, owed, leaked>>

\* Mutant: the last kept socket goes without waking anyone up.
MutErase(k) ==
  /\ so[k].stage = "dying"
  /\ so' = [so EXCEPT ![k] = Free]
  /\ keep' = keep \ {k}
  /\ UNCHANGED <<pc, host, sock, answer, count, owed, leaked>>

\* ... erase() takes the kept socket out of the pool, and it is deleted.
Erase(k) ==
  /\ so[k].stage = "dying"
  /\ so' = [so EXCEPT ![k] = Free]
  /\ keep' = keep \ {k}
  /\ IF k \in keep THEN NotifyOne ELSE UNCHANGED pc
  /\ UNCHANGED <<host, sock, answer, count, owed, leaked>>

-----------------------------------------------------------------------------
\* The steps of the application's threads once they have called connect().
Caller(r) == LockWait(r) \/ Make(r) \/ Start(r) \/ StartWrite(r)

\* What the threads do for socket s, the completion of its handlers included.
Handle(s) ==
  \/ AsyncConnect(s) \/ AsyncReuse(s) \/ Ready(s) \/ MoveStart(s) \/ Erase(s)
  \/ \E op \in {"connect1", "connect2"} : OnConnect(s, op)
  \/ OnWrite(s) \/ OnRead1(s) \/ OnReadHeader(s) \/ OnReadContent(s)
  \/ \E h \in Hosts : OnMove(s, h)
  \/ OnWait(s) \/ OnKeepAlive(s) \/ Delete(s) \/ Collect(s)

Next ==
  \/ \E r \in Reqs : Caller(r) \/ \E h \in Hosts : Connect(r, h)
  \/ \E s \in Socks : Handle(s) \/ KeptReadable(s) \/ TimerDue(s)
  \/ \E s \in Socks, result \in {"ok", "error"} : Complete(s, result)
  \/ Uncount

Spec == Init /\ [][Next]_vars

\* Threads go on with what they are in, queued handlers are run, time passes.
\* Nothing makes a server answer, close an idle connection or send bytes.
Fairness ==
  /\ \A r \in Reqs : WF_vars(Caller(r))
  /\ \A s \in Socks : WF_vars(Handle(s)) /\ WF_vars(TimerDue(s))
  /\ WF_vars(Uncount)

FairSpec == Spec /\ Fairness

\* Servers and the network complete every operation, one way or the other.
ServersAnswer ==
  \A s \in Socks : WF_vars(\E result \in {"ok", "error"} : Complete(s, result))

AnsweredSpec == FairSpec /\ ServersAnswer

-----------------------------------------------------------------------------
(***************************************************************************)
(* Properties.                                                             *)
(***************************************************************************)

\* A request is sent once and called back at most once.  start() and on_connect,
\* which race for the first async_write(), never both write the request buffer of
\* a connection; and neither the timer nor retries nor a redirection, after which
\* two sockets hold the request's result, calls the request back again.
OneWrite == \A s \in Socks : so[s].writes <= 1
CalledOnce == \A r \in Reqs : Len(answer[r]) <= 1
OnceEach == OneWrite /\ CalledOnce

Kept(s) == so[s].op = "keep_alive"
InUse == {s \in Socks : so[s].used /\ ~Kept(s)}

\* count_ is the number of sockets in use, of the threads that are about to make
\* one, of those about to give one up, and of the places lost because resolve()
\* threw: nothing else is counted twice or forgotten when sockets are kept,
\* reused, redirected, retried and deleted.
CountExact ==
  count = Cardinality(InUse) + Cardinality({r \in Reqs : pc[r] = "make"})
          + owed + leaked

\* A socket whose request has been moved to another one.
Moved == {s \in Socks : \/ so[s].stage \in {"moving", "move_start"}
                        \/ /\ so[s].used /\ so[s].result # None /\ so[s].link = "open"
                           /\ so[s].op = "none" /\ so[s].stage = "none"
                           /\ ~so[s].ready}

\* No more connections than max_count_ are in use or kept, except for the
\* sockets of redirected requests, which wait for their timer.
Capacity ==
  count + Cardinality(keep) <= MaxCount + owed + Cardinality(Moved) + leaked

\* The pool's accounting: count_ is exact (CountExact), and it keeps the pool
\* within max_count_ (Capacity), on any interleaving of lock_wait(), collect(),
\* reuse(), the deleters and on_keep_alive().
Accounting == CountExact /\ Capacity

\* No request sleeps in lock_wait() beside free places without a socket in use,
\* or a request on its way, whose end will wake it up: reuse() frees a place and
\* wakes nobody, but the socket that takes the connection will.  A name that
\* cannot be resolved loses the wake-up that its request has consumed along with
\* the place, so this is promised only while no place is lost.
WakeUpOwed ==
  /\ leaked = 0
  /\ \E r \in Reqs : pc[r] = "asleep"
  /\ count + Cardinality(keep) < MaxCount
  => count > 0 \/ \E r \in Reqs : pc[r] = "lock"

\* Every request whose async_start() has returned is called back.
Completes == \A r \in Reqs : pc[r] = "done" ~> answer[r] # <<>>
=============================================================================
