-------------------------- MODULE HttpClientProofs --------------------------
(***************************************************************************)
(* The pool of http_client for every number of requests, sockets and       *)
(* threads: count_ is exact, the limit holds, a request is written and     *)
(* called back once, and nobody sleeps beside a free place for ever.       *)
(***************************************************************************)
EXTENDS HttpClient, FiniteSetTheorems, SequenceTheorems, TLAPS

\* The type invariant but for count, which is not negative only because of
\* CountExact.
BaseTypes ==
  /\ pc \in [Reqs -> PCs]
  /\ host \in [Reqs -> Hosts \cup {<<>>}]
  /\ sock \in [Reqs -> Socks \cup {None}]
  /\ answer \in [Reqs -> Seq(Outcomes)]
  /\ so \in [Socks -> Socket]
  /\ count \in Int
  /\ keep \subseteq Socks
  /\ owed \in Nat /\ leaked \in Nat

-----------------------------------------------------------------------------
(***************************************************************************)
(* The invariant of one client_socket.                                     *)
(***************************************************************************)
Moving == {"moving", "move_start"}

\* A request is written when both result_ and is_ready_ are there, is_ready_ is
\* taken by whoever writes, and until the answer's header says so nothing is kept
\* alive.  A socket whose request moves to another one has the answer's header
\* and nothing else to do.
SockInv(x) ==
  /\ x.op # "none" \/ x.stage # "none" \/ x.result # None => x.used
  /\ x.stage = "dying" => x.op = "keep_alive"
  /\ x.op = "keep_alive" => x.stage \in {"none", "dying"}
  /\ x.op \notin {"none", "keep_alive"} => x.stage \in {"none", "ready"}
  /\ x.writes = IF x.op = "write" THEN 1 ELSE 0
  /\ x.ready => x.op = "none"
  /\ x.op \in {"write", "connect1"} \cup Reads => x.result # None
  /\ x.alive => /\ ~x.ready /\ x.op \in {"none", "read_content", "keep_alive"}
                /\ x.op = "none" => x.result = None
  /\ x.op \in Reads /\ x.comp = "ok" => x.link = "open"
  /\ x.other # None => x.stage \in {"taking"} \cup Moving \/ x.op = "keep_alive"
  /\ x.stage \in {"made", "taking"} =>
       /\ x.op = "none" /\ ~x.ready /\ ~x.alive /\ x.link = "closed"
       /\ x.rest # <<>>
  /\ x.op = "connect2" => ~x.alive /\ x.rest # <<>>
  /\ x.stage \in Moving =>
       /\ x.op = "none" /\ x.result # None /\ x.link = "open"
       /\ ~x.ready /\ ~x.alive

\* All sockets.
Sockets(f) ==
  /\ f \in [Socks -> Socket]
  /\ \A t \in Socks : SockInv(f[t])

-----------------------------------------------------------------------------
(***************************************************************************)
(* Who refers to whom.                                                     *)
(***************************************************************************)

\* A socket that has not been given a request yet.
Fresh(x) ==
  /\ x.used /\ x.result = None /\ ~x.alive
  /\ x.op \in {"none", "connect2"}
  /\ x.stage \in {"none", "made", "taking", "ready"}

\* A socket that waits for the connection of a kept one.
Target(x) ==
  /\ x.used /\ x.op = "none" /\ x.stage = "none"
  /\ ~x.ready /\ ~x.alive /\ x.link = "closed" /\ x.other = None

Held == {"connect", "start", "write"}

\* connect() and on_move() each give the socket they have made its request, and
\* nobody else does.
Callers ==
  /\ \A r \in Reqs : pc[r] # "idle" => host[r] \in Hosts
  /\ \A r \in Reqs : pc[r] \in Held => sock[r] \in Socks
  /\ \A r \in Reqs : sock[r] # None => pc[r] \in Held
  /\ \A r \in Reqs : pc[r] \in {"connect", "start"} => Fresh(so[sock[r]])
  /\ \A r \in Reqs : pc[r] = "write" => so[sock[r]].used /\ ~Kept(sock[r])
  /\ \A r, q \in Reqs : r # q /\ sock[r] # None => sock[r] # sock[q]

Movers ==
  /\ \A m \in Socks : so[m].stage \in Moving =>
        /\ so[m].other \in Socks /\ Fresh(so[so[m].other])
        /\ \A r \in Reqs : sock[r] # so[m].other
  /\ \A m, n \in Socks : m # n /\ so[m].stage \in Moving /\ so[n].stage \in Moving
                            => so[m].other # so[n].other

\* A kept connection goes to one socket, which waits for it.
Keepers ==
  /\ \A k \in Socks : Kept(k) /\ so[k].other # None => Target(so[so[k].other])
  /\ \A k, l \in Socks : k # l /\ Kept(k) /\ Kept(l) /\ so[k].other # None
                            => so[k].other # so[l].other

-----------------------------------------------------------------------------
(***************************************************************************)
(* Who may still call a request back.                                      *)
(***************************************************************************)

\* A socket that has moved its request to another one: it waits for its timer.
Forwarded(x) ==
  /\ x.used /\ x.result # None /\ x.link = "open"
  /\ x.op = "none" /\ x.stage = "none" /\ ~x.ready

Active(x) == x.result # None /\ ~Forwarded(x)

Holders ==
  /\ \A s \in Socks : so[s].result # None => pc[so[s].result] \in {"write", "done"}
  /\ \A s, t \in Socks : s # t /\ Active(so[s]) /\ Active(so[t])
                            => so[s].result # so[t].result
  /\ \A r \in Reqs : answer[r] # <<>> =>
        /\ pc[r] \in {"write", "done"}
        /\ \A s \in Socks : Active(so[s]) => so[s].result # r

\* The part of the invariant that does not count.
Struct ==
  /\ BaseTypes /\ Sockets(so)
  /\ Callers /\ Movers /\ Keepers
  /\ Holders /\ CalledOnce

\* The inductive invariant: what the sockets and requests are to each other, and
\* with it the books of the pool.
IInv == Struct /\ CountExact /\ Capacity /\ WakeUpOwed

-----------------------------------------------------------------------------
(***************************************************************************)
(* Handlers that concern one socket only.                                  *)
(***************************************************************************)

\* What a handler of one socket may do to it without anybody else noticing, but
\* for reuse_ of a kept socket ...
Tame(x, y) ==
  /\ x.used <=> y.used
  /\ x.op = "keep_alive" <=> y.op = "keep_alive"
  /\ x.stage \in Moving <=> y.stage \in Moving
  /\ x.stage \in Moving => y.other = x.other
  /\ Fresh(x) => Fresh(y)
  /\ Target(x) => Target(y)
  /\ y.result \in {x.result, None}
  /\ Forwarded(x) => Forwarded(y)

\* ... and including it.
Mild(x, y) == Tame(x, y) /\ (x.op = "keep_alive" => y.other = x.other)

\* A socket that stays as it is.
LEMMA MildSame == \A x : Mild(x, x)
BY DEF Mild, Tame

\* async_write() adds a write only where there is none.
LEMMA WriteType ==
  ASSUME NEW x \in Socket, SockInv(x)
  PROVE  Write(x) \in Socket
<1>1. CASE x.result # None /\ x.ready
  <2>1. x.writes = 0
    BY <1>1 DEF SockInv
  <2>2. Write(x) = [x EXCEPT !.ready = FALSE, !.op = "write", !.comp = "pending",
                             !.writes = 1]
    BY <1>1, <2>1 DEF Write
  <2>3. \A w \in 0..2 :
          [x EXCEPT !.ready = FALSE, !.op = "write", !.comp = "pending",
                    !.writes = w] \in Socket
    BY DEF Socket, Ops
  <2>4. 1 \in 0..2
    OBVIOUS
  <2> QED
    BY <2>2, <2>3, <2>4
<1>2. CASE ~(x.result # None /\ x.ready)
  BY <1>2 DEF Write
<1> QED
  BY <1>1, <1>2

\* The fields of the socket on which async_write() was called.
LEMMA WriteFields ==
  ASSUME NEW x \in Socket, SockInv(x)
  PROVE  /\ SockInv(Write(x))
         /\ Write(x).used = x.used /\ Write(x).result = x.result
         /\ Write(x).stage = x.stage /\ Write(x).alive = x.alive
         /\ Write(x).link = x.link /\ Write(x).other = x.other
         /\ x.result = None \/ ~x.ready => Write(x) = x
         /\ Write(x).op \in {x.op, "write"}
         /\ x.op = "keep_alive" => Write(x) = x
<1>1. CASE x.result # None /\ x.ready
  <2> DEFINE y == Write(x)
  <2>1. x.op = "none" /\ x.writes = 0 /\ x.stage \in Stages
    BY <1>1 DEF SockInv, Socket
  <2>2. y = [x EXCEPT !.ready = FALSE, !.op = "write", !.comp = "pending", !.writes = 1]
    BY <1>1, <2>1 DEF Write
  <2>3. /\ y.op = "write" /\ y.writes = 1 /\ ~y.ready /\ y.comp = "pending"
        /\ y.used = x.used /\ y.stage = x.stage /\ y.link = x.link
        /\ y.result = x.result /\ y.alive = x.alive /\ y.other = x.other
        /\ y.rest = x.rest
    BY <2>2 DEF Socket
  <2> HIDE DEF y
  <2>4. SockInv(y)
    BY <1>1, <2>1, <2>3 DEF SockInv, Reads, Moving, Stages
  <2> QED
    BY <1>1, <2>1, <2>3, <2>4 DEF y
<1>2. CASE ~(x.result # None /\ x.ready)
  BY <1>2 DEF Write
<1> QED
  BY <1>1, <1>2

\* The fields of a socket are what Socket says.
LEMMA SocketFields ==
  ASSUME NEW x \in Socket
  PROVE  /\ x.stage \in Stages /\ x.op \in Ops /\ x.comp \in {"pending", "ok", "error"}
         /\ x.writes \in 0..2 /\ x.rest \in Seq(Eps) /\ x.result \in Reqs \cup {None}
         /\ x.retry \in 0..MaxRetry /\ x.other \in Socks \cup {None}
         /\ x.timer \in {"off", "armed", "due", "aborted"}
         /\ x.link \in {"closed", "open", "peer_closed"}
         /\ x.used \in BOOLEAN /\ x.ready \in BOOLEAN /\ x.alive \in BOOLEAN
BY DEF Socket

\* More than one address: there is one left after the first.
LEMMA RestAfterTail ==
  ASSUME NEW q \in Seq(Eps), Len(q) > 1
  PROVE  Tail(q) \in Seq(Eps) /\ Tail(q) # <<>>
<1>1. q # <<>>
  OBVIOUS
<1>2. Tail(q) \in Seq(Eps) /\ Len(Tail(q)) = Len(q) - 1
  BY <1>1, HeadTailProperties
<1>3. Len(q) \in Nat
  OBVIOUS
<1>4. Len(Tail(q)) # 0
  BY <1>2, <1>3
<1>5. ASSUME Tail(q) = <<>> PROVE FALSE
  BY <1>4, <1>5
<1> QED
  BY <1>2, <1>5

\* A socket whose request is over keeps nothing but its connection.
LEMMA FinishFields ==
  ASSUME NEW x \in Socket, SockInv(x), x.op \notin {"none", "keep_alive"},
         NEW y \in Socket, y.op = "none", y.result = None, y.writes = 0,
         y.used = x.used, y.stage = x.stage, y.other = x.other, y.alive = x.alive,
         y.alive => ~y.ready
  PROVE  SockInv(y) /\ Mild(x, y)
<1>1. x.stage \in {"none", "ready"} /\ x.used /\ x.other = None
  BY DEF SockInv, Moving
<1>2. SockInv(y)
  BY <1>1 DEF SockInv, Moving, Reads
<1>3. Mild(x, y)
  BY <1>1 DEF Mild, Tame, Moving, Fresh, Target, Forwarded
<1> QED
  BY <1>2, <1>3

\* A socket goes on with the next operation of a request it has.
LEMMA ContinueFields ==
  ASSUME NEW x \in Socket, SockInv(x), x.op \in {"write", "read_1", "read_header"},
         NEW y \in Socket, y.op \in {"read_1", "read_header", "read_content", "connect1"},
         y.comp = "pending", y.writes = 0, y.ready = x.ready,
         y.used = x.used, y.stage = x.stage, y.other = x.other, y.result = x.result,
         y.alive => y.op = "read_content"
  PROVE  SockInv(y) /\ Mild(x, y)
<1>1. x.stage \in {"none", "ready"} /\ x.used /\ x.other = None /\ ~x.ready
      /\ x.result # None
  BY DEF SockInv, Moving, Reads
<1>2. SockInv(y)
  BY <1>1 DEF SockInv, Moving, Reads
<1>3. Mild(x, y)
  BY <1>1 DEF Mild, Tame, Moving, Fresh, Target, Forwarded
<1> QED
  BY <1>2, <1>3

\* A handler that changes its own socket in such a way disturbs no other.
LEMMA OneSocket ==
  ASSUME Sockets(so), NEW s \in Socks, NEW y \in Socket, SockInv(y), Mild(so[s], y),
         so' = [so EXCEPT ![s] = y]
  PROVE  Sockets(so') /\ \A t \in Socks : Mild(so[t], so'[t])
<1>1. so'[s] = y /\ \A t \in Socks : t # s => so'[t] = so[t]
  BY DEF Sockets
<1>2. so' \in [Socks -> Socket]
  BY DEF Sockets
<1> QED
  BY <1>1, <1>2, MildSame DEF Sockets

\* A step that concerns one socket, and perhaps calls its request back.
Quiet ==
  /\ Sockets(so') /\ \A t \in Socks : Mild(so[t], so'[t])
  /\ UNCHANGED <<pc, host, sock, count, keep, owed, leaked>>
  /\ \/ answer' = answer
     \/ \E s \in Socks, o \in Outcomes :
          /\ Active(so[s]) /\ so'[s].result = None
          /\ answer' = [answer EXCEPT ![so[s].result] = Append(@, o)]

\* Finish ends the request of a socket with an operation outstanding.
LEMMA FinishQuiet ==
  ASSUME Sockets(so), NEW s \in Socks, so[s].op \notin {"none", "keep_alive"},
         NEW x \in Socket, x.used = so[s].used, x.stage = so[s].stage,
         x.other = so[s].other, x.alive = so[s].alive, x.writes = 0,
         x.result = so[s].result, x.alive => ~x.ready,
         NEW o \in Outcomes, Finish(s, x, o),
         UNCHANGED <<pc, host, sock, count, keep, owed, leaked>>
  PROVE  Quiet
<1> DEFINE y == [x EXCEPT !.op = "none", !.comp = "pending",
                          !.result = None, !.timer = CancelTimer(@)]
<1>1. y \in Socket
  <2>1. CancelTimer(x.timer) \in {"off", "armed", "due", "aborted"}
    BY SocketFields DEF CancelTimer
  <2>2. \A d \in {"off", "armed", "due", "aborted"} :
           [x EXCEPT !.op = "none", !.comp = "pending", !.result = None,
                     !.timer = d] \in Socket
    BY DEF Socket, Ops
  <2> QED
    BY <2>1, <2>2
<1>2. /\ y.op = "none" /\ y.result = None /\ y.writes = 0
      /\ y.used = x.used /\ y.stage = x.stage /\ y.other = x.other /\ y.alive = x.alive
      /\ y.ready = x.ready
  BY DEF Socket
<1>3. so' = [so EXCEPT ![s] = y]
  BY DEF Finish
<1> HIDE DEF y
<1>4. so[s] \in Socket /\ SockInv(so[s])
  BY DEF Sockets
<1>5. SockInv(y) /\ Mild(so[s], y)
  BY <1>1, <1>2, <1>4, FinishFields
<1>6. Sockets(so') /\ \A t \in Socks : Mild(so[t], so'[t])
  BY <1>1, <1>3, <1>5, OneSocket
<1>7. CASE x.result = None
  BY <1>6, <1>7 DEF Finish, Quiet
<1>8. CASE x.result # None
  <2>1. Active(so[s])
    BY <1>8 DEF Active, Forwarded
  <2>2. so'[s].result = None
    BY <1>2, <1>3 DEF Sockets
  <2>3. answer' = [answer EXCEPT ![so[s].result] = Append(@, o)]
    BY <1>8 DEF Finish
  <2> QED
    BY <1>6, <2>1, <2>2, <2>3 DEF Quiet
<1> QED
  BY <1>7, <1>8

\* Continue goes on with the next operation.
LEMMA ContinueQuiet ==
  ASSUME Sockets(so), NEW s \in Socks, so[s].op \in {"write", "read_1", "read_header"},
         NEW x \in Socket, x.used = so[s].used, x.stage = so[s].stage,
         x.other = so[s].other, x.result = so[s].result, x.ready = so[s].ready,
         x.writes = 0,
         NEW op \in {"read_1", "read_header", "read_content", "connect1"},
         x.alive => op = "read_content", Continue(s, x, op),
         UNCHANGED <<pc, host, sock, count, keep, owed, leaked>>
  PROVE  Quiet
<1> DEFINE y == [x EXCEPT !.op = op, !.comp = "pending"]
<1>1. y \in Socket
  BY DEF Socket, Ops
<1>2. /\ y.op = op /\ y.comp = "pending" /\ y.writes = 0 /\ y.ready = x.ready
      /\ y.used = x.used /\ y.stage = x.stage /\ y.other = x.other
      /\ y.result = x.result /\ y.alive = x.alive
  BY DEF Socket
<1>3. so' = [so EXCEPT ![s] = y]
  BY DEF Continue
<1> HIDE DEF y
<1>4. so[s] \in Socket /\ SockInv(so[s])
  BY DEF Sockets
<1>5. SockInv(y) /\ Mild(so[s], y)
  BY <1>1, <1>2, <1>4, ContinueFields
<1>6. Sockets(so') /\ \A t \in Socks : Mild(so[t], so'[t])
  BY <1>1, <1>3, <1>5, OneSocket
<1> QED
  BY <1>6 DEF Continue, Quiet

\* Retry reconnects, or ends the request.
LEMMA RetryQuiet ==
  ASSUME Sockets(so), NEW s \in Socks, so[s].op \in {"write", "read_1"},
         NEW x \in Socket, x.used = so[s].used, x.stage = so[s].stage,
         x.other = so[s].other, x.result = so[s].result, x.ready = so[s].ready,
         x.alive = so[s].alive, x.writes = 0, Retry(s, x),
         UNCHANGED <<pc, host, sock, count, keep, owed, leaked>>
  PROVE  Quiet
<1>1. CASE x.retry > 0
  <2> DEFINE z == [x EXCEPT !.retry = @ - 1, !.link = "closed", !.stale = FALSE]
  <2>1. x.retry - 1 \in 0..MaxRetry
    BY <1>1, SocketFields, HttpAssumption DEF HttpAssumption
  <2>2. \A w \in 0..MaxRetry :
           [x EXCEPT !.retry = w, !.link = "closed", !.stale = FALSE] \in Socket
    BY DEF Socket
  <2>3. z \in Socket
    BY <2>1, <2>2
  <2>4. /\ z.used = x.used /\ z.stage = x.stage /\ z.other = x.other
        /\ z.result = x.result /\ z.ready = x.ready /\ z.alive = x.alive
        /\ z.writes = x.writes
    BY DEF Socket
  <2>5. Continue(s, z, "connect1")
    BY <1>1 DEF Retry
  <2>6. ~so[s].alive
    BY DEF Sockets, SockInv
  <2> HIDE DEF z
  <2> QED
    BY <2>3, <2>4, <2>5, <2>6, ContinueQuiet
<1>2. CASE ~(x.retry > 0)
  <2>1. Finish(s, x, "error") /\ "error" \in Outcomes
    BY <1>2 DEF Retry, Outcomes
  <2>2. x.alive => ~x.ready
    BY DEF Sockets, SockInv
  <2> QED
    BY <2>1, <2>2, FinishQuiet
<1> QED
  BY <1>1, <1>2

\* The network, the peer and the clock concern one socket each.
LEMMA NetworkQuiet ==
  ASSUME Sockets(so), NEW s \in Socks
  PROVE  /\ \A result \in {"ok", "error"} : Complete(s, result) => Quiet
         /\ KeptReadable(s) => Quiet
         /\ TimerDue(s) => Quiet
<1>0. so[s] \in Socket /\ SockInv(so[s])
  BY DEF Sockets
<1>1. ASSUME NEW result \in {"ok", "error"}, Complete(s, result) PROVE Quiet
  <2> DEFINE x == so[s]
             l == IF result = "ok" /\ x.op \in {"connect1", "connect2"} THEN "open"
                  ELSE IF result = "error" /\ x.link = "open"
                  THEN "peer_closed" ELSE x.link
             y == [x EXCEPT !.comp = result, !.link = l]
  <2>1. l \in {"closed", "open", "peer_closed"}
    BY <1>0, SocketFields
  <2>2. \A k \in {"closed", "open", "peer_closed"} :
           [x EXCEPT !.comp = result, !.link = k] \in Socket
    BY <1>0 DEF Socket
  <2>3. y \in Socket
    BY <2>1, <2>2
  <2>4. /\ y.used = x.used /\ y.stage = x.stage /\ y.op = x.op /\ y.writes = x.writes
        /\ y.ready = x.ready /\ y.result = x.result /\ y.alive = x.alive
        /\ y.other = x.other /\ y.rest = x.rest /\ y.comp = result /\ y.link = l
    BY <1>0 DEF Socket
  <2>5. so' = [so EXCEPT ![s] = y]
    BY <1>1 DEF Complete, Sockets, Socket
  <2>6. /\ x.op \in {"connect1", "connect2", "write"} \cup Reads
        /\ x.op \in Reads /\ result = "ok" => x.link = "open"
    BY <1>1 DEF Complete, MayComplete, Reads
  <2>7. x.op \in Reads /\ result = "ok" => l = "open"
    BY <2>6 DEF Reads
  <2>8. x \in Socket /\ SockInv(x)
    BY <1>0
  <2> HIDE DEF x, y, l
  <2>9. x.stage \in {"none", "ready"}
    BY <2>6, <2>8 DEF SockInv, Reads
  <2>10. SockInv(y)
    BY <2>4, <2>6, <2>7, <2>8, <2>9 DEF SockInv, Moving
  <2>11. Mild(x, y)
    BY <2>4, <2>6, <2>9 DEF Mild, Tame, Moving, Fresh, Target, Forwarded, Reads
  <2>12. Sockets(so') /\ \A t \in Socks : Mild(so[t], so'[t])
    BY <2>3, <2>5, <2>10, <2>11, OneSocket DEF x
  <2> QED
    BY <1>1, <2>12 DEF Complete, Quiet
<1>2. ASSUME KeptReadable(s) PROVE Quiet
  <2> DEFINE x == so[s]
  <2>1. PICK c \in {"ok", "error"}, l \in {"closed", "open", "peer_closed"} :
           so' = [so EXCEPT ![s] = [x EXCEPT !.comp = c, !.link = l]]
    <3>1. CASE so' = [so EXCEPT ![s].comp = "error", ![s].link = "peer_closed"]
      BY <3>1 DEF Sockets, Socket
    <3>2. CASE so' = [so EXCEPT ![s].comp = "ok"]
      <4>1. [x EXCEPT !.comp = "ok"] = [x EXCEPT !.comp = "ok", !.link = x.link]
        BY <1>0 DEF Socket
      <4>2. so' = [so EXCEPT ![s] = [x EXCEPT !.comp = "ok", !.link = x.link]]
        BY <3>2, <4>1 DEF Sockets
      <4> QED
        BY <1>0, <4>2, SocketFields
    <3> QED
      BY <1>2, <3>1, <3>2 DEF KeptReadable
  <2> DEFINE y == [x EXCEPT !.comp = c, !.link = l]
  <2>2. y \in Socket
    BY <1>0 DEF Socket
  <2>3. /\ y.used = x.used /\ y.stage = x.stage /\ y.op = x.op /\ y.writes = x.writes
        /\ y.ready = x.ready /\ y.result = x.result /\ y.alive = x.alive
        /\ y.other = x.other /\ y.rest = x.rest
    BY <1>0 DEF Socket
  <2>4. x \in Socket /\ SockInv(x) /\ x.op = "keep_alive"
    BY <1>0, <1>2 DEF KeptReadable
  <2>5. so' = [so EXCEPT ![s] = y]
    BY <2>1
  <2> HIDE DEF x, y
  <2>6. SockInv(y)
    BY <2>3, <2>4 DEF SockInv, Moving, Reads
  <2>7. Mild(x, y)
    BY <2>3, <2>4 DEF Mild, Tame, Fresh, Target, Forwarded
  <2>8. Sockets(so') /\ \A t \in Socks : Mild(so[t], so'[t])
    BY <2>2, <2>5, <2>6, <2>7, OneSocket DEF x
  <2> QED
    BY <1>2, <2>8 DEF KeptReadable, Quiet
<1>3. ASSUME TimerDue(s) PROVE Quiet
  <2> DEFINE x == so[s]
             y == [x EXCEPT !.timer = "due"]
  <2>1. y \in Socket
    BY <1>0 DEF Socket
  <2>2. /\ y.used = x.used /\ y.stage = x.stage /\ y.op = x.op /\ y.writes = x.writes
        /\ y.ready = x.ready /\ y.result = x.result /\ y.alive = x.alive
        /\ y.other = x.other /\ y.rest = x.rest /\ y.comp = x.comp /\ y.link = x.link
    BY <1>0 DEF Socket
  <2>3. so' = [so EXCEPT ![s] = y]
    BY <1>3 DEF TimerDue, Sockets
  <2> HIDE DEF y
  <2>4. SockInv(y) /\ Mild(x, y)
    BY <1>0, <2>2 DEF SockInv, Mild, Tame, Fresh, Target, Forwarded
  <2>5. Sockets(so') /\ \A t \in Socks : Mild(so[t], so'[t])
    BY <2>1, <2>3, <2>4, OneSocket
  <2> QED
    BY <1>3, <2>5 DEF TimerDue, Quiet
<1> QED
  BY <1>1, <1>2, <1>3

\* The handlers that read the answer, write the request and follow the connect.
LEMMA HandlerQuiet ==
  ASSUME Sockets(so), NEW s \in Socks
  PROVE  /\ \A op \in {"connect1", "connect2"} : OnConnect(s, op) => Quiet
         /\ Ready(s) => Quiet
         /\ OnWrite(s) => Quiet
         /\ OnRead1(s) => Quiet
         /\ OnReadHeader(s) => Quiet
         /\ OnReadContent(s) => Quiet
         /\ OnWait(s) => Quiet
<1> DEFINE x == so[s]
<1>0. x \in Socket /\ SockInv(x)
  BY DEF Sockets
<1>1. ASSUME NEW op \in {"connect1", "connect2"}, OnConnect(s, op) PROVE Quiet
  <2>0. x.op = op
    BY <1>1 DEF OnConnect, Completed
  <2>1. CASE /\ so' = [so EXCEPT ![s] = [x EXCEPT !.ready = TRUE, !.stage = "ready",
                                                  !.op = "none", !.comp = "pending"]]
             /\ answer' = answer
    <3> DEFINE y == [x EXCEPT !.ready = TRUE, !.stage = "ready",
                              !.op = "none", !.comp = "pending"]
    <3>1. y \in Socket
      BY <1>0 DEF Socket, Ops, Stages
    <3>2. /\ y.used = x.used /\ y.stage = "ready" /\ y.op = "none" /\ y.writes = x.writes
          /\ y.ready /\ y.result = x.result /\ y.alive = x.alive
          /\ y.other = x.other /\ y.rest = x.rest
      BY <1>0 DEF Socket
    <3>3. so' = [so EXCEPT ![s] = y]
      BY <2>1
    <3> HIDE DEF x, y
    <3>4. SockInv(y)
      BY <1>0, <2>0, <3>2 DEF SockInv, Moving, Reads
    <3>5. Mild(x, y)
      BY <1>0, <2>0, <3>2 DEF SockInv, Mild, Tame, Moving, Fresh, Target, Forwarded
    <3>6. Sockets(so') /\ \A t \in Socks : Mild(so[t], so'[t])
      BY <3>1, <3>3, <3>4, <3>5, OneSocket DEF x
    <3> QED
      BY <1>1, <2>1, <3>6 DEF OnConnect, Quiet
  <2>2. CASE Finish(s, [x EXCEPT !.ready = TRUE, !.link = "closed"], "error")
    <3> DEFINE z == [x EXCEPT !.ready = TRUE, !.link = "closed"]
    <3>1. z \in Socket
      BY <1>0 DEF Socket
    <3>2. /\ z.used = x.used /\ z.stage = x.stage /\ z.other = x.other
          /\ z.alive = x.alive /\ z.writes = x.writes /\ z.result = x.result
      BY <1>0 DEF Socket
    <3>3. x.writes = 0 /\ ~x.alive
      BY <1>0, <2>0 DEF SockInv
    <3>4. Finish(s, z, "error") /\ "error" \in Outcomes
      BY <2>2 DEF Outcomes
    <3>5. x.op \notin {"none", "keep_alive"}
      BY <2>0
    <3>6. UNCHANGED <<pc, host, sock, count, keep, owed, leaked>>
      BY <1>1 DEF OnConnect
    <3> HIDE DEF z
    <3> QED
      BY <3>1, <3>2, <3>3, <3>4, <3>5, <3>6, FinishQuiet
  <2>3. CASE /\ op = "connect2" /\ Len(x.rest) > 1
             /\ Continue(s, [x EXCEPT !.stage = "made", !.rest = Tail(@),
                                      !.link = "closed"], "none")
    <3> DEFINE y == [x EXCEPT !.stage = "made", !.rest = Tail(@), !.link = "closed",
                              !.op = "none", !.comp = "pending"]
    <3>1. Tail(x.rest) \in Seq(Eps) /\ Tail(x.rest) # <<>>
      BY <1>0, <2>3, SocketFields, RestAfterTail
    <3>2. y \in Socket
      <4>1. "made" \in Stages /\ "none" \in Ops
        BY DEF Stages, Ops
      <4>2. ASSUME NEW q, q \in Seq(Eps)
            PROVE  [x EXCEPT !.stage = "made", !.rest = q, !.link = "closed",
                             !.op = "none", !.comp = "pending"] \in Socket
        BY <1>0, <4>1, <4>2 DEF Socket
      <4> QED
        BY <3>1, <4>2
    <3>3. /\ y.used = x.used /\ y.stage = "made" /\ y.op = "none" /\ y.writes = x.writes
          /\ y.ready = x.ready /\ y.result = x.result /\ y.alive = x.alive
          /\ y.other = x.other /\ y.rest = Tail(x.rest) /\ y.link = "closed"
      BY <1>0 DEF Socket
    <3>4. so' = [so EXCEPT ![s] = y]
      BY <2>3 DEF Continue
    <3> HIDE DEF x, y
    <3>5. SockInv(y)
      BY <1>0, <2>0, <2>3, <3>1, <3>3 DEF SockInv, Moving, Reads
    <3>6. Mild(x, y)
      BY <1>0, <2>0, <2>3, <3>3 DEF SockInv, Mild, Tame, Moving, Fresh, Target, Forwarded
    <3>7. Sockets(so') /\ \A t \in Socks : Mild(so[t], so'[t])
      BY <3>2, <3>4, <3>5, <3>6, OneSocket DEF x
    <3> QED
      BY <1>1, <2>3, <3>7 DEF OnConnect, Continue, Quiet
  <2> QED
    BY <1>1, <2>1, <2>2, <2>3 DEF OnConnect
<1>2. ASSUME Ready(s) PROVE Quiet
  <2> DEFINE w == Write(x)
             y == [w EXCEPT !.stage = "none"]
  <2>1. /\ w \in Socket /\ SockInv(w) /\ w.used = x.used /\ w.result = x.result
        /\ w.stage = x.stage /\ w.alive = x.alive /\ w.link = x.link /\ w.other = x.other
        /\ x.result = None => w = x
        /\ w.op \in {x.op, "write"}
    BY <1>0, WriteType, WriteFields
  <2>2. x.stage = "ready"
    BY <1>2 DEF Ready
  <2>3. so' = [so EXCEPT ![s] = y]
    BY <1>2 DEF Ready
  <2> HIDE DEF w
  <2>4. y \in Socket
    BY <2>1 DEF Socket, Stages
  <2>5. /\ y.used = w.used /\ y.stage = "none" /\ y.op = w.op /\ y.writes = w.writes
        /\ y.ready = w.ready /\ y.result = w.result /\ y.alive = w.alive
        /\ y.other = w.other /\ y.rest = w.rest /\ y.comp = w.comp /\ y.link = w.link
    BY <2>1 DEF Socket
  <2> HIDE DEF y, x
  <2>6. x.op # "keep_alive" /\ x.other = None /\ x.used
    BY <1>0, <2>2 DEF SockInv, Moving
  <2>7. SockInv(y)
    BY <2>1, <2>2, <2>5, <2>6 DEF SockInv, Moving
  <2>8. Mild(x, y)
    BY <2>1, <2>2, <2>5, <2>6 DEF Mild, Tame, Moving, Fresh, Target, Forwarded
  <2>9. Sockets(so') /\ \A t \in Socks : Mild(so[t], so'[t])
    BY <2>3, <2>4, <2>7, <2>8, OneSocket DEF x
  <2> QED
    BY <1>2, <2>9 DEF Ready, Quiet
<1>3. ASSUME OnWrite(s) PROVE Quiet
  <2> DEFINE z == [x EXCEPT !.writes = @ - 1]
  <2>1. x.op = "write" /\ x.writes = 1
    BY <1>0, <1>3 DEF OnWrite, Completed, SockInv
  <2>2. x.writes - 1 = 0 /\ x.writes - 1 \in 0..2
    BY <2>1
  <2>3. \A w \in 0..2 : [x EXCEPT !.writes = w] \in Socket
    BY <1>0 DEF Socket
  <2>4. z \in Socket
    BY <2>2, <2>3
  <2>5. /\ z.used = x.used /\ z.stage = x.stage /\ z.other = x.other
        /\ z.result = x.result /\ z.ready = x.ready /\ z.alive = x.alive
        /\ z.writes = 0
    BY <1>0, <2>2 DEF Socket
  <2>6. ~x.alive
    BY <1>0, <2>1 DEF SockInv
  <2>7. UNCHANGED <<pc, host, sock, count, keep, owed, leaked>>
    BY <1>3 DEF OnWrite
  <2>8. Continue(s, z, "read_1") \/ Retry(s, z)
    BY <1>3 DEF OnWrite
  <2> HIDE DEF z
  <2> QED
    BY <2>1, <2>4, <2>5, <2>6, <2>7, <2>8, ContinueQuiet, RetryQuiet
<1>4. ASSUME OnRead1(s) PROVE Quiet
  <2>1. x.op = "read_1" /\ x.writes = 0 /\ ~x.alive
    BY <1>0, <1>4 DEF OnRead1, Completed, SockInv
  <2>2. UNCHANGED <<pc, host, sock, count, keep, owed, leaked>>
    BY <1>4 DEF OnRead1
  <2>3. Continue(s, x, "read_header") \/ Retry(s, x)
    BY <1>4 DEF OnRead1
  <2> QED
    BY <1>0, <2>1, <2>2, <2>3, ContinueQuiet, RetryQuiet
<1>5. ASSUME OnReadHeader(s) PROVE Quiet
  <2>1. x.op = "read_header" /\ x.writes = 0 /\ ~x.ready
    BY <1>0, <1>5 DEF OnReadHeader, Completed, SockInv
  <2>2. UNCHANGED <<pc, host, sock, count, keep, owed, leaked>>
    BY <1>5 DEF OnReadHeader
  <2>3. CASE Finish(s, x, "error") \/ Finish(s, x, "garbled")
    BY <1>0, <2>1, <2>2, <2>3, FinishQuiet DEF Outcomes
  <2>4. ASSUME NEW alive \in BOOLEAN,
               Continue(s, [x EXCEPT !.alive = alive], "read_content")
        PROVE  Quiet
    <3> DEFINE z == [x EXCEPT !.alive = alive]
    <3>1. z \in Socket
      BY <1>0 DEF Socket
    <3>2. /\ z.used = x.used /\ z.stage = x.stage /\ z.other = x.other
          /\ z.result = x.result /\ z.ready = x.ready /\ z.writes = x.writes
      BY <1>0 DEF Socket
    <3>3. Continue(s, z, "read_content")
      BY <2>4
    <3> HIDE DEF z
    <3> QED
      BY <2>1, <2>2, <3>1, <3>2, <3>3, ContinueQuiet
  <2> QED
    BY <1>5, <2>3, <2>4 DEF OnReadHeader
<1>6. ASSUME OnReadContent(s) PROVE Quiet
  <2>1. x.op = "read_content" /\ x.writes = 0 /\ ~x.ready
    BY <1>0, <1>6 DEF OnReadContent, Completed, SockInv
  <2>2. UNCHANGED <<pc, host, sock, count, keep, owed, leaked>>
    BY <1>6 DEF OnReadContent
  <2>3. ASSUME NEW stale \in BOOLEAN, NEW o \in Outcomes,
               Finish(s, [x EXCEPT !.stale = stale], o)
        PROVE  Quiet
    <3> DEFINE z == [x EXCEPT !.stale = stale]
    <3>1. z \in Socket
      BY <1>0 DEF Socket
    <3>2. /\ z.used = x.used /\ z.stage = x.stage /\ z.other = x.other
          /\ z.result = x.result /\ z.alive = x.alive /\ z.writes = x.writes
          /\ z.ready = x.ready
      BY <1>0 DEF Socket
    <3>3. Finish(s, z, o)
      BY <2>3
    <3> HIDE DEF z
    <3> QED
      BY <2>1, <2>2, <3>1, <3>2, <3>3, FinishQuiet
  <2> QED
    BY <1>6, <2>3 DEF OnReadContent, Outcomes
<1>7. ASSUME OnWait(s) PROVE Quiet
  <2> DEFINE c == IF x.timer = "due" /\ x.op # "none" /\ x.comp = "pending"
                  THEN "error" ELSE x.comp
             y == [x EXCEPT !.timer = "off", !.comp = c]
  <2>1. c \in {"pending", "ok", "error"} /\ (c = "ok" => x.comp = "ok")
    BY <1>0, SocketFields
  <2>2. y \in Socket
    <3>1. \A d \in {"pending", "ok", "error"} :
             [x EXCEPT !.timer = "off", !.comp = d] \in Socket
      BY <1>0 DEF Socket
    <3> QED
      BY <2>1, <3>1
  <2>3. /\ y.used = x.used /\ y.stage = x.stage /\ y.op = x.op /\ y.writes = x.writes
        /\ y.ready = x.ready /\ y.result = x.result /\ y.alive = x.alive
        /\ y.other = x.other /\ y.rest = x.rest /\ y.comp = c /\ y.link = x.link
    BY <1>0 DEF Socket
  <2>4. so' = [so EXCEPT ![s] = y]
    BY <1>0, <1>7 DEF OnWait, Sockets, Socket
  <2> HIDE DEF c, y, x
  <2>5. SockInv(y) /\ Mild(x, y)
    BY <1>0, <2>1, <2>3 DEF SockInv, Mild, Tame, Fresh, Target, Forwarded
  <2>6. Sockets(so') /\ \A t \in Socks : Mild(so[t], so'[t])
    BY <2>2, <2>4, <2>5, OneSocket DEF x
  <2> QED
    BY <1>7, <2>6 DEF OnWait, Quiet
<1> QED
  BY <1>1, <1>2, <1>3, <1>4, <1>5, <1>6, <1>7

-----------------------------------------------------------------------------
(***************************************************************************)
(* What such steps keep of the relations between sockets and requests.     *)
(***************************************************************************)

\* A request's thread goes from connect() to start(), or not as far as that.
SameHold(r) ==
  /\ pc'[r] \in {"connect", "start"} <=> pc[r] \in {"connect", "start"}
  /\ pc'[r] = "write" <=> pc[r] = "write"
  /\ pc'[r] = "done" <=> pc[r] = "done"

\* The threads and sockets that have made a socket still refer to it.
LEMMA TameRefs ==
  ASSUME Callers, Movers, Sockets(so), \A t \in Socks : Tame(so[t], so'[t]),
         sock' = sock, \A r \in Reqs : SameHold(r),
         \A r \in Reqs : pc'[r] # "idle" => host'[r] \in Hosts
  PROVE  Callers' /\ Movers'
<1>1. Callers'
  <2>1. \A r \in Reqs : pc'[r] \in Held <=> pc[r] \in Held
    BY DEF SameHold, Held
  <2>2. \A r \in Reqs : pc'[r] \in {"connect", "start"} => Fresh(so'[sock[r]])
    BY DEF Callers, Held, SameHold, Tame
  <2>3. \A r \in Reqs : pc'[r] = "write" => so'[sock[r]].used /\ so'[sock[r]].op # "keep_alive"
    BY DEF Callers, Held, SameHold, Tame, Kept
  <2> QED
    BY <2>1, <2>2, <2>3 DEF Callers, Kept
<1>2. Movers'
  <2>1. \A m \in Socks : so'[m].stage \in Moving =>
           so[m].stage \in Moving /\ so'[m].other = so[m].other
    BY DEF Tame
  <2>2. \A m \in Socks : so'[m].stage \in Moving =>
           so'[m].other \in Socks /\ Fresh(so'[so'[m].other])
    BY <2>1 DEF Movers, Tame
  <2> QED
    BY <2>1, <2>2 DEF Movers
<1> QED
  BY <1>1, <1>2

\* The kept sockets still refer to the same sockets.
LEMMA MildKeepers ==
  ASSUME Keepers, Sockets(so), \A t \in Socks : Mild(so[t], so'[t])
  PROVE  Keepers'
<1>1. \A k \in Socks : so'[k].op = "keep_alive" =>
         so[k].op = "keep_alive" /\ so'[k].other = so[k].other
  BY DEF Mild, Tame
<1>2. \A k \in Socks : so[k].other \in Socks \cup {None}
  BY SocketFields DEF Sockets
<1>3. \A k \in Socks : so'[k].op = "keep_alive" /\ so'[k].other # None =>
         Target(so'[so'[k].other])
  BY <1>1, <1>2 DEF Keepers, Mild, Tame, Kept
<1> QED
  BY <1>1, <1>3 DEF Keepers, Kept

\* Nobody gets a request, and who has moved its request stays so.
LEMMA TameHolders ==
  ASSUME Holders, CalledOnce, \A t \in Socks : Tame(so[t], so'[t]),
         \A r \in Reqs : SameHold(r), answer' = answer, Sockets(so)
  PROVE  Holders' /\ CalledOnce'
<1>1. \A t \in Socks : so'[t].result # None => so'[t].result = so[t].result
  BY DEF Tame
<1>2. \A t \in Socks : Active(so'[t]) => Active(so[t]) /\ so'[t].result = so[t].result
  BY <1>1 DEF Tame, Active
<1>3. \A t \in Socks : so[t].result \in Reqs \cup {None}
  BY SocketFields DEF Sockets
<1>4. \A r \in Reqs : pc'[r] \in {"write", "done"} <=> pc[r] \in {"write", "done"}
  BY DEF SameHold
<1>5. Holders'
  BY <1>1, <1>2, <1>3, <1>4 DEF Holders
<1>6. CalledOnce'
  BY DEF CalledOnce
<1> QED
  BY <1>5, <1>6

\* The socket that calls a request back was the only one that could.
LEMMA AnsweredHolders ==
  ASSUME BaseTypes, Holders, CalledOnce, Sockets(so), Sockets(so'),
         \A t \in Socks : Mild(so[t], so'[t]), pc' = pc,
         NEW s \in Socks, NEW o \in Outcomes, Active(so[s]), so'[s].result = None,
         answer' = [answer EXCEPT ![so[s].result] = Append(@, o)]
  PROVE  Holders' /\ CalledOnce' /\ answer' \in [Reqs -> Seq(Outcomes)]
<1> DEFINE r == so[s].result
<1>1. r \in Reqs
  BY SocketFields DEF Sockets, Active
<1>2. answer[r] = <<>>
  BY <1>1 DEF Holders
<1>3. Append(answer[r], o) \in Seq(Outcomes) /\ Len(Append(answer[r], o)) = 1
  BY <1>2
<1>4. /\ answer' \in [Reqs -> Seq(Outcomes)]
      /\ answer'[r] = Append(answer[r], o)
      /\ \A q \in Reqs : q # r => answer'[q] = answer[q]
  BY <1>1, <1>3 DEF BaseTypes
<1>5. CalledOnce'
  BY <1>1, <1>3, <1>4 DEF CalledOnce
<1>6. \A t \in Socks : so'[t].result # None => so'[t].result = so[t].result
  BY DEF Mild, Tame
<1>7. \A t \in Socks : Active(so'[t]) =>
        Active(so[t]) /\ so'[t].result = so[t].result /\ t # s
  BY <1>6 DEF Mild, Tame, Active
<1>8. \A t \in Socks : so[t].result \in Reqs \cup {None}
  BY SocketFields DEF Sockets
<1>9. \A t \in Socks : Active(so'[t]) => so'[t].result # r
  BY <1>7 DEF Holders
<1>10. pc[r] \in {"write", "done"}
  BY <1>1, <1>8 DEF Holders, Active
<1> HIDE DEF r
<1>11. Holders'
  BY <1>4, <1>6, <1>7, <1>8, <1>9, <1>10 DEF Holders
<1> QED
  BY <1>4, <1>5, <1>11

\* The types of what is not in a socket.
OtherTypes ==
  /\ pc \in [Reqs -> PCs]
  /\ host \in [Reqs -> Hosts \cup {<<>>}]
  /\ sock \in [Reqs -> Socks \cup {None}]
  /\ answer \in [Reqs -> Seq(Outcomes)]
  /\ count \in Int
  /\ keep \subseteq Socks
  /\ owed \in Nat /\ leaked \in Nat

\* The types of the sockets and of the rest, apart.
LEMMA StructParts ==
  Struct <=> /\ OtherTypes /\ Sockets(so)
             /\ Callers /\ Movers /\ Keepers
             /\ Holders /\ CalledOnce
BY DEF Struct, BaseTypes, OtherTypes, Sockets

\* The same after a step.
LEMMA StructPartsNext ==
  Struct' <=> /\ OtherTypes' /\ Sockets(so')
              /\ Callers' /\ Movers' /\ Keepers'
              /\ Holders' /\ CalledOnce'
BY DEF Struct, BaseTypes, OtherTypes, Sockets

\* A step that disturbs no relation and calls nobody back.
LEMMA MildStruct ==
  ASSUME Struct, Sockets(so'), \A t \in Socks : Mild(so[t], so'[t]), OtherTypes',
         sock' = sock, answer' = answer, \A r \in Reqs : SameHold(r),
         \A r \in Reqs : pc'[r] # "idle" => host'[r] \in Hosts
  PROVE  Struct'
<1>1. \A t \in Socks : Tame(so[t], so'[t])
  BY DEF Mild
<1>2. Sockets(so) /\ Callers /\ Movers /\ Keepers /\ Holders /\ CalledOnce
  BY DEF Struct
<1> QED
  BY <1>1, <1>2, TameRefs, MildKeepers, TameHolders, StructPartsNext

\* A step that concerns one socket only.
LEMMA QuietStruct ==
  ASSUME Struct, Quiet
  PROVE  Struct'
<1>1. BaseTypes /\ Sockets(so) /\ Callers /\ Movers /\ Keepers /\ Holders /\ CalledOnce
  BY DEF Struct
<1>2. Sockets(so') /\ \A t \in Socks : Mild(so[t], so'[t])
  BY DEF Quiet
<1>3. /\ pc' = pc /\ host' = host /\ sock' = sock
      /\ count' = count /\ keep' = keep /\ owed' = owed /\ leaked' = leaked
  BY DEF Quiet
<1>4. \A r \in Reqs : SameHold(r)
  BY <1>3 DEF SameHold
<1>5. \A r \in Reqs : pc'[r] # "idle" => host'[r] \in Hosts
  BY <1>1, <1>3 DEF Callers
<1>6. CASE answer' = answer
  <2>1. OtherTypes'
    BY <1>1, <1>3, <1>6 DEF BaseTypes, OtherTypes
  <2> QED
    BY <1>2, <1>3, <1>4, <1>5, <1>6, <2>1, MildStruct
<1>7. ASSUME NEW s \in Socks, NEW o \in Outcomes, Active(so[s]), so'[s].result = None,
             answer' = [answer EXCEPT ![so[s].result] = Append(@, o)]
      PROVE  Struct'
  <2>1. Holders' /\ CalledOnce' /\ answer' \in [Reqs -> Seq(Outcomes)]
    BY <1>1, <1>2, <1>3, <1>7, AnsweredHolders
  <2>2. OtherTypes'
    BY <1>1, <1>3, <2>1 DEF BaseTypes, OtherTypes
  <2>3. \A t \in Socks : Tame(so[t], so'[t])
    BY <1>2 DEF Mild
  <2>4. Callers' /\ Movers' /\ Keepers'
    BY <1>1, <1>2, <1>3, <1>4, <1>5, <2>3, TameRefs, MildKeepers
  <2> QED
    BY <1>2, <2>1, <2>2, <2>4, StructPartsNext
<1> QED
  BY <1>6, <1>7 DEF Quiet

-----------------------------------------------------------------------------
(***************************************************************************)
(* The steps of connect() and of the deleters that touch no socket.        *)
(***************************************************************************)

\* notify_one() changes nothing but where a sleeping request is.
LEMMA NotifyHold ==
  ASSUME OtherTypes, NotifyOne
  PROVE  /\ pc' \in [Reqs -> PCs]
         /\ \A r \in Reqs : SameHold(r)
         /\ \A r \in Reqs : pc'[r] # "idle" => pc[r] # "idle"
         /\ \A r \in Reqs : pc'[r] = "make" <=> pc[r] = "make"
<1>1. CASE pc' = pc
  BY <1>1 DEF OtherTypes, SameHold
<1>2. ASSUME NEW q \in Reqs, pc[q] = "asleep", pc' = [pc EXCEPT ![q] = "lock"]
      PROVE  /\ pc' \in [Reqs -> PCs]
             /\ \A r \in Reqs : SameHold(r)
             /\ \A r \in Reqs : pc'[r] # "idle" => pc[r] # "idle"
             /\ \A r \in Reqs : pc'[r] = "make" <=> pc[r] = "make"
  BY <1>2 DEF OtherTypes, SameHold, PCs
<1> QED
  BY <1>1, <1>2 DEF NotifyOne

\* wget() and lock_wait(), a resolve() that throws, and --count_.
LEMMA CallerStruct ==
  ASSUME Struct, NEW r \in Reqs
  PROVE  /\ \A h \in Hosts : Connect(r, h) => Struct'
         /\ LockWait(r) => Struct'
         /\ Make(r) /\ so' = so => Struct'
         /\ Uncount => Struct'
<1>0. OtherTypes /\ Sockets(so) /\ Callers
  BY StructParts
<1>1. ASSUME so' = so PROVE Sockets(so') /\ \A t \in Socks : Mild(so[t], so'[t])
  BY <1>0, <1>1, MildSame
<1>2. ASSUME NEW h \in Hosts, Connect(r, h) PROVE Struct'
  <2>1. /\ so' = so /\ sock' = sock /\ answer' = answer
        /\ pc' = [pc EXCEPT ![r] = "lock"] /\ pc[r] = "idle"
        /\ host' = [host EXCEPT ![r] = h]
    BY <1>2 DEF Connect
  <2>2. OtherTypes'
    BY <1>0, <1>2, <2>1 DEF Connect, OtherTypes, PCs
  <2>3. \A q \in Reqs : SameHold(q)
    BY <1>0, <2>1 DEF SameHold, OtherTypes
  <2>4. \A q \in Reqs : pc'[q] # "idle" => host'[q] \in Hosts
    BY <1>0, <2>1 DEF Callers, OtherTypes
  <2> QED
    BY <1>1, <2>1, <2>2, <2>3, <2>4, MildStruct
<1>3. ASSUME LockWait(r) PROVE Struct'
  <2>1. PICK l \in {"make", "asleep"} : pc' = [pc EXCEPT ![r] = l]
    BY <1>3 DEF LockWait
  <2>2. /\ so' = so /\ sock' = sock /\ answer' = answer /\ host' = host
        /\ keep' = keep /\ owed' = owed /\ leaked' = leaked
        /\ pc[r] = "lock" /\ count' \in {count, count + 1}
    BY <1>3 DEF LockWait
  <2>3. OtherTypes'
    BY <1>0, <2>1, <2>2 DEF OtherTypes, PCs
  <2>4. \A q \in Reqs : SameHold(q)
    BY <1>0, <2>1, <2>2 DEF SameHold, OtherTypes
  <2>5. \A q \in Reqs : pc'[q] # "idle" => host'[q] \in Hosts
    BY <1>0, <2>1, <2>2 DEF Callers, OtherTypes
  <2> QED
    BY <1>1, <2>2, <2>3, <2>4, <2>5, MildStruct
<1>4. ASSUME Make(r), so' = so PROVE Struct'
  <2>1. CASE pc' = [pc EXCEPT ![r] = "thrown"] /\ leaked' = leaked + 1 /\ sock' = sock
    <3>1. /\ answer' = answer /\ host' = host /\ pc[r] = "make"
          /\ keep' = keep /\ owed' = owed /\ count' = count
      BY <1>4 DEF Make
    <3>2. OtherTypes'
      BY <1>0, <2>1, <3>1 DEF OtherTypes, PCs
    <3>3. \A q \in Reqs : SameHold(q)
      BY <1>0, <2>1, <3>1 DEF SameHold, OtherTypes
    <3>4. \A q \in Reqs : pc'[q] # "idle" => host'[q] \in Hosts
      BY <1>0, <2>1, <3>1 DEF Callers, OtherTypes
    <3> QED
      BY <1>1, <1>4, <2>1, <3>1, <3>2, <3>3, <3>4, MildStruct
  <2>2. ASSUME NEW s \in Socks, ~so[s].used,
               so' = [so EXCEPT ![s] = NewSocket(host[r], MaxRetry)]
        PROVE  FALSE
    <3>1. so'[s].used
      BY <1>0, <2>2 DEF Sockets, NewSocket, Free
    <3> QED
      BY <1>4, <2>2, <3>1
  <2> QED
    BY <1>4, <2>1, <2>2 DEF Make
<1>5. ASSUME Uncount PROVE Struct'
  <2>1. /\ so' = so /\ sock' = sock /\ answer' = answer /\ host' = host
        /\ keep' = keep /\ owed' = owed - 1 /\ leaked' = leaked /\ owed > 0
        /\ count' = count - 1
    BY <1>5 DEF Uncount
  <2>2. /\ pc' \in [Reqs -> PCs]
        /\ \A q \in Reqs : SameHold(q)
        /\ \A q \in Reqs : pc'[q] # "idle" => pc[q] # "idle"
    BY <1>0, <1>5, NotifyHold DEF Uncount
  <2>3. OtherTypes'
    BY <1>0, <2>1, <2>2 DEF OtherTypes
  <2>4. \A q \in Reqs : pc'[q] # "idle" => host'[q] \in Hosts
    BY <1>0, <2>1, <2>2 DEF Callers
  <2> QED
    BY <1>1, <2>1, <2>2, <2>3, <2>4, MildStruct
<1> QED
  BY <1>2, <1>3, <1>4, <1>5

-----------------------------------------------------------------------------
(***************************************************************************)
(* async_connect(): a new connection, or a kept one.                       *)
(***************************************************************************)

\* Two such changes in a row are one.
LEMMA MildChain ==
  ASSUME NEW x, NEW y, NEW z
  PROVE  /\ Tame(x, y) /\ Tame(y, z) => Tame(x, z)
         /\ Mild(x, y) /\ Mild(y, z) => Mild(x, z)
BY DEF Mild, Tame

\* That async_connect() has returned changes only where its callers are.
LEMMA ReturnedMild ==
  ASSUME OtherTypes, NEW s \in Socks, NEW f, Sockets(f), Returned(s, f)
  PROVE  /\ Sockets(so') /\ \A t \in Socks : Mild(f[t], so'[t])
         /\ \A t \in Socks : f[t].stage # "moving" => so'[t] = f[t]
         /\ pc' \in [Reqs -> PCs] /\ \A r \in Reqs : SameHold(r)
         /\ \A r \in Reqs : pc'[r] # "idle" => pc[r] # "idle"
         /\ \A r \in Reqs : pc'[r] = "make" <=> pc[r] = "make"
         /\ \A r \in Reqs : pc'[r] = "lock" <=> pc[r] = "lock"
         /\ \A r \in Reqs : pc'[r] = "asleep" <=> pc[r] = "asleep"
<1>1. ASSUME NEW t \in Socks
      PROVE  so'[t] \in Socket /\ SockInv(so'[t]) /\ Mild(f[t], so'[t])
  <2>0. f[t] \in Socket /\ SockInv(f[t])
    BY DEF Sockets
  <2>1. CASE f[t].stage = "moving" /\ f[t].other = s
    <3> DEFINE x == f[t]
               y == [x EXCEPT !.stage = "move_start"]
    <3>1. so'[t] = y
      BY <2>1 DEF Returned
    <3>2. "move_start" \in Stages
      BY DEF Stages
    <3>3. y \in Socket
      BY <2>0, <3>2 DEF Socket
    <3>4. /\ y.used = x.used /\ y.stage = "move_start" /\ y.op = x.op
          /\ y.writes = x.writes /\ y.ready = x.ready /\ y.result = x.result
          /\ y.alive = x.alive /\ y.other = x.other /\ y.rest = x.rest
          /\ y.comp = x.comp /\ y.link = x.link
      BY <2>0 DEF Socket
    <3>5. x.stage = "moving" /\ SockInv(x)
      BY <2>0, <2>1
    <3> HIDE DEF x, y
    <3>6. SockInv(y)
      BY <3>4, <3>5 DEF SockInv, Moving
    <3>7. Mild(x, y)
      BY <3>4, <3>5 DEF Mild, Tame, Moving, Fresh, Target, Forwarded
    <3> QED
      BY <3>1, <3>3, <3>6, <3>7 DEF x
  <2>2. CASE ~(f[t].stage = "moving" /\ f[t].other = s)
    <3>1. so'[t] = f[t]
      BY <2>2 DEF Returned
    <3> QED
      BY <2>0, <3>1, MildSame
  <2> QED
    BY <2>1, <2>2
<1>2. so' \in [Socks -> Socket]
  <2>1. so' = [m \in Socks |-> so'[m]]
    BY DEF Returned
  <2> QED
    BY <1>1, <2>1
<1>3. Sockets(so') /\ \A t \in Socks : Mild(f[t], so'[t])
  BY <1>1, <1>2 DEF Sockets
<1>4. \A t \in Socks : f[t].stage # "moving" => so'[t] = f[t]
  BY DEF Returned
<1>5. pc' \in [Reqs -> PCs] /\ \A r \in Reqs : SameHold(r)
  BY DEF Returned, OtherTypes, PCs, SameHold
<1>6. \A r \in Reqs : /\ pc'[r] # "idle" => pc[r] # "idle"
                      /\ pc'[r] = "make" <=> pc[r] = "make"
                      /\ pc'[r] = "lock" <=> pc[r] = "lock"
                      /\ pc'[r] = "asleep" <=> pc[r] = "asleep"
  BY DEF Returned
<1> QED
  BY <1>3, <1>4, <1>5, <1>6

\* async_connect() gives its socket an endpoint, and an operation or a kept socket.
LEMMA AsyncConnectMild ==
  ASSUME Struct, NEW s \in Socks, AsyncConnect(s)
  PROVE  /\ Sockets(so') /\ \A t \in Socks : Mild(so[t], so'[t])
         /\ pc' \in [Reqs -> PCs] /\ \A r \in Reqs : SameHold(r)
         /\ \A r \in Reqs : pc'[r] # "idle" => pc[r] # "idle"
         /\ \A r \in Reqs : pc'[r] = "make" <=> pc[r] = "make"
         /\ \A r \in Reqs : pc'[r] = "lock" <=> pc[r] = "lock"
         /\ \A r \in Reqs : pc'[r] = "asleep" <=> pc[r] = "asleep"
<1> DEFINE x == so[s]
           e == Head(x.rest)
<1>0. OtherTypes /\ Sockets(so) /\ x \in Socket /\ SockInv(x) /\ x.stage = "made"
  BY StructParts DEF Sockets, AsyncConnect
<1>1. e \in Eps \cup {None}
  BY <1>0, SocketFields DEF SockInv
<1>2. CASE Returned(s, [so EXCEPT ![s] = [[x EXCEPT !.ep = e] EXCEPT !.stage = "none",
                                            !.op = "connect2", !.comp = "pending"]])
  <2> DEFINE y == [[x EXCEPT !.ep = e] EXCEPT !.stage = "none", !.op = "connect2",
                                              !.comp = "pending"]
             f == [so EXCEPT ![s] = y]
  <2>1. "none" \in Stages /\ "connect2" \in Ops
    BY DEF Stages, Ops
  <2>2. y \in Socket
    BY <1>0, <1>1, <2>1 DEF Socket
  <2>3. /\ y.used = x.used /\ y.stage = "none" /\ y.op = "connect2"
        /\ y.writes = x.writes /\ y.ready = x.ready /\ y.result = x.result
        /\ y.alive = x.alive /\ y.other = x.other /\ y.rest = x.rest
    BY <1>0 DEF Socket
  <2>4. /\ f[s] = y /\ (\A t \in Socks : t # s => f[t] = so[t])
        /\ f \in [Socks -> Socket]
    BY <1>0, <2>2 DEF Sockets
  <2>5. Returned(s, f)
    BY <1>2
  <2> HIDE DEF x, y, f
  <2>7. SockInv(y)
    BY <1>0, <2>3 DEF SockInv, Moving, Reads
  <2>8. Mild(x, y)
    BY <1>0, <2>3 DEF SockInv, Mild, Tame, Moving, Fresh, Target, Forwarded
  <2>9. Sockets(f) /\ \A t \in Socks : Mild(so[t], f[t])
    BY <1>0, <2>4, <2>7, <2>8, MildSame DEF Sockets, x
  <2>10. /\ Sockets(so') /\ \A t \in Socks : Mild(f[t], so'[t])
         /\ pc' \in [Reqs -> PCs] /\ \A r \in Reqs : SameHold(r)
         /\ \A r \in Reqs : pc'[r] # "idle" => pc[r] # "idle"
         /\ \A r \in Reqs : pc'[r] = "make" <=> pc[r] = "make"
         /\ \A r \in Reqs : pc'[r] = "lock" <=> pc[r] = "lock"
         /\ \A r \in Reqs : pc'[r] = "asleep" <=> pc[r] = "asleep"
    BY <1>0, <2>5, <2>9, ReturnedMild
  <2> QED
    BY <2>9, <2>10, MildChain
<1>3. ASSUME NEW k \in Socks, pc' = pc,
             so' = [so EXCEPT ![s] = [[x EXCEPT !.ep = e] EXCEPT !.stage = "taking",
                                                                !.other = k]]
      PROVE  /\ Sockets(so') /\ \A t \in Socks : Mild(so[t], so'[t])
             /\ \A r \in Reqs : SameHold(r)
  <2> DEFINE y == [[x EXCEPT !.ep = e] EXCEPT !.stage = "taking", !.other = k]
  <2>1. "taking" \in Stages
    BY DEF Stages
  <2>2. y \in Socket
    BY <1>0, <1>1, <2>1 DEF Socket
  <2>3. /\ y.used = x.used /\ y.stage = "taking" /\ y.op = x.op /\ y.link = x.link
        /\ y.writes = x.writes /\ y.ready = x.ready /\ y.result = x.result
        /\ y.alive = x.alive /\ y.rest = x.rest /\ y.comp = x.comp
    BY <1>0 DEF Socket
  <2>4. so' = [so EXCEPT ![s] = y]
    BY <1>3
  <2> HIDE DEF x, y
  <2>5. SockInv(y)
    BY <1>0, <2>3 DEF SockInv, Moving, Reads
  <2>6. Mild(x, y)
    BY <1>0, <2>3 DEF SockInv, Mild, Tame, Moving, Fresh, Target, Forwarded
  <2>7. Sockets(so') /\ \A t \in Socks : Mild(so[t], so'[t])
    BY <1>0, <2>2, <2>4, <2>5, <2>6, OneSocket DEF x
  <2> QED
    BY <1>3, <2>7 DEF SameHold
<1> QED
  <2>1. keep \subseteq Socks /\ pc \in [Reqs -> PCs]
    BY <1>0 DEF OtherTypes
  <2> QED
    BY <1>2, <1>3, <2>1 DEF AsyncConnect, Reusable

\* async_connect(), on a caller's thread or an io_service's.
LEMMA AsyncConnectStruct ==
  ASSUME Struct, NEW s \in Socks, AsyncConnect(s)
  PROVE  Struct'
<1>1. OtherTypes /\ Callers
  BY StructParts
<1>2. /\ Sockets(so') /\ \A t \in Socks : Mild(so[t], so'[t])
      /\ pc' \in [Reqs -> PCs] /\ \A r \in Reqs : SameHold(r)
      /\ \A r \in Reqs : pc'[r] # "idle" => pc[r] # "idle"
  BY AsyncConnectMild
<1>3. /\ host' = host /\ sock' = sock /\ answer' = answer /\ count' = count
      /\ owed' = owed /\ leaked' = leaked /\ keep' \subseteq keep
  BY DEF AsyncConnect
<1>4. OtherTypes'
  BY <1>1, <1>2, <1>3 DEF OtherTypes
<1>5. \A r \in Reqs : pc'[r] # "idle" => host'[r] \in Hosts
  BY <1>1, <1>2, <1>3 DEF Callers
<1> QED
  BY <1>2, <1>3, <1>4, <1>5, MildStruct

\* async_reuse() ends async_connect(); only reuse_ of the kept socket is new, and
\* no other kept socket has the same.
LEMMA AsyncReuseStruct ==
  ASSUME Struct, NEW s \in Socks, AsyncReuse(s)
  PROVE  /\ Struct' /\ \A t \in Socks : Tame(so[t], so'[t])
         /\ \A r \in Reqs : pc'[r] = "make" <=> pc[r] = "make"
         /\ \A r \in Reqs : pc'[r] = "lock" <=> pc[r] = "lock"
         /\ \A r \in Reqs : pc'[r] = "asleep" <=> pc[r] = "asleep"
<1> DEFINE x == so[s]
           k == x.other
           y == [x EXCEPT !.stage = "none", !.other = None]
           c == IF so[k].comp = "pending" THEN "error" ELSE so[k].comp
           z == [so[k] EXCEPT !.other = s, !.comp = c]
           given == k \in Socks /\ so[k].op = "keep_alive"
           f == IF given THEN [so EXCEPT ![s] = y, ![k] = z] ELSE [so EXCEPT ![s] = y]
<1>0. /\ OtherTypes /\ Sockets(so) /\ Callers /\ Movers /\ Keepers /\ Holders
      /\ CalledOnce
  BY StructParts
<1>1. x \in Socket /\ SockInv(x) /\ x.stage = "taking"
  BY <1>0 DEF Sockets, AsyncReuse
<1>2. Returned(s, f)
  <2>1. CASE so[k].op = "keep_alive"
    <3>1. Returned(s, [so EXCEPT ![s] = y,
                                 ![k] = [so[k] EXCEPT !.other = s,
                                    !.comp = IF @ = "pending" THEN "error" ELSE @]])
      BY <2>1 DEF AsyncReuse
    <3>2. CASE k \in Socks
      <4>1. [so[k] EXCEPT !.other = s, !.comp = IF @ = "pending" THEN "error" ELSE @] = z
        BY <1>0, <3>2 DEF Sockets, Socket
      <4> QED
        BY <2>1, <3>1, <3>2, <4>1
    <3>3. CASE k \notin Socks
      <4>1. \A w : [so EXCEPT ![s] = y, ![k] = w] = [so EXCEPT ![s] = y]
        BY <1>0, <3>3 DEF Sockets
      <4> QED
        BY <3>1, <3>3, <4>1
    <3> QED
      BY <3>2, <3>3
  <2>2. CASE so[k].op # "keep_alive"
    BY <2>2 DEF AsyncReuse
  <2> QED
    BY <2>1, <2>2
<1>3. y \in Socket
  <2>1. "none" \in Stages
    BY DEF Stages
  <2> QED
    BY <1>1, <2>1 DEF Socket
<1>4. /\ y.used = x.used /\ y.stage = "none" /\ y.op = x.op /\ y.link = x.link
      /\ y.writes = x.writes /\ y.ready = x.ready /\ y.result = x.result
      /\ y.alive = x.alive /\ y.rest = x.rest /\ y.comp = x.comp /\ y.other = None
  BY <1>1 DEF Socket
<1>5. SockInv(y) /\ Mild(x, y) /\ Target(y)
  <2> HIDE DEF x, y
  <2>1. SockInv(y)
    BY <1>1, <1>4 DEF SockInv, Moving, Reads
  <2>2. Mild(x, y)
    BY <1>1, <1>4 DEF SockInv, Mild, Tame, Moving, Fresh, Target, Forwarded
  <2>3. Target(y)
    BY <1>1, <1>4 DEF SockInv, Target
  <2> QED
    BY <2>1, <2>2, <2>3
<1>6. ASSUME given
      PROVE  /\ z \in Socket /\ SockInv(z) /\ Tame(so[k], z) /\ k # s
             /\ z.other = s /\ z.op = "keep_alive" /\ z.stage = so[k].stage
  <2> DEFINE u == so[k]
  <2>1. u \in Socket /\ SockInv(u) /\ u.op = "keep_alive"
    BY <1>0, <1>6 DEF Sockets
  <2>2. c \in {"pending", "ok", "error"}
    BY <2>1, SocketFields
  <2>3. \A d \in {"pending", "ok", "error"} : [u EXCEPT !.other = s, !.comp = d] \in Socket
    BY <2>1 DEF Socket
  <2>4. /\ z.used = u.used /\ z.stage = u.stage /\ z.op = u.op /\ z.link = u.link
        /\ z.writes = u.writes /\ z.ready = u.ready /\ z.result = u.result
        /\ z.alive = u.alive /\ z.rest = u.rest /\ z.other = s
    BY <2>1 DEF Socket
  <2>5. k # s
    BY <1>1, <2>1 DEF SockInv
  <2>6. z \in Socket
    BY <2>2, <2>3
  <2> HIDE DEF u, z, k, x
  <2>7. SockInv(z) /\ Tame(u, z)
    BY <2>1, <2>4 DEF SockInv, Tame, Moving, Reads, Fresh, Target, Forwarded
  <2> QED
    BY <2>1, <2>4, <2>5, <2>6, <2>7 DEF u
<1>7. /\ f \in [Socks -> Socket] /\ f[s] = y
      /\ given => f[k] = z
      /\ \A t \in Socks : t # s /\ (t # k \/ ~given) => f[t] = so[t]
  BY <1>0, <1>3, <1>6 DEF Sockets
<1> HIDE DEF x, y, z, f, k
<1>8. Sockets(f) /\ \A t \in Socks : Tame(so[t], f[t])
  <2>1. \A t \in Socks : SockInv(so[t]) /\ Tame(so[t], so[t])
    BY <1>0, MildSame DEF Sockets, Mild
  <2>2. Tame(so[s], f[s]) /\ SockInv(f[s])
    BY <1>5, <1>7 DEF Mild, x
  <2>3. given => Tame(so[k], f[k]) /\ SockInv(f[k])
    BY <1>6, <1>7
  <2> QED
    BY <1>7, <2>1, <2>2, <2>3 DEF Sockets
<1>9. /\ Sockets(so') /\ \A t \in Socks : Mild(f[t], so'[t])
      /\ \A t \in Socks : f[t].stage # "moving" => so'[t] = f[t]
      /\ pc' \in [Reqs -> PCs] /\ \A r \in Reqs : SameHold(r)
      /\ \A r \in Reqs : pc'[r] # "idle" => pc[r] # "idle"
      /\ \A r \in Reqs : pc'[r] = "make" <=> pc[r] = "make"
      /\ \A r \in Reqs : pc'[r] = "lock" <=> pc[r] = "lock"
      /\ \A r \in Reqs : pc'[r] = "asleep" <=> pc[r] = "asleep"
  BY <1>0, <1>2, <1>8, ReturnedMild
<1>10. \A t \in Socks : Tame(so[t], so'[t])
  BY <1>8, <1>9, MildChain DEF Mild
<1>11. /\ host' = host /\ sock' = sock /\ answer' = answer /\ count' = count
       /\ owed' = owed /\ leaked' = leaked /\ keep' = keep
  BY DEF AsyncReuse
<1>12. OtherTypes'
  BY <1>0, <1>9, <1>11 DEF OtherTypes
<1>13. \A r \in Reqs : pc'[r] # "idle" => host'[r] \in Hosts
  BY <1>0, <1>9, <1>11 DEF Callers
<1>14. Callers' /\ Movers' /\ Holders' /\ CalledOnce'
  BY <1>0, <1>9, <1>10, <1>11, <1>13, TameRefs, TameHolders
<1>15. so'[s] = y
  BY <1>4, <1>7, <1>9
<1>16. \A l \in Socks : so[l].op = "keep_alive" => so[l].other # s
  <2>1. s # None
    BY HttpAssumption
  <2> QED
    BY <1>0, <1>1, <2>1 DEF Keepers, Kept, Target, x
<1>17. \A l \in Socks : so'[l].op = "keep_alive" =>
          /\ so[l].op = "keep_alive"
          /\ so'[l].other = so[l].other \/ (l = k /\ given /\ so'[l].other = s)
  <2>1. \A l \in Socks : so'[l].op = "keep_alive" =>
           so[l].op = "keep_alive" /\ f[l].op = "keep_alive"
    BY <1>9, <1>10 DEF Tame, Mild
  <2>2. \A l \in Socks : so'[l].op = "keep_alive" => so'[l] = f[l]
    BY <1>8, <1>9, <2>1 DEF Sockets, SockInv
  <2>3. so[s].op # "keep_alive"
    BY <1>1 DEF SockInv, x
  <2> QED
    BY <1>6, <1>7, <2>1, <2>2, <2>3
<1>18. Keepers'
  <2>1. \A l \in Socks : so'[l].op = "keep_alive" /\ so'[l].other # None =>
           Target(so'[so'[l].other])
    <3>1. \A l \in Socks : so[l].other \in Socks \cup {None}
      BY <1>0, SocketFields DEF Sockets
    <3> QED
      BY <1>0, <1>5, <1>10, <1>15, <1>17, <3>1 DEF Keepers, Kept, Tame
  <2>2. ASSUME NEW l \in Socks, NEW m \in Socks, l # m, so'[l].op = "keep_alive",
               so'[m].op = "keep_alive", so'[l].other # None
        PROVE  so'[l].other # so'[m].other
    <3>1. so[l].op = "keep_alive" /\ so[m].op = "keep_alive"
      BY <1>17, <2>2
    <3>2. so[l].other # s /\ so[m].other # s
      BY <1>16, <3>1
    <3>3. so[l].other # None => so[l].other # so[m].other
      BY <1>0, <2>2, <3>1 DEF Keepers, Kept
    <3>4. so'[l].other = so[l].other \/ (l = k /\ so'[l].other = s)
      BY <1>17, <2>2
    <3>5. so'[m].other = so[m].other \/ (m = k /\ so'[m].other = s)
      BY <1>17, <2>2
    <3> QED
      BY <2>2, <3>2, <3>3, <3>4, <3>5
  <2> QED
    BY <2>1, <2>2 DEF Keepers, Kept
<1> QED
  BY <1>9, <1>10, <1>12, <1>14, <1>18, StructPartsNext

-----------------------------------------------------------------------------
(***************************************************************************)
(* start(), which gives the socket its request, and async_write().         *)
(***************************************************************************)

\* start() sets result_ of a socket nobody else refers to as its maker.
LEMMA StartStruct ==
  ASSUME Struct, NEW r \in Reqs, Start(r)
  PROVE  Struct' /\ Fresh(so[sock[r]]) /\ sock[r] \in Socks
<1> DEFINE s == sock[r]
           x == so[s]
           y == [x EXCEPT !.result = r]
<1>0. /\ OtherTypes /\ Sockets(so) /\ Callers /\ Movers /\ Keepers /\ Holders
      /\ CalledOnce
  BY StructParts
<1>1. pc[r] = "start" /\ so' = [so EXCEPT ![s] = y] /\ pc' = [pc EXCEPT ![r] = "write"]
  BY <1>0 DEF Start, Sockets
<1>2. s \in Socks /\ Fresh(x)
  BY <1>0, <1>1 DEF Callers, Held
<1>3. x \in Socket /\ SockInv(x)
  BY <1>0, <1>2 DEF Sockets
<1>4. /\ y \in Socket
      /\ y.used = x.used /\ y.stage = x.stage /\ y.op = x.op /\ y.link = x.link
      /\ y.writes = x.writes /\ y.ready = x.ready /\ y.result = r
      /\ y.alive = x.alive /\ y.rest = x.rest /\ y.comp = x.comp /\ y.other = x.other
  BY <1>3 DEF Socket
<1>5. r # None
  BY HttpAssumption
<1>6. /\ so'[s] = y /\ (\A t \in Socks : t # s => so'[t] = so[t])
      /\ so' \in [Socks -> Socket]
      /\ pc'[r] = "write" /\ (\A q \in Reqs : q # r => pc'[q] = pc[q])
      /\ pc' \in [Reqs -> PCs]
  BY <1>0, <1>1, <1>2, <1>4 DEF Sockets, OtherTypes, PCs
<1>7. /\ host' = host /\ sock' = sock /\ answer' = answer /\ count' = count
      /\ owed' = owed /\ leaked' = leaked /\ keep' = keep
  BY DEF Start
<1> HIDE DEF y
<1>8. SockInv(y)
  <2> HIDE DEF x
  <2> QED
    BY <1>2, <1>3, <1>4, <1>5 DEF SockInv, Fresh, Moving, Reads
<1>9. Sockets(so')
  BY <1>0, <1>6, <1>8 DEF Sockets
<1>10. OtherTypes'
  BY <1>0, <1>6, <1>7 DEF OtherTypes
<1>11. Callers'
  <2>1. \A q \in Reqs : pc'[q] # "idle" => host'[q] \in Hosts
    BY <1>0, <1>1, <1>6, <1>7 DEF Callers
  <2>2. \A q \in Reqs : q # r /\ sock[q] # None => sock[q] # s
    BY <1>0 DEF Callers
  <2>3. \A q \in Reqs : pc'[q] \in Held <=> pc[q] \in Held
    BY <1>1, <1>6 DEF Held
  <2>4. \A q \in Reqs : pc[q] \in Held => sock[q] \in Socks /\ sock[q] # None
    BY <1>0, HttpAssumption DEF Callers
  <2>5. \A q \in Reqs : pc'[q] \in {"connect", "start"} => Fresh(so'[sock[q]])
    BY <1>0, <1>6, <2>2, <2>4 DEF Callers, Held
  <2>6. so'[s].used /\ so'[s].op # "keep_alive"
    BY <1>2, <1>4, <1>6 DEF Fresh
  <2>7. \A q \in Reqs : pc'[q] = "write" => so'[sock[q]].used /\ so'[sock[q]].op # "keep_alive"
    BY <1>0, <1>6, <2>2, <2>4, <2>6 DEF Callers, Held, Kept
  <2>8. /\ \A q \in Reqs : pc'[q] \in Held => sock[q] \in Socks
        /\ \A q \in Reqs : sock[q] # None => pc'[q] \in Held
        /\ \A q, p \in Reqs : q # p /\ sock[q] # None => sock[q] # sock[p]
    BY <1>0, <2>3 DEF Callers
  <2> QED
    BY <1>7, <2>1, <2>5, <2>7, <2>8 DEF Callers, Kept
<1>12. Movers'
  <2>1. x.stage \notin Moving
    BY <1>2 DEF Fresh, Moving
  <2>2. \A m \in Socks : so'[m].stage \in Moving => so'[m] = so[m]
    BY <1>4, <1>6, <2>1
  <2>3. \A m \in Socks : so[m].stage \in Moving => so[m].other # s
    BY <1>0 DEF Movers
  <2> QED
    BY <1>0, <1>6, <1>7, <2>2, <2>3 DEF Movers
<1>13. Keepers'
  <2>1. \A k \in Socks : so'[k].op = "keep_alive" =>
           so[k].op = "keep_alive" /\ so'[k].other = so[k].other
    BY <1>4, <1>6
  <2>2. \A t \in Socks : Target(so[t]) => Target(so'[t])
    BY <1>4, <1>6 DEF Target
  <2>3. \A k \in Socks : so[k].other \in Socks \cup {None}
    BY <1>0, SocketFields DEF Sockets
  <2> QED
    BY <1>0, <2>1, <2>2, <2>3 DEF Keepers, Kept
<1>14. Holders' /\ CalledOnce'
  <2>1. \A t \in Socks : so[t].result # r
    BY <1>0, <1>1, <1>5 DEF Holders
  <2>2. answer[r] = <<>>
    BY <1>0, <1>1 DEF Holders
  <2>3. \A t \in Socks : so[t].result \in Reqs \cup {None}
    BY <1>0, SocketFields DEF Sockets
  <2>4. \A t \in Socks : so'[t].result # None => pc'[so'[t].result] \in {"write", "done"}
    BY <1>0, <1>4, <1>6, <2>1, <2>3 DEF Holders
  <2>5. \A t \in Socks : t # s /\ Active(so'[t]) =>
           Active(so[t]) /\ so'[t].result = so[t].result
    BY <1>6
  <2>6. \A t, u \in Socks : t # u /\ Active(so'[t]) /\ Active(so'[u])
                              => so'[t].result # so'[u].result
    BY <1>0, <1>4, <1>6, <2>1, <2>5 DEF Holders
  <2>7. \A q \in Reqs : answer[q] # <<>> =>
          /\ pc'[q] \in {"write", "done"}
          /\ \A t \in Socks : Active(so'[t]) => so'[t].result # q
    BY <1>0, <1>4, <1>6, <2>2, <2>5 DEF Holders
  <2> QED
    BY <1>0, <1>7, <2>4, <2>6, <2>7 DEF Holders, CalledOnce
<1> QED
  BY <1>2, <1>9, <1>10, <1>11, <1>12, <1>13, <1>14, StructPartsNext

\* start() calls async_write() and lets go of the socket.
LEMMA StartWriteStruct ==
  ASSUME Struct, NEW r \in Reqs, StartWrite(r)
  PROVE  Struct' /\ \A t \in Socks : Mild(so[t], so'[t])
<1> DEFINE s == sock[r]
           x == so[s]
           y == Write(x)
<1>0. /\ OtherTypes /\ Sockets(so) /\ Callers /\ Movers /\ Keepers /\ Holders
      /\ CalledOnce
  BY StructParts
<1>1. /\ pc[r] = "write" /\ so' = [so EXCEPT ![s] = y]
      /\ pc' = [pc EXCEPT ![r] = "done"] /\ sock' = [sock EXCEPT ![r] = None]
  BY <1>0 DEF StartWrite, Sockets
<1>2. s \in Socks /\ x.used /\ x.op # "keep_alive"
  BY <1>0, <1>1 DEF Callers, Held, Kept
<1>3. x \in Socket /\ SockInv(x)
  BY <1>0, <1>2 DEF Sockets
<1>4. y \in Socket
  BY <1>3, WriteType
<1>5. /\ SockInv(y)
      /\ y.used = x.used /\ y.result = x.result /\ y.stage = x.stage
      /\ y.alive = x.alive /\ y.link = x.link /\ y.other = x.other
      /\ x.result = None \/ ~x.ready => y = x
      /\ y.op \in {x.op, "write"}
  BY <1>3, WriteFields
<1> HIDE DEF y
<1>6. Mild(x, y)
  <2> HIDE DEF x
  <2>1. x.stage \in Moving => x.ready = FALSE
    BY <1>3, SocketFields DEF SockInv
  <2> QED
    BY <1>2, <1>5, <2>1 DEF Mild, Tame, Fresh, Target, Forwarded
<1>7. Sockets(so') /\ \A t \in Socks : Mild(so[t], so'[t])
  BY <1>0, <1>1, <1>2, <1>4, <1>5, <1>6, OneSocket
<1>8. /\ host' = host /\ answer' = answer /\ count' = count
      /\ owed' = owed /\ leaked' = leaked /\ keep' = keep
  BY DEF StartWrite
<1>9. /\ pc'[r] = "done" /\ (\A q \in Reqs : q # r => pc'[q] = pc[q])
      /\ sock'[r] = None /\ (\A q \in Reqs : q # r => sock'[q] = sock[q])
      /\ OtherTypes'
  BY <1>0, <1>1, <1>8 DEF OtherTypes, PCs
<1> HIDE DEF x, s
<1>10. Callers'
  <2>1. \A q \in Reqs : pc'[q] # "idle" => host'[q] \in Hosts
    BY <1>0, <1>1, <1>8, <1>9 DEF Callers
  <2>2. \A q \in Reqs : pc'[q] \in Held => q # r /\ pc[q] \in Held
    BY <1>9 DEF Held
  <2>3. \A q \in Reqs : sock'[q] # None => pc'[q] \in Held
    BY <1>0, <1>9 DEF Callers
  <2>4. \A q \in Reqs : pc'[q] \in Held => sock'[q] \in Socks
    BY <1>0, <1>9, <2>2 DEF Callers
  <2>5. \A q \in Reqs : pc'[q] \in {"connect", "start"} => Fresh(so'[sock'[q]])
    BY <1>0, <1>7, <1>9, <2>2 DEF Callers, Held, Mild, Tame
  <2>6. \A q \in Reqs : pc'[q] = "write" => so'[sock'[q]].used /\ so'[sock'[q]].op # "keep_alive"
    BY <1>0, <1>7, <1>9, <2>2 DEF Callers, Held, Mild, Tame, Kept
  <2>7. \A q, p \in Reqs : q # p /\ sock'[q] # None => sock'[q] # sock'[p]
    BY <1>0, <1>9 DEF Callers
  <2> QED
    BY <2>1, <2>3, <2>4, <2>5, <2>6, <2>7 DEF Callers, Kept
<1>11. Movers'
  <2>1. \A m \in Socks : so'[m].stage \in Moving =>
           so[m].stage \in Moving /\ so'[m].other = so[m].other
    BY <1>7 DEF Mild, Tame
  <2>2. \A m \in Socks : so'[m].stage \in Moving =>
           so'[m].other \in Socks /\ Fresh(so'[so'[m].other])
    BY <1>0, <1>7, <2>1 DEF Movers, Mild, Tame
  <2>3. \A m \in Socks : so'[m].stage \in Moving =>
           \A q \in Reqs : sock'[q] # so'[m].other
    BY <1>0, <1>9, <2>1, HttpAssumption DEF Movers
  <2> QED
    BY <1>0, <2>1, <2>2, <2>3 DEF Movers
<1>12. Keepers'
  BY <1>0, <1>7, MildKeepers
<1>13. Holders' /\ CalledOnce'
  <2>1. \A t \in Socks : so'[t].result # None => so'[t].result = so[t].result
    BY <1>7 DEF Mild, Tame
  <2>2. \A t \in Socks : Active(so'[t]) => Active(so[t]) /\ so'[t].result = so[t].result
    BY <1>7, <2>1 DEF Mild, Tame, Active
  <2>3. \A t \in Socks : so[t].result \in Reqs \cup {None}
    BY <1>0, SocketFields DEF Sockets
  <2>4. \A q \in Reqs : pc'[q] \in {"write", "done"} <=> pc[q] \in {"write", "done"}
    BY <1>1, <1>9
  <2>5. Holders'
    BY <1>0, <1>8, <2>1, <2>2, <2>3, <2>4 DEF Holders
  <2> QED
    BY <1>0, <1>8, <2>5 DEF CalledOnce
<1> QED
  BY <1>7, <1>9, <1>10, <1>11, <1>12, <1>13, StructPartsNext

-----------------------------------------------------------------------------
(***************************************************************************)
(* A socket is made, for connect() or for on_move(), and gets its request. *)
(***************************************************************************)

\* Nobody refers to a socket that does not exist, except a socket in async_reuse().
LEMMA UnusedRefs ==
  ASSUME Struct, NEW n \in Socks, ~so[n].used
  PROVE  /\ so[n].op = "none" /\ so[n].stage = "none" /\ so[n].result = None
         /\ \A q \in Reqs : sock[q] # n
         /\ \A m \in Socks : so[m].stage \in Moving => so[m].other # n
         /\ \A k \in Socks : so[k].op = "keep_alive" => so[k].other # n
<1>1. Sockets(so) /\ Callers /\ Movers /\ Keepers
  BY StructParts
<1>2. n # None
  BY HttpAssumption
<1>3. so[n].op = "none" /\ so[n].stage = "none" /\ so[n].result = None
  BY <1>1 DEF Sockets, SockInv
<1>4. \A q \in Reqs : sock[q] # n
  BY <1>1, <1>2 DEF Callers, Held, Fresh
<1>5. \A m \in Socks : so[m].stage \in Moving => so[m].other # n
  BY <1>1 DEF Movers, Fresh
<1>6. \A k \in Socks : so[k].op = "keep_alive" => so[k].other # n
  BY <1>1, <1>2 DEF Keepers, Kept, Target
<1> QED
  BY <1>3, <1>4, <1>5, <1>6

\* What does not exist has a state like any other.
LEMMA FreeFields ==
  /\ Free \in Socket /\ SockInv(Free)
  /\ ~Free.used /\ Free.op = "none" /\ Free.stage = "none" /\ Free.result = None
<1>1. "none" \in Stages /\ "none" \in Ops /\ 0 \in 0..2 /\ <<>> \in Seq(Eps)
      /\ 0 \in 0..MaxRetry
  BY HttpAssumption DEF Stages, Ops
<1>2. Free \in Socket
  BY <1>1 DEF Free, Socket
<1>3. SockInv(Free)
  BY DEF Free, SockInv, Moving, Reads
<1> QED
  BY <1>2, <1>3 DEF Free

\* The socket make_http_socket() makes.
LEMMA NewSocketFields ==
  ASSUME NEW h \in Hosts, NEW d \in 0..MaxRetry
  PROVE  /\ NewSocket(h, d) \in Socket /\ SockInv(NewSocket(h, d))
         /\ Fresh(NewSocket(h, d)) /\ NewSocket(h, d).used
         /\ NewSocket(h, d).op = "none" /\ NewSocket(h, d).stage = "made"
         /\ NewSocket(h, d).result = None
<1> DEFINE y == NewSocket(h, d)
<1>1. h \in Seq(Eps) /\ h # <<>>
  BY HttpAssumption
<1>2. "made" \in Stages /\ "none" \in Ops
  BY DEF Stages, Ops
<1>3. Free \in Socket
  BY FreeFields
<1>4. y = [Free EXCEPT !.used = TRUE, !.stage = "made", !.rest = h, !.retry = d,
                       !.timer = "armed"]
  BY DEF NewSocket
<1>5. y \in Socket
  <2> HIDE DEF y
  <2> QED
    BY <1>1, <1>2, <1>3, <1>4 DEF Socket
<1>6. /\ y.used /\ y.stage = "made" /\ y.op = "none" /\ y.writes = 0
      /\ y.link = "closed" /\ y.rest = h /\ y.result = None /\ ~y.ready /\ ~y.alive
      /\ y.other = None
  BY <1>4 DEF Free
<1> HIDE DEF y
<1>7. SockInv(y) /\ Fresh(y)
  BY <1>1, <1>6 DEF SockInv, Fresh, Moving, Reads
<1> QED
  BY <1>5, <1>6, <1>7 DEF y

\* do_connect() makes a socket that only its caller refers to.
LEMMA MakeStruct ==
  ASSUME Struct, NEW r \in Reqs, Make(r), NEW s \in Socks, ~so[s].used,
         so' = [so EXCEPT ![s] = NewSocket(host[r], MaxRetry)],
         sock' = [sock EXCEPT ![r] = s], pc' = [pc EXCEPT ![r] = "connect"],
         leaked' = leaked
  PROVE  Struct'
<1> DEFINE y == NewSocket(host[r], MaxRetry)
<1>0. /\ OtherTypes /\ Sockets(so) /\ Callers /\ Movers /\ Keepers /\ Holders
      /\ CalledOnce
  BY StructParts
<1>1. pc[r] = "make" /\ host[r] \in Hosts
  BY <1>0 DEF Make, Callers
<1>2. y \in Socket /\ SockInv(y) /\ Fresh(y) /\ y.used /\ y.op = "none"
      /\ y.stage = "made" /\ y.result = None
  <2>1. MaxRetry \in 0..MaxRetry
    BY HttpAssumption
  <2> QED
    BY <1>1, <2>1, NewSocketFields
<1>3. /\ so[s].op = "none" /\ so[s].stage = "none" /\ so[s].result = None
      /\ \A q \in Reqs : sock[q] # s
      /\ \A m \in Socks : so[m].stage \in Moving => so[m].other # s
      /\ \A k \in Socks : so[k].op = "keep_alive" => so[k].other # s
  BY UnusedRefs
<1>4. /\ host' = host /\ answer' = answer /\ count' = count
      /\ owed' = owed /\ keep' = keep
  BY DEF Make
<1> HIDE DEF y
<1>5. /\ so'[s] = y /\ (\A t \in Socks : t # s => so'[t] = so[t])
      /\ so' \in [Socks -> Socket]
  BY <1>0, <1>2 DEF Sockets, y
<1>6. /\ pc'[r] = "connect" /\ (\A q \in Reqs : q # r => pc'[q] = pc[q])
      /\ sock'[r] = s /\ (\A q \in Reqs : q # r => sock'[q] = sock[q])
      /\ OtherTypes'
  BY <1>0, <1>4 DEF OtherTypes, PCs
<1>7. Sockets(so')
  BY <1>0, <1>2, <1>5 DEF Sockets
<1>8. Callers'
  <2>1. \A q \in Reqs : pc'[q] # "idle" => host'[q] \in Hosts
    BY <1>0, <1>1, <1>4, <1>6 DEF Callers
  <2>2. \A q \in Reqs : pc'[q] \in Held => sock'[q] \in Socks
    BY <1>0, <1>6 DEF Callers
  <2>3. \A q \in Reqs : sock'[q] # None => pc'[q] \in Held
    BY <1>0, <1>6 DEF Callers, Held
  <2>4. \A q \in Reqs : pc'[q] \in {"connect", "start"} => Fresh(so'[sock'[q]])
    BY <1>0, <1>2, <1>3, <1>5, <1>6 DEF Callers, Held
  <2>5. \A q \in Reqs : pc'[q] = "write" => so'[sock'[q]].used /\ so'[sock'[q]].op # "keep_alive"
    BY <1>0, <1>3, <1>5, <1>6 DEF Callers, Held, Kept
  <2>6. \A q, p \in Reqs : q # p /\ sock'[q] # None => sock'[q] # sock'[p]
    BY <1>0, <1>3, <1>6 DEF Callers
  <2> QED
    BY <2>1, <2>2, <2>3, <2>4, <2>5, <2>6 DEF Callers, Kept
<1>9. Movers'
  <2>1. \A m \in Socks : so'[m].stage \in Moving => m # s /\ so'[m] = so[m]
    BY <1>2, <1>5 DEF Moving
  <2>2. \A m \in Socks : so'[m].stage \in Moving =>
          \A q \in Reqs : sock'[q] # so'[m].other
    BY <1>0, <1>3, <1>6, <2>1 DEF Movers
  <2>3. \A m \in Socks : so'[m].stage \in Moving =>
          so'[m].other \in Socks /\ Fresh(so'[so'[m].other])
    BY <1>0, <1>3, <1>5, <2>1 DEF Movers
  <2> QED
    BY <1>0, <2>1, <2>2, <2>3 DEF Movers
<1>10. Keepers'
  <2>1. \A k \in Socks : so'[k].op = "keep_alive" => k # s /\ so'[k] = so[k]
    BY <1>2, <1>5
  <2>2. \A k \in Socks : so[k].other \in Socks \cup {None}
    BY <1>0, SocketFields DEF Sockets
  <2> QED
    BY <1>0, <1>3, <1>5, <2>1, <2>2 DEF Keepers, Kept
<1>11. Holders' /\ CalledOnce'
  <2>1. \A t \in Socks : so'[t].result # None => t # s /\ so'[t] = so[t]
    BY <1>2, <1>5
  <2>2. \A t \in Socks : Active(so'[t]) => Active(so[t]) /\ so'[t] = so[t]
    BY <2>1 DEF Active
  <2>3. \A t \in Socks : so[t].result \in Reqs \cup {None}
    BY <1>0, SocketFields DEF Sockets
  <2>4. \A q \in Reqs : pc'[q] \in {"write", "done"} <=> pc[q] \in {"write", "done"}
    BY <1>1, <1>6
  <2>5. Holders'
    BY <1>0, <1>4, <2>1, <2>2, <2>3, <2>4 DEF Holders
  <2> QED
    BY <1>0, <1>4, <2>5 DEF CalledOnce
<1> QED
  BY <1>6, <1>7, <1>8, <1>9, <1>10, <1>11, StructPartsNext

\* on_move() makes a socket that only the redirected one refers to.
LEMMA OnMoveStruct ==
  ASSUME Struct, NEW s \in Socks, NEW h \in Hosts, OnMove(s, h)
  PROVE  /\ Struct'
         /\ \/ /\ leaked' = leaked + 1 /\ \A t \in Socks : Mild(so[t], so'[t])
            \/ \E n \in Socks :
                 /\ leaked' = leaked /\ n # s /\ ~so[n].used
                 /\ so'[n].used /\ so'[n].op = "none"
                 /\ so[s].op = "read_header"
                 /\ so[s].used /\ so'[s].used /\ so'[s].op = "none"
                 /\ so'[s].stage = "moving"
                 /\ so[n].op = "none" /\ so[n].stage = "none" /\ so[n].result = None
                 /\ \A t \in Socks : t \notin {s, n} => so'[t] = so[t]
<1> DEFINE x == so[s]
<1>0. /\ OtherTypes /\ Sockets(so) /\ Callers /\ Movers /\ Keepers /\ Holders
      /\ CalledOnce
  BY StructParts
<1>1. x \in Socket /\ SockInv(x)
  BY <1>0 DEF Sockets
<1>2. x.op = "read_header" /\ x.comp = "ok"
  BY DEF OnMove, Completed
<1>3. /\ x.result # None /\ x.link = "open" /\ ~x.ready /\ ~x.alive /\ x.used
      /\ x.writes = 0 /\ x.other = None /\ x.stage \in {"none", "ready"}
  BY <1>1, <1>2 DEF SockInv, Reads, Moving
<1>4. /\ host' = host /\ answer' = answer /\ count' = count + 1 /\ pc' = pc
      /\ owed' = owed /\ keep' = keep /\ sock' = sock
  BY DEF OnMove
<1>5. ASSUME so' = [so EXCEPT ![s] = [x EXCEPT !.op = "none", !.comp = "pending"]],
             leaked' = leaked + 1
      PROVE  Struct' /\ \A t \in Socks : Mild(so[t], so'[t])
  <2> DEFINE y == [x EXCEPT !.op = "none", !.comp = "pending"]
  <2>1. "none" \in Ops
    BY DEF Ops
  <2>2. y \in Socket
    BY <1>1, <2>1 DEF Socket
  <2>3. /\ y.used = x.used /\ y.stage = x.stage /\ y.op = "none" /\ y.link = x.link
        /\ y.writes = x.writes /\ y.ready = x.ready /\ y.result = x.result
        /\ y.alive = x.alive /\ y.rest = x.rest /\ y.other = x.other
    BY <1>1 DEF Socket
  <2>4. so' = [so EXCEPT ![s] = y]
    BY <1>5
  <2> HIDE DEF x, y
  <2>5. SockInv(y) /\ Mild(x, y)
    BY <1>2, <1>3, <2>3 DEF SockInv, Mild, Tame, Moving, Reads, Fresh, Target, Forwarded
  <2>6. Sockets(so') /\ \A t \in Socks : Mild(so[t], so'[t])
    BY <1>0, <2>2, <2>4, <2>5, OneSocket DEF x
  <2>7. OtherTypes'
    BY <1>0, <1>4, <1>5 DEF OtherTypes
  <2>8. \A r \in Reqs : SameHold(r)
    BY <1>4 DEF SameHold
  <2>9. \A r \in Reqs : pc'[r] # "idle" => host'[r] \in Hosts
    BY <1>0, <1>4 DEF Callers
  <2> QED
    BY <1>4, <2>6, <2>7, <2>8, <2>9, MildStruct
<1>6. ASSUME NEW n \in Socks, ~so[n].used, leaked' = leaked,
             so' = [so EXCEPT ![n] = NewSocket(h, x.retry),
                      ![s] = [[x EXCEPT !.op = "none", !.comp = "pending"]
                                EXCEPT !.stage = "moving", !.other = n]]
      PROVE  /\ Struct' /\ leaked' = leaked /\ n # s /\ ~so[n].used
             /\ so'[n].used /\ so'[n].op = "none"
             /\ so[s].op = "read_header"
             /\ so[s].used /\ so'[s].used /\ so'[s].op = "none"
             /\ so'[s].stage = "moving"
             /\ so[n].op = "none" /\ so[n].stage = "none" /\ so[n].result = None
             /\ \A t \in Socks : t \notin {s, n} => so'[t] = so[t]
  <2> DEFINE y == [[x EXCEPT !.op = "none", !.comp = "pending"]
                     EXCEPT !.stage = "moving", !.other = n]
             z == NewSocket(h, x.retry)
  <2>1. /\ so[n].op = "none" /\ so[n].stage = "none" /\ so[n].result = None
        /\ \A q \in Reqs : sock[q] # n
        /\ \A m \in Socks : so[m].stage \in Moving => so[m].other # n
        /\ \A k \in Socks : so[k].op = "keep_alive" => so[k].other # n
    BY <1>6, UnusedRefs
  <2>2. z \in Socket /\ SockInv(z) /\ Fresh(z) /\ z.used /\ z.op = "none"
        /\ z.stage = "made" /\ z.result = None
    BY <1>1, SocketFields, NewSocketFields
  <2>3. n # s
    BY <1>3, <1>6
  <2>4. "none" \in Ops /\ "moving" \in Stages
    BY DEF Ops, Stages
  <2>5. y \in Socket
    BY <1>1, <2>4 DEF Socket
  <2>6. /\ y.used = x.used /\ y.stage = "moving" /\ y.op = "none" /\ y.link = x.link
        /\ y.writes = x.writes /\ y.ready = x.ready /\ y.result = x.result
        /\ y.alive = x.alive /\ y.rest = x.rest /\ y.other = n
    BY <1>1 DEF Socket
  <2>7. so' = [so EXCEPT ![n] = z, ![s] = y]
    BY <1>6
  <2> HIDE DEF y, z
  <2>8. /\ so'[s] = y /\ so'[n] = z /\ (\A t \in Socks : t \notin {s, n} => so'[t] = so[t])
        /\ so' \in [Socks -> Socket]
    BY <1>0, <2>2, <2>3, <2>5, <2>7 DEF Sockets
  <2> HIDE DEF x
  <2>9. SockInv(y)
    BY <1>2, <1>3, <2>6 DEF SockInv, Moving, Reads
  <2>10. Sockets(so')
    BY <1>0, <2>2, <2>8, <2>9 DEF Sockets
  <2>11. OtherTypes'
    BY <1>0, <1>4, <1>6 DEF OtherTypes
  <2>12. ~Fresh(so[s]) /\ ~Target(so[s])
    BY <1>2 DEF Fresh, Target, x
  <2>13. Callers'
    <3>1. \A q \in Reqs : pc[q] \in {"connect", "start"} => Fresh(so'[sock[q]])
      BY <1>0, <2>1, <2>8, <2>12 DEF Callers, Held
    <3>2. \A q \in Reqs : pc[q] = "write" => so'[sock[q]].used /\ so'[sock[q]].op # "keep_alive"
      BY <1>0, <1>3, <2>1, <2>6, <2>8 DEF Callers, Held, Kept
    <3> QED
      BY <1>0, <1>4, <3>1, <3>2 DEF Callers, Kept
  <2>14. Movers'
    <3>1. \A m \in Socks : m # s /\ so'[m].stage \in Moving =>
             so'[m] = so[m] /\ so[m].other \notin {s, n}
      BY <1>0, <2>1, <2>2, <2>8, <2>12 DEF Movers, Moving
    <3>2. so'[s].other = n /\ Fresh(so'[n])
      BY <2>2, <2>6, <2>8
    <3>3. \A m \in Socks : so'[m].stage \in Moving =>
             so'[m].other \in Socks /\ Fresh(so'[so'[m].other])
      BY <1>0, <2>8, <3>1, <3>2 DEF Movers
    <3>4. \A m \in Socks : so'[m].stage \in Moving =>
             \A q \in Reqs : sock'[q] # so'[m].other
      BY <1>0, <1>4, <2>1, <3>1, <3>2 DEF Movers
    <3>5. \A m, p \in Socks : m # p /\ so'[m].stage \in Moving /\ so'[p].stage \in Moving
                                 => so'[m].other # so'[p].other
      BY <1>0, <3>1, <3>2 DEF Movers
    <3> QED
      BY <3>3, <3>4, <3>5 DEF Movers
  <2>15. Keepers'
    <3>1. \A k \in Socks : so'[k].op = "keep_alive" => so'[k] = so[k] /\ so[k].op = "keep_alive"
      BY <2>2, <2>6, <2>8
    <3>2. \A k \in Socks : so[k].op = "keep_alive" => so[k].other \notin {s, n}
      <4>1. s # None
        BY HttpAssumption
      <4> QED
        BY <1>0, <2>1, <2>12, <4>1 DEF Keepers, Kept
    <3>3. \A k \in Socks : so[k].other \in Socks \cup {None}
      BY <1>0, SocketFields DEF Sockets
    <3>4. \A k \in Socks : so'[k].op = "keep_alive" /\ so'[k].other # None =>
             Target(so'[so'[k].other])
      BY <1>0, <2>8, <3>1, <3>2, <3>3 DEF Keepers, Kept
    <3> QED
      BY <1>0, <3>1, <3>4 DEF Keepers, Kept
  <2>16. Holders' /\ CalledOnce'
    <3>1. \A t \in Socks : so'[t].result # None => so'[t].result = so[t].result
      BY <2>2, <2>6, <2>8 DEF x
    <3>2. \A t \in Socks : Active(so'[t]) => Active(so[t]) /\ so'[t].result = so[t].result
      <4>1. Active(so[s])
        BY <1>2, <1>3 DEF Active, Forwarded, x
      <4>2. ~Active(so'[n])
        BY <2>2, <2>8 DEF Active
      <4> QED
        BY <2>6, <2>8, <4>1, <4>2 DEF x
    <3>3. \A t \in Socks : so[t].result \in Reqs \cup {None}
      BY <1>0, SocketFields DEF Sockets
    <3>4. Holders'
      BY <1>0, <1>4, <3>1, <3>2, <3>3 DEF Holders
    <3> QED
      BY <1>0, <1>4, <3>4 DEF CalledOnce
  <2>17. Struct'
    BY <2>10, <2>11, <2>13, <2>14, <2>15, <2>16, StructPartsNext
  <2> QED
    BY <1>2, <1>3, <1>6, <2>1, <2>2, <2>3, <2>6, <2>8, <2>17 DEF x
<1>7. \/ \E n \in Socks :
             /\ ~so[n].used /\ leaked' = leaked
             /\ so' = [so EXCEPT ![n] = NewSocket(h, x.retry),
                        ![s] = [[x EXCEPT !.op = "none", !.comp = "pending"]
                                  EXCEPT !.stage = "moving", !.other = n]]
      \/ /\ so' = [so EXCEPT ![s] = [x EXCEPT !.op = "none", !.comp = "pending"]]
         /\ leaked' = leaked + 1
  <2>1. [x EXCEPT !.op = "none", !.comp = "pending"].retry = x.retry
    BY <1>1 DEF Socket
  <2> QED
    BY <2>1 DEF OnMove
<1> HIDE DEF x
<1>8. CASE /\ so' = [so EXCEPT ![s] = [x EXCEPT !.op = "none", !.comp = "pending"]]
           /\ leaked' = leaked + 1
  BY <1>5, <1>8
<1> QED
  BY <1>6, <1>7, <1>8

\* move_start() gives the new socket the request, which only one of the two can
\* call back from then on.
LEMMA MoveStartStruct ==
  ASSUME Struct, NEW s \in Socks, MoveStart(s)
  PROVE  /\ Struct'
         /\ \A t \in Socks : /\ so'[t].used = so[t].used /\ so'[t].op = so[t].op
                             /\ t # s => so'[t].stage = so[t].stage
         /\ Forwarded(so'[s]) /\ ~Forwarded(so[so[s].other])
         /\ \A t \in Socks : t \notin {s, so[s].other} => so'[t] = so[t]
         /\ so[s].other # s
<1> DEFINE x == so[s]
           n == x.other
           v == so[n]
           y == [x EXCEPT !.stage = "none", !.other = None]
           z == [v EXCEPT !.result = x.result]
<1>0. /\ OtherTypes /\ Sockets(so) /\ Callers /\ Movers /\ Keepers /\ Holders
      /\ CalledOnce
  BY StructParts
<1>1. x \in Socket /\ SockInv(x) /\ x.stage = "move_start" /\ x.stage \in Moving
  BY <1>0 DEF Sockets, MoveStart, Moving
<1>2. n \in Socks /\ Fresh(v) /\ \A r \in Reqs : sock[r] # n
  BY <1>0, <1>1 DEF Movers
<1>3. v \in Socket /\ SockInv(v)
  BY <1>0, <1>2 DEF Sockets
<1>4. n # s
  BY <1>1, <1>2 DEF Fresh
<1>5. so' = [so EXCEPT ![n] = z, ![s] = y]
  BY <1>0, <1>2, <1>4 DEF MoveStart, Sockets
<1>6. y \in Socket
  <2>1. "none" \in Stages
    BY DEF Stages
  <2> QED
    BY <1>1, <2>1 DEF Socket
<1>7. /\ y.used = x.used /\ y.stage = "none" /\ y.op = x.op /\ y.link = x.link
      /\ y.writes = x.writes /\ y.ready = x.ready /\ y.result = x.result
      /\ y.alive = x.alive /\ y.rest = x.rest /\ y.comp = x.comp /\ y.other = None
  BY <1>1 DEF Socket
<1>8. x.result \in Reqs \cup {None}
  BY <1>1, SocketFields
<1>9. /\ z \in Socket
      /\ z.used = v.used /\ z.stage = v.stage /\ z.op = v.op /\ z.link = v.link
      /\ z.writes = v.writes /\ z.ready = v.ready /\ z.result = x.result
      /\ z.alive = v.alive /\ z.rest = v.rest /\ z.comp = v.comp /\ z.other = v.other
  BY <1>3, <1>8 DEF Socket
<1> HIDE DEF y, z
<1>10. /\ so'[s] = y /\ so'[n] = z /\ (\A t \in Socks : t \notin {s, n} => so'[t] = so[t])
       /\ so' \in [Socks -> Socket]
  BY <1>0, <1>2, <1>4, <1>5, <1>6, <1>9 DEF Sockets
<1> HIDE DEF x, n, v
<1>11. /\ x.op = "none" /\ x.result # None /\ x.link = "open" /\ ~x.ready /\ ~x.alive
       /\ x.used
  BY <1>1 DEF SockInv
<1>12. SockInv(y) /\ Forwarded(y)
  BY <1>1, <1>7, <1>11 DEF SockInv, Moving, Reads, Forwarded
<1>13. SockInv(z)
  BY <1>2, <1>3, <1>9, <1>11 DEF SockInv, Fresh, Moving, Reads
<1>14. Sockets(so')
  BY <1>0, <1>10, <1>12, <1>13 DEF Sockets
<1>15. /\ host' = host /\ answer' = answer /\ count' = count /\ pc' = pc
       /\ owed' = owed /\ keep' = keep /\ sock' = sock /\ leaked' = leaked
  BY DEF MoveStart
<1>16. OtherTypes'
  BY <1>0, <1>15 DEF OtherTypes
<1>17. ~Fresh(so[s]) /\ ~Target(so[s]) /\ Active(so[s])
  BY <1>1, <1>11 DEF Fresh, Target, Active, Forwarded, Moving, x
<1>18. Callers'
  <2>1. \A q \in Reqs : pc[q] \in {"connect", "start"} => Fresh(so'[sock[q]])
    BY <1>0, <1>2, <1>10, <1>17 DEF Callers, Held
  <2>2. \A q \in Reqs : pc[q] = "write" => so'[sock[q]].used /\ so'[sock[q]].op # "keep_alive"
    BY <1>0, <1>2, <1>7, <1>10, <1>11 DEF Callers, Held, Kept
  <2> QED
    BY <1>0, <1>15, <2>1, <2>2 DEF Callers, Kept
<1>19. Movers'
  <2>1. v.stage \notin Moving /\ y.stage \notin Moving
    BY <1>2, <1>7 DEF Fresh, Moving
  <2>2. \A m \in Socks : so'[m].stage \in Moving =>
          m # s /\ so'[m] = so[m] /\ so[m].other \notin {s, n}
    BY <1>0, <1>1, <1>9, <1>10, <1>17, <2>1 DEF Movers, n, x
  <2> QED
    BY <1>0, <1>10, <1>15, <2>2 DEF Movers
<1>20. Keepers'
  <2>1. \A k \in Socks : so'[k].op = "keep_alive" => so'[k] = so[k] /\ so[k].op = "keep_alive"
    BY <1>2, <1>7, <1>9, <1>10, <1>11 DEF Fresh
  <2>2. \A t \in Socks : Target(so[t]) => Target(so'[t])
    BY <1>9, <1>10, <1>17 DEF Target, v
  <2>3. \A k \in Socks : so[k].other \in Socks \cup {None}
    BY <1>0, SocketFields DEF Sockets
  <2> QED
    BY <1>0, <2>1, <2>2, <2>3 DEF Keepers, Kept
<1>21. Holders' /\ CalledOnce'
  <2>1. \A t \in Socks : so'[t].result # None =>
           \/ so'[t].result = so[t].result
           \/ so'[t].result = so[s].result
    BY <1>7, <1>9, <1>10 DEF x
  <2>2. \A t \in Socks : Active(so'[t]) /\ t # n => Active(so[t]) /\ so'[t] = so[t] /\ t # s
    BY <1>10, <1>12 DEF Active
  <2>3. so'[n].result = so[s].result
    BY <1>9, <1>10 DEF x
  <2>4. \A t \in Socks : so[t].result \in Reqs \cup {None}
    BY <1>0, SocketFields DEF Sockets
  <2>5. \A t \in Socks : so'[t].result # None => pc[so'[t].result] \in {"write", "done"}
    BY <1>0, <1>11, <2>1, <2>4 DEF Holders, x
  <2>6. \A t, u \in Socks : t # u /\ Active(so'[t]) /\ Active(so'[u])
                              => so'[t].result # so'[u].result
    BY <1>0, <1>17, <2>2, <2>3 DEF Holders
  <2>7. \A q \in Reqs : answer[q] # <<>> =>
           \A t \in Socks : Active(so'[t]) => so'[t].result # q
    BY <1>0, <1>17, <2>2, <2>3 DEF Holders
  <2>8. Holders'
    BY <1>0, <1>15, <2>5, <2>6, <2>7 DEF Holders
  <2> QED
    BY <1>0, <1>15, <2>8 DEF CalledOnce
<1>22. Struct'
  BY <1>14, <1>16, <1>18, <1>19, <1>20, <1>21, StructPartsNext
<1>23. ~Forwarded(v)
  BY <1>2 DEF Fresh, Forwarded
<1>24. \A t \in Socks : /\ so'[t].used = so[t].used /\ so'[t].op = so[t].op
                        /\ t # s => so'[t].stage = so[t].stage
  BY <1>7, <1>9, <1>10 DEF x, v
<1> QED
  BY <1>4, <1>10, <1>12, <1>22, <1>23, <1>24 DEF n, v, x

-----------------------------------------------------------------------------
(***************************************************************************)
(* A socket is deleted, kept, or hands its connection over.                *)
(***************************************************************************)

\* A socket goes that nobody relies on.
LEMMA FreedStruct ==
  ASSUME Struct, NEW s \in Socks, so' = [so EXCEPT ![s] = Free],
         \A q \in Reqs : sock[q] # s,
         \A m \in Socks : so[m].stage \in Moving => so[m].other # s,
         \A k \in Socks : Kept(k) => so[k].other # s,
         OtherTypes', sock' = sock, answer' = answer, host' = host,
         \A r \in Reqs : SameHold(r),
         \A r \in Reqs : pc'[r] # "idle" => pc[r] # "idle"
  PROVE  /\ Struct' /\ so'[s] = Free
         /\ \A t \in Socks : t # s => so'[t] = so[t]
<1>0. /\ OtherTypes /\ Sockets(so) /\ Callers /\ Movers /\ Keepers /\ Holders
      /\ CalledOnce
  BY StructParts
<1>1. Free \in Socket /\ SockInv(Free)
      /\ ~Free.used /\ Free.op = "none" /\ Free.stage = "none" /\ Free.result = None
  BY FreeFields
<1>2. /\ so'[s] = Free /\ (\A t \in Socks : t # s => so'[t] = so[t])
      /\ so' \in [Socks -> Socket]
  BY <1>0, <1>1 DEF Sockets
<1>3. Sockets(so')
  BY <1>0, <1>1, <1>2 DEF Sockets
<1>4. \A r \in Reqs : pc'[r] \in Held <=> pc[r] \in Held
  BY DEF SameHold, Held
<1>5. Callers'
  <2>1. \A q \in Reqs : pc'[q] # "idle" => host'[q] \in Hosts
    BY <1>0 DEF Callers
  <2>2. \A q \in Reqs : pc'[q] \in {"connect", "start"} => Fresh(so'[sock[q]])
    BY <1>0, <1>2 DEF Callers, Held, SameHold
  <2>3. \A q \in Reqs : pc'[q] = "write" => so'[sock[q]].used /\ so'[sock[q]].op # "keep_alive"
    BY <1>0, <1>2 DEF Callers, Held, SameHold, Kept
  <2> QED
    BY <1>0, <1>4, <2>1, <2>2, <2>3 DEF Callers, Kept
<1>6. Movers'
  <2>1. \A m \in Socks : so'[m].stage \in Moving => m # s /\ so'[m] = so[m]
    BY <1>1, <1>2 DEF Moving
  <2>2. \A m \in Socks : so'[m].stage \in Moving =>
           so'[m].other \in Socks /\ Fresh(so'[so'[m].other])
    BY <1>0, <1>2, <2>1 DEF Movers
  <2> QED
    BY <1>0, <2>1, <2>2 DEF Movers
<1>7. Keepers'
  <2>1. \A k \in Socks : so'[k].op = "keep_alive" => k # s /\ so'[k] = so[k]
    BY <1>1, <1>2
  <2>2. \A k \in Socks : so[k].other \in Socks \cup {None}
    BY <1>0, SocketFields DEF Sockets
  <2> QED
    BY <1>0, <1>2, <2>1, <2>2 DEF Keepers, Kept
<1>8. Holders' /\ CalledOnce'
  <2>1. \A t \in Socks : so'[t].result # None => t # s /\ so'[t] = so[t]
    BY <1>1, <1>2
  <2>2. \A t \in Socks : Active(so'[t]) => Active(so[t]) /\ so'[t] = so[t]
    BY <2>1 DEF Active
  <2>3. \A t \in Socks : so[t].result \in Reqs \cup {None}
    BY <1>0, SocketFields DEF Sockets
  <2>4. \A q \in Reqs : pc'[q] \in {"write", "done"} <=> pc[q] \in {"write", "done"}
    BY DEF SameHold
  <2>5. Holders'
    BY <1>0, <2>1, <2>2, <2>3, <2>4 DEF Holders
  <2> QED
    BY <1>0, <2>5 DEF CalledOnce
<1> QED
  BY <1>2, <1>3, <1>5, <1>6, <1>7, <1>8, StructPartsNext

\* socket_deleter() of a socket that is not kept.
LEMMA DeleteStruct ==
  ASSUME Struct, NEW s \in Socks, Delete(s)
  PROVE  /\ Struct' /\ so'[s] = Free
         /\ \A t \in Socks : t # s => so'[t] = so[t]
<1>1. OtherTypes
  BY StructParts
<1>2. /\ so' = [so EXCEPT ![s] = Free] /\ sock' = sock /\ answer' = answer
      /\ host' = host /\ count' = count - 1 /\ keep' = keep /\ owed' = owed
      /\ leaked' = leaked
      /\ \A q \in Reqs : sock[q] # s
      /\ \A m \in Socks : so[m].other # s
  BY DEF Delete, Unreferenced
<1>3. /\ pc' \in [Reqs -> PCs] /\ \A r \in Reqs : SameHold(r)
      /\ \A r \in Reqs : pc'[r] # "idle" => pc[r] # "idle"
  BY <1>1, NotifyHold DEF Delete
<1>4. OtherTypes'
  BY <1>1, <1>2, <1>3 DEF OtherTypes
<1> QED
  BY <1>2, <1>3, <1>4, FreedStruct

\* erase() of a kept socket that nobody has reused.
LEMMA EraseStruct ==
  ASSUME Struct, NEW k \in Socks, Erase(k)
  PROVE  /\ Struct' /\ so'[k] = Free /\ Kept(k)
         /\ \A t \in Socks : t # k => so'[t] = so[t]
<1>1. OtherTypes /\ Sockets(so) /\ Callers /\ Movers /\ Keepers
  BY StructParts
<1>2. so[k].op = "keep_alive"
  BY <1>1 DEF Sockets, SockInv, Erase
<1>3. /\ so' = [so EXCEPT ![k] = Free] /\ sock' = sock /\ answer' = answer
      /\ host' = host /\ count' = count /\ keep' = keep \ {k} /\ owed' = owed
      /\ leaked' = leaked
  BY DEF Erase
<1>4. /\ pc' \in [Reqs -> PCs] /\ \A r \in Reqs : SameHold(r)
      /\ \A r \in Reqs : pc'[r] # "idle" => pc[r] # "idle"
  <2>1. CASE k \in keep
    BY <1>1, <2>1, NotifyHold DEF Erase
  <2>2. CASE k \notin keep
    BY <1>1, <2>2 DEF Erase, OtherTypes, SameHold
  <2> QED
    BY <2>1, <2>2
<1>5. OtherTypes'
  BY <1>1, <1>3, <1>4 DEF OtherTypes
<1>6. k # None
  BY HttpAssumption
<1>7. \A q \in Reqs : sock[q] # k
  BY <1>1, <1>2, <1>6 DEF Callers, Held, Fresh, Kept
<1>8. \A m \in Socks : so[m].stage \in Moving => so[m].other # k
  BY <1>1, <1>2 DEF Movers, Fresh
<1>9. \A l \in Socks : Kept(l) => so[l].other # k
  BY <1>1, <1>2, <1>6 DEF Keepers, Target, Kept
<1> QED
  BY <1>2, <1>3, <1>4, <1>5, <1>7, <1>8, <1>9, FreedStruct DEF Kept

\* collect() keeps a socket that has no request.
LEMMA CollectStruct ==
  ASSUME Struct, NEW s \in Socks, Collect(s)
  PROVE  /\ Struct' /\ so[s].used /\ so'[s].op = "keep_alive" /\ ~Kept(s)
         /\ so[s].stage = "none" /\ so[s].result = None
         /\ \A t \in Socks : t # s => so'[t] = so[t]
<1> DEFINE x == so[s]
           y == [x EXCEPT !.op = "keep_alive", !.comp = "pending"]
<1>0. /\ OtherTypes /\ Sockets(so) /\ Callers /\ Movers /\ Keepers /\ Holders
      /\ CalledOnce
  BY StructParts
<1>1. /\ x \in Socket /\ SockInv(x) /\ x.used /\ x.stage = "none" /\ x.op = "none"
      /\ x.alive
      /\ \A q \in Reqs : sock[q] # s
      /\ \A m \in Socks : so[m].other # s
  BY <1>0 DEF Sockets, Collect, Unreferenced
<1>2. so' = [so EXCEPT ![s] = y]
  BY <1>0 DEF Collect, Sockets
<1>3. y \in Socket
  <2>1. "keep_alive" \in Ops
    BY DEF Ops
  <2> QED
    BY <1>1, <2>1 DEF Socket
<1>4. /\ y.used = x.used /\ y.stage = x.stage /\ y.op = "keep_alive" /\ y.link = x.link
      /\ y.writes = x.writes /\ y.ready = x.ready /\ y.result = x.result
      /\ y.alive = x.alive /\ y.rest = x.rest /\ y.other = x.other
  BY <1>1 DEF Socket
<1> HIDE DEF x, y
<1>5. x.result = None /\ x.other = None /\ ~x.ready
  BY <1>1 DEF SockInv, Moving
<1>6. SockInv(y)
  BY <1>1, <1>4, <1>5 DEF SockInv, Moving, Reads
<1>7. /\ so'[s] = y /\ (\A t \in Socks : t # s => so'[t] = so[t])
      /\ so' \in [Socks -> Socket]
  BY <1>0, <1>2, <1>3 DEF Sockets
<1>8. Sockets(so')
  BY <1>0, <1>6, <1>7 DEF Sockets
<1>9. /\ host' = host /\ answer' = answer /\ count' = count /\ pc' = pc
      /\ owed' = owed + 1 /\ keep' = keep \cup {s} /\ sock' = sock /\ leaked' = leaked
  BY DEF Collect
<1>10. OtherTypes'
  BY <1>0, <1>9 DEF OtherTypes
<1>11. Callers'
  <2>1. \A q \in Reqs : pc[q] \in {"connect", "start"} => Fresh(so'[sock[q]])
    BY <1>0, <1>1, <1>7 DEF Callers, Held
  <2>2. \A q \in Reqs : pc[q] = "write" => so'[sock[q]].used /\ so'[sock[q]].op # "keep_alive"
    BY <1>0, <1>1, <1>7 DEF Callers, Held, Kept
  <2> QED
    BY <1>0, <1>9, <2>1, <2>2 DEF Callers, Kept
<1>12. Movers'
  <2>1. \A m \in Socks : so'[m].stage \in Moving => m # s /\ so'[m] = so[m]
    BY <1>1, <1>4, <1>7 DEF Moving
  <2>2. \A m \in Socks : so'[m].stage \in Moving =>
           so'[m].other \in Socks /\ Fresh(so'[so'[m].other])
    BY <1>0, <1>1, <1>7, <2>1 DEF Movers
  <2> QED
    BY <1>0, <1>9, <2>1, <2>2 DEF Movers
<1>13. Keepers'
  <2>1. \A k \in Socks : so'[k].op = "keep_alive" /\ so'[k].other # None =>
           /\ k # s /\ so'[k] = so[k] /\ so[k].op = "keep_alive"
           /\ so[k].other \in Socks /\ so[k].other # s
    BY <1>0, <1>1, <1>4, <1>5, <1>7, SocketFields DEF Sockets
  <2>2. \A k \in Socks : so'[k].op = "keep_alive" /\ so'[k].other # None =>
           Target(so'[so'[k].other])
    BY <1>0, <1>7, <2>1 DEF Keepers, Kept
  <2>3. ASSUME NEW k \in Socks, NEW l \in Socks, k # l, so'[k].op = "keep_alive",
               so'[l].op = "keep_alive", so'[k].other # None
        PROVE  so'[k].other # so'[l].other
    <3>1. CASE so'[l].other = None
      BY <2>3, <3>1
    <3>2. CASE so'[l].other # None
      <4>1. so'[k] = so[k] /\ so[k].op = "keep_alive" /\ so[k].other # None
        BY <2>1, <2>3
      <4>2. so'[l] = so[l] /\ so[l].op = "keep_alive"
        BY <2>1, <2>3, <3>2
      <4> QED
        BY <1>0, <2>3, <4>1, <4>2 DEF Keepers, Kept
    <3> QED
      BY <3>1, <3>2
  <2> QED
    BY <2>2, <2>3 DEF Keepers, Kept
<1>14. Holders' /\ CalledOnce'
  <2>1. \A t \in Socks : so'[t].result # None => t # s /\ so'[t] = so[t]
    BY <1>4, <1>5, <1>7
  <2>2. \A t \in Socks : Active(so'[t]) => Active(so[t]) /\ so'[t] = so[t]
    BY <2>1 DEF Active
  <2>3. \A t \in Socks : so[t].result \in Reqs \cup {None}
    BY <1>0, SocketFields DEF Sockets
  <2>4. Holders'
    BY <1>0, <1>9, <2>1, <2>2, <2>3 DEF Holders
  <2> QED
    BY <1>0, <1>9, <2>4 DEF CalledOnce
<1>15. Struct'
  BY <1>8, <1>10, <1>11, <1>12, <1>13, <1>14, StructPartsNext
<1> QED
  BY <1>1, <1>4, <1>5, <1>7, <1>15 DEF x, Kept

\* on_keep_alive() hands the connection to the one socket that waits for it, or
\* finds that there is none.
LEMMA OnKeepAliveStruct ==
  ASSUME Struct, NEW k \in Socks, OnKeepAlive(k)
  PROVE  /\ Struct' /\ Kept(k)
         /\ \/ \A t \in Socks : Mild(so[t], so'[t])
            \/ \E n \in Socks :
                 /\ n # k /\ so'[k] = Free
                 /\ so'[n].used = so[n].used /\ so'[n].op = so[n].op
                 /\ so[n].op = "none"
                 /\ ~Forwarded(so[n]) /\ so[n].stage = "none"
                 /\ \A t \in Socks : t \notin {k, n} => so'[t] = so[t]
<1> DEFINE x == so[k]
           n == x.other
           v == so[n]
<1>0. /\ OtherTypes /\ Sockets(so) /\ Callers /\ Movers /\ Keepers /\ Holders
      /\ CalledOnce
  BY StructParts
<1>1. x \in Socket /\ SockInv(x) /\ x.op = "keep_alive" /\ x.stage = "none"
  BY <1>0 DEF Sockets, OnKeepAlive, Completed
<1>2. /\ host' = host /\ answer' = answer /\ count' = count /\ pc' = pc
      /\ owed' = owed /\ keep' = keep /\ sock' = sock /\ leaked' = leaked
  BY DEF OnKeepAlive
<1>3. OtherTypes' /\ \A r \in Reqs : SameHold(r)
  BY <1>0, <1>2 DEF OtherTypes, SameHold
<1>4. CASE x.other = None
  <2> DEFINE y == [x EXCEPT !.stage = "dying"]
  <2>1. "dying" \in Stages
    BY DEF Stages
  <2>2. y \in Socket
    BY <1>1, <2>1 DEF Socket
  <2>3. /\ y.used = x.used /\ y.stage = "dying" /\ y.op = x.op /\ y.link = x.link
        /\ y.writes = x.writes /\ y.ready = x.ready /\ y.result = x.result
        /\ y.alive = x.alive /\ y.rest = x.rest /\ y.other = x.other
    BY <1>1 DEF Socket
  <2>4. so' = [so EXCEPT ![k] = y]
    BY <1>0, <1>4 DEF OnKeepAlive, Sockets
  <2> HIDE DEF x, y, n, v
  <2>5. SockInv(y) /\ Mild(x, y)
    BY <1>1, <2>3 DEF SockInv, Mild, Tame, Moving, Reads, Fresh, Target, Forwarded
  <2>6. Sockets(so') /\ \A t \in Socks : Mild(so[t], so'[t])
    BY <1>0, <2>2, <2>4, <2>5, OneSocket DEF x
  <2>7. \A r \in Reqs : pc'[r] # "idle" => host'[r] \in Hosts
    BY <1>0, <1>2 DEF Callers
  <2> QED
    BY <1>1, <1>2, <1>3, <2>6, <2>7, MildStruct DEF x, Kept
<1>5. CASE x.other # None
  <2> DEFINE z == [v EXCEPT !.link = x.link, !.stale = x.stale, !.ready = TRUE,
                            !.stage = "ready"]
  <2>1. n \in Socks /\ Target(v)
    BY <1>0, <1>1, <1>5, SocketFields DEF Keepers, Kept
  <2>2. v \in Socket /\ SockInv(v)
    BY <1>0, <2>1 DEF Sockets
  <2>3. n # k
    BY <1>1, <2>1 DEF Target
  <2>4. so' = [so EXCEPT ![k] = Free, ![n] = z]
    BY <1>0, <1>5, <2>1, <2>3 DEF OnKeepAlive, Sockets
  <2>5. z \in Socket
    <3>1. "ready" \in Stages
      BY DEF Stages
    <3>2. x.link \in {"closed", "open", "peer_closed"} /\ x.stale \in BOOLEAN
      BY <1>1 DEF Socket
    <3> HIDE DEF x, v
    <3> QED
      BY <2>2, <3>1, <3>2 DEF Socket
  <2>6. /\ z.used = v.used /\ z.stage = "ready" /\ z.op = v.op
        /\ z.writes = v.writes /\ z.ready /\ z.result = v.result
        /\ z.alive = v.alive /\ z.rest = v.rest /\ z.other = v.other
    BY <2>2 DEF Socket
  <2>7. Free \in Socket /\ SockInv(Free)
        /\ ~Free.used /\ Free.op = "none" /\ Free.stage = "none" /\ Free.result = None
    BY FreeFields
  <2> HIDE DEF z
  <2>8. /\ so'[k] = Free /\ so'[n] = z
        /\ (\A t \in Socks : t \notin {k, n} => so'[t] = so[t])
        /\ so' \in [Socks -> Socket]
    BY <1>0, <2>1, <2>3, <2>4, <2>5, <2>7 DEF Sockets
  <2> HIDE DEF x, n, v
  <2>9. SockInv(z)
    BY <2>1, <2>2, <2>6 DEF SockInv, Target, Moving, Reads
  <2>10. Sockets(so')
    BY <1>0, <2>7, <2>8, <2>9 DEF Sockets
  <2>11. ~Fresh(so[k]) /\ ~Target(so[k])
    BY <1>1 DEF Fresh, Target, x
  <2>12. Fresh(so[n]) => Fresh(so'[n])
    BY <2>6, <2>8 DEF Fresh, v
  <2>13. Callers'
    <3>1. \A q \in Reqs : pc[q] \in {"connect", "start"} => Fresh(so'[sock[q]])
      BY <1>0, <2>8, <2>11, <2>12 DEF Callers, Held
    <3>2. \A q \in Reqs : pc[q] = "write" => sock[q] # k
      BY <1>0, <1>1 DEF Callers, Kept, x
    <3>3. \A q \in Reqs : pc[q] = "write" => so'[sock[q]].used /\ so'[sock[q]].op # "keep_alive"
      BY <1>0, <2>6, <2>8, <3>2 DEF Callers, Held, Kept, v
    <3> QED
      BY <1>0, <1>2, <3>1, <3>3 DEF Callers, Kept
  <2>14. Movers'
    <3>1. \A m \in Socks : so'[m].stage \in Moving =>
             m \notin {k, n} /\ so'[m] = so[m] /\ so[m].other # k
      BY <1>0, <2>6, <2>7, <2>8, <2>11 DEF Movers, Moving
    <3>2. \A m \in Socks : so'[m].stage \in Moving =>
             so'[m].other \in Socks /\ Fresh(so'[so'[m].other])
      BY <1>0, <2>8, <2>12, <3>1 DEF Movers
    <3> QED
      BY <1>0, <1>2, <3>1, <3>2 DEF Movers
  <2>15. Keepers'
    <3>1. \A l \in Socks : so'[l].op = "keep_alive" =>
             /\ l \notin {k, n} /\ so'[l] = so[l] /\ so[l].op = "keep_alive"
      BY <2>1, <2>6, <2>7, <2>8 DEF Target
    <3>2. \A l \in Socks : so[l].op = "keep_alive" /\ l # k => so[l].other \notin {k, n}
      <4>1. k # None
        BY HttpAssumption
      <4> QED
        BY <1>0, <1>1, <1>5, <2>11, <4>1 DEF Keepers, Kept, n, x
    <3>3. \A l \in Socks : so[l].other \in Socks \cup {None}
      BY <1>0, SocketFields DEF Sockets
    <3>4. \A l \in Socks : so'[l].op = "keep_alive" /\ so'[l].other # None =>
             Target(so'[so'[l].other])
      BY <1>0, <2>8, <3>1, <3>2, <3>3 DEF Keepers, Kept
    <3> QED
      BY <1>0, <3>1, <3>4 DEF Keepers, Kept
  <2>16. Holders' /\ CalledOnce'
    <3>1. \A t \in Socks : so'[t].result # None => t # k /\ so'[t].result = so[t].result
      BY <2>6, <2>7, <2>8 DEF v
    <3>2. \A t \in Socks : Active(so'[t]) => Active(so[t]) /\ so'[t].result = so[t].result
      <4>1. ~Forwarded(so[n])
        BY <2>1 DEF Target, Forwarded, v
      <4> QED
        BY <2>8, <3>1, <4>1 DEF Active
    <3>3. \A t \in Socks : so[t].result \in Reqs \cup {None}
      BY <1>0, SocketFields DEF Sockets
    <3>4. Holders'
      BY <1>0, <1>2, <3>1, <3>2, <3>3 DEF Holders
    <3> QED
      BY <1>0, <1>2, <3>4 DEF CalledOnce
  <2>17. Struct'
    BY <1>3, <2>10, <2>13, <2>14, <2>15, <2>16, StructPartsNext
  <2>18. ~Forwarded(so[n]) /\ so[n].op = "none" /\ so[n].stage = "none"
    BY <2>1 DEF Target, Forwarded, v
  <2>19. so'[n].used = so[n].used /\ so'[n].op = so[n].op
    BY <2>6, <2>8 DEF v
  <2> QED
    BY <1>1, <2>1, <2>3, <2>8, <2>17, <2>18, <2>19 DEF x, Kept
<1> QED
  BY <1>4, <1>5

-----------------------------------------------------------------------------
(***************************************************************************)
(* The books of the pool: count_, keep_sockets_ and who sleeps.            *)
(***************************************************************************)
Making == {r \in Reqs : pc[r] = "make"}

\* One element more or less.
LEMMA OneElement ==
  ASSUME NEW S, NEW x, IsFiniteSet(S)
  PROVE  /\ Cardinality(S \cup {x}) <= Cardinality(S) + 1
         /\ Cardinality(S) - 1 <= Cardinality(S \ {x})
         /\ Cardinality(S) \in Nat /\ Cardinality(S \ {x}) \in Nat
<1>1. Cardinality(S) \in Nat /\ Cardinality(S \ {x}) \in Nat
  BY FS_RemoveElement, FS_CardinalityType
<1>2. \A n \in Nat : n <= n + 1 /\ n - 1 <= n
  OBVIOUS
<1>3. \A n \in Nat : n + 1 <= n + 1 /\ n - 1 <= n - 1 /\ n <= n
  OBVIOUS
<1>4. Cardinality(S \cup {x}) \in {Cardinality(S), Cardinality(S) + 1}
  BY FS_AddElement
<1>5. Cardinality(S \ {x}) \in {Cardinality(S), Cardinality(S) - 1}
  BY FS_RemoveElement
<1>6. Cardinality(S \cup {x}) <= Cardinality(S) + 1
  BY <1>1, <1>2, <1>3, <1>4
<1>7. Cardinality(S) - 1 <= Cardinality(S \ {x})
  BY <1>1, <1>2, <1>3, <1>5
<1> QED
  BY <1>1, <1>6, <1>7

\* What is counted is finite.
LEMMA Counted ==
  ASSUME OtherTypes
  PROVE  /\ IsFiniteSet(InUse) /\ Cardinality(InUse) \in Nat
         /\ IsFiniteSet(Making) /\ Cardinality(Making) \in Nat
         /\ IsFiniteSet(keep) /\ Cardinality(keep) \in Nat
         /\ IsFiniteSet(Moved) /\ Cardinality(Moved) \in Nat
         /\ CountExact <=> count = Cardinality(InUse) + Cardinality(Making) + owed + leaked
<1>1. InUse \subseteq Socks /\ Making \subseteq Reqs /\ keep \subseteq Socks
      /\ Moved \subseteq Socks
  BY DEF InUse, Making, Moved, OtherTypes
<1>2. IsFiniteSet(Socks) /\ IsFiniteSet(Reqs)
  BY HttpAssumption
<1>3. IsFiniteSet(InUse) /\ IsFiniteSet(Making) /\ IsFiniteSet(keep) /\ IsFiniteSet(Moved)
  BY <1>1, <1>2, FS_Subset
<1>4. CountExact <=> count = Cardinality(InUse) + Cardinality(Making) + owed + leaked
  BY DEF CountExact, Making
<1> QED
  BY <1>3, <1>4, FS_CardinalityType

\* The same after a step.
LEMMA CountedNext ==
  ASSUME OtherTypes'
  PROVE  /\ IsFiniteSet(InUse') /\ Cardinality(InUse') \in Nat
         /\ IsFiniteSet(Making') /\ Cardinality(Making') \in Nat
         /\ IsFiniteSet(keep') /\ Cardinality(keep') \in Nat
         /\ IsFiniteSet(Moved') /\ Cardinality(Moved') \in Nat
         /\ CountExact' <=> count' = Cardinality(InUse') + Cardinality(Making')
                                      + owed' + leaked'
<1>1. InUse' \subseteq Socks /\ Making' \subseteq Reqs /\ keep' \subseteq Socks
      /\ Moved' \subseteq Socks
  BY DEF InUse, Making, Moved, OtherTypes
<1>2. IsFiniteSet(Socks) /\ IsFiniteSet(Reqs)
  BY HttpAssumption
<1>3. /\ IsFiniteSet(InUse') /\ IsFiniteSet(Making') /\ IsFiniteSet(keep')
      /\ IsFiniteSet(Moved')
  BY <1>1, <1>2, FS_Subset
<1>4. CountExact' <=> count' = Cardinality(InUse') + Cardinality(Making') + owed' + leaked'
  BY DEF CountExact, Making
<1> QED
  BY <1>3, <1>4, FS_CardinalityType

\* count_ is not negative, and positive while a socket is in use.
LEMMA CountPositive ==
  ASSUME OtherTypes, CountExact
  PROVE  count >= 0 /\ (InUse # {} => count > 0)
<1>1. /\ IsFiniteSet(InUse) /\ Cardinality(InUse) \in Nat /\ Cardinality(Making) \in Nat
      /\ count = Cardinality(InUse) + Cardinality(Making) + owed + leaked
  BY Counted
<1>2. owed \in Nat /\ leaked \in Nat
  BY DEF OtherTypes
<1>3. InUse # {} => Cardinality(InUse) # 0
  BY <1>1, FS_EmptySet
<1> QED
  BY <1>1, <1>2, <1>3

\* A socket that has moved its request.
LEMMA MovedSockets ==
  /\ Moved = {s \in Socks : so[s].stage \in Moving \/ Forwarded(so[s])}
  /\ Moved' = {s \in Socks : so'[s].stage \in Moving \/ Forwarded(so'[s])}
BY DEF Moved, Moving, Forwarded

\* Who sleeps and who is awake may change only for the better.
NoSleeper ==
  /\ \A r \in Reqs : pc[r] = "lock" => pc'[r] = "lock"
  /\ \A r \in Reqs : pc'[r] = "asleep" => pc[r] = "asleep"
  /\ \A r \in Reqs : pc'[r] = "make" <=> pc[r] = "make"

\* A step that does not touch the books keeps them right.
LEMMA CalmBooks ==
  ASSUME IInv, Struct', InUse' = InUse, Moved \subseteq Moved', NoSleeper,
         count' = count, keep' = keep, owed' = owed, leaked' = leaked
  PROVE  IInv'
<1>1. OtherTypes /\ OtherTypes' /\ CountExact /\ Capacity /\ WakeUpOwed
  BY StructParts, StructPartsNext DEF IInv
<1>2. Making' = Making
  BY DEF Making, NoSleeper
<1>3. CountExact'
  BY <1>1, <1>2, Counted, CountedNext
<1>4. Cardinality(Moved) <= Cardinality(Moved')
  BY <1>1, CountedNext, FS_Subset
<1>5. /\ Cardinality(keep) \in Nat /\ Cardinality(Moved) \in Nat
      /\ Cardinality(Moved') \in Nat /\ MaxCount \in Nat
      /\ count \in Int /\ owed \in Nat /\ leaked \in Nat
  BY <1>1, Counted, CountedNext, HttpAssumption DEF OtherTypes
<1>6. Capacity'
  BY <1>1, <1>4, <1>5 DEF Capacity
<1>7. WakeUpOwed'
  BY <1>1 DEF WakeUpOwed, NoSleeper
<1> QED
  BY <1>3, <1>6, <1>7 DEF IInv

\* What a handler of one socket does to it does not touch the books.
LEMMA TameBooks ==
  ASSUME \A t \in Socks : Tame(so[t], so'[t])
  PROVE  InUse' = InUse /\ Moved \subseteq Moved'
<1>1. InUse' = InUse
  BY DEF InUse, Kept, Tame
<1>2. Moved \subseteq Moved'
  BY MovedSockets DEF Tame
<1> QED
  BY <1>1, <1>2

\* notify_one() leaves nobody asleep unless somebody is awake.
LEMMA NotifyWakes ==
  ASSUME OtherTypes, NotifyOne
  PROVE  (\E r \in Reqs : pc'[r] = "asleep") => \E r \in Reqs : pc'[r] = "lock"
<1>1. ASSUME NEW q \in Reqs, pc' = [pc EXCEPT ![q] = "lock"]
      PROVE  \E r \in Reqs : pc'[r] = "lock"
  BY <1>1 DEF OtherTypes
<1>2. CASE {r \in Reqs : pc[r] = "asleep"} = {}
  BY <1>2 DEF NotifyOne
<1>3. CASE {r \in Reqs : pc[r] = "asleep"} # {}
  BY <1>1, <1>3 DEF NotifyOne
<1> QED
  BY <1>2, <1>3

\* A step that concerns one socket does not touch the books.
LEMMA QuietBooks ==
  ASSUME IInv, Quiet
  PROVE  IInv'
<1>1. Struct' /\ \A t \in Socks : Tame(so[t], so'[t])
  BY QuietStruct DEF IInv, Quiet, Mild
<1>2. /\ count' = count /\ keep' = keep /\ owed' = owed /\ leaked' = leaked
      /\ pc' = pc
  BY DEF Quiet
<1> QED
  BY <1>1, <1>2, TameBooks, CalmBooks DEF NoSleeper

\* Nor does the hand-over of a connection or of a request.
LEMMA HandOver ==
  ASSUME IInv, NEW s \in Socks
  PROVE  /\ AsyncReuse(s) => IInv'
         /\ MoveStart(s) => IInv'
         /\ OnKeepAlive(s) => IInv'
<1>0. Struct /\ OtherTypes /\ Sockets(so)
  BY StructParts DEF IInv
<1>1. ASSUME AsyncReuse(s) PROVE IInv'
  <2>1. /\ Struct' /\ \A t \in Socks : Tame(so[t], so'[t])
        /\ NoSleeper
    BY <1>0, <1>1, AsyncReuseStruct DEF NoSleeper
  <2>2. /\ count' = count /\ keep' = keep /\ owed' = owed /\ leaked' = leaked
    BY <1>1 DEF AsyncReuse
  <2> QED
    BY <2>1, <2>2, TameBooks, CalmBooks
<1>2. ASSUME MoveStart(s) PROVE IInv'
  <2>1. /\ Struct'
        /\ \A t \in Socks : so'[t].used = so[t].used /\ so'[t].op = so[t].op
        /\ \A t \in Socks : t # s => so'[t].stage = so[t].stage
        /\ Forwarded(so'[s]) /\ ~Forwarded(so[so[s].other])
        /\ \A t \in Socks : t \notin {s, so[s].other} => so'[t] = so[t]
    BY <1>0, <1>2, MoveStartStruct
  <2>2. /\ count' = count /\ keep' = keep /\ owed' = owed /\ leaked' = leaked
        /\ pc' = pc
    BY <1>2 DEF MoveStart
  <2>3. InUse' = InUse
    BY <2>1 DEF InUse, Kept
  <2>4. Moved \subseteq Moved'
    BY <2>1, MovedSockets
  <2> QED
    BY <2>1, <2>2, <2>3, <2>4, CalmBooks DEF NoSleeper
<1>3. ASSUME OnKeepAlive(s) PROVE IInv'
  <2>1. Struct' /\ Kept(s)
    BY <1>0, <1>3, OnKeepAliveStruct
  <2>2. /\ count' = count /\ keep' = keep /\ owed' = owed /\ leaked' = leaked
        /\ pc' = pc
    BY <1>3 DEF OnKeepAlive
  <2>3. CASE \A t \in Socks : Mild(so[t], so'[t])
    BY <2>1, <2>2, <2>3, TameBooks, CalmBooks DEF NoSleeper, Mild
  <2>4. ASSUME NEW n, n # s, so'[s] = Free,
               so'[n].used = so[n].used, so'[n].op = so[n].op,
               ~Forwarded(so[n]), so[n].stage = "none",
               \A t \in Socks : t \notin {s, n} => so'[t] = so[t]
        PROVE  IInv'
    <3>1. so[s].stage \notin Moving /\ ~Forwarded(so[s])
      BY <1>3, <2>1 DEF OnKeepAlive, Forwarded, Kept, Moving
    <3>2. InUse' = InUse
      BY <2>1, <2>4, FreeFields DEF InUse, Kept
    <3>3. Moved \subseteq Moved'
      BY <2>4, <3>1, MovedSockets DEF Moving
    <3> QED
      BY <2>1, <2>2, <3>2, <3>3, CalmBooks DEF NoSleeper
  <2> QED
    BY <1>0, <1>3, <2>3, <2>4, OnKeepAliveStruct
<1> QED
  BY <1>1, <1>2, <1>3

\* Nor does a request that begins, or that has its socket.
LEMMA StartBooks ==
  ASSUME IInv, NEW r \in Reqs
  PROVE  /\ Start(r) => IInv'
         /\ StartWrite(r) => IInv'
         /\ \A h \in Hosts : Connect(r, h) => IInv'
<1>0. Struct /\ OtherTypes /\ Sockets(so)
  BY StructParts DEF IInv
<1>1. ASSUME Start(r) PROVE IInv'
  <2> DEFINE x == so[sock[r]]
             y == [x EXCEPT !.result = r]
  <2>1. Struct' /\ Fresh(x) /\ sock[r] \in Socks
    BY <1>0, <1>1, StartStruct
  <2>2. /\ count' = count /\ keep' = keep /\ owed' = owed /\ leaked' = leaked
        /\ pc[r] = "start" /\ pc' = [pc EXCEPT ![r] = "write"]
        /\ so' = [so EXCEPT ![sock[r]] = y]
    BY <1>0, <1>1 DEF Start, Sockets
  <2>3. so'[sock[r]] = y /\ \A t \in Socks : t # sock[r] => so'[t] = so[t]
    BY <1>0, <2>1, <2>2 DEF Sockets
  <2>4. y.used = x.used /\ y.op = x.op
    BY <1>0, <2>1 DEF Sockets, Socket
  <2> HIDE DEF y
  <2>5. InUse' = InUse
    BY <2>3, <2>4 DEF InUse, Kept
  <2>6. x.stage \notin Moving /\ ~Forwarded(x)
    BY <2>1 DEF Fresh, Forwarded, Moving
  <2>7. Moved \subseteq Moved'
    BY <2>3, <2>6, MovedSockets
  <2>8. NoSleeper
    BY <1>0, <2>2 DEF NoSleeper, OtherTypes
  <2> QED
    BY <2>1, <2>2, <2>5, <2>7, <2>8, CalmBooks
<1>2. ASSUME StartWrite(r) PROVE IInv'
  <2>1. Struct' /\ \A t \in Socks : Tame(so[t], so'[t])
    BY <1>0, <1>2, StartWriteStruct DEF Mild
  <2>2. /\ count' = count /\ keep' = keep /\ owed' = owed /\ leaked' = leaked
        /\ pc[r] = "write" /\ pc' = [pc EXCEPT ![r] = "done"]
    BY <1>2 DEF StartWrite
  <2>3. NoSleeper
    BY <1>0, <2>2 DEF NoSleeper, OtherTypes
  <2> QED
    BY <2>1, <2>2, <2>3, TameBooks, CalmBooks
<1>3. ASSUME NEW h \in Hosts, Connect(r, h) PROVE IInv'
  <2>1. Struct'
    BY <1>0, <1>3, CallerStruct
  <2>2. /\ count' = count /\ keep' = keep /\ owed' = owed /\ leaked' = leaked
        /\ pc[r] = "idle" /\ pc' = [pc EXCEPT ![r] = "lock"] /\ so' = so
    BY <1>3 DEF Connect
  <2>3. NoSleeper
    BY <1>0, <2>2 DEF NoSleeper, OtherTypes
  <2>4. InUse' = InUse /\ Moved' = Moved
    BY <2>2 DEF InUse, Moved, Kept
  <2> QED
    BY <2>1, <2>2, <2>3, <2>4, CalmBooks
<1> QED
  BY <1>1, <1>2, <1>3

\* lock_wait() takes a place only when there is one, and whoever then goes to
\* sleep has seen that there is none.
LEMMA LockWaitBooks ==
  ASSUME IInv, NEW r \in Reqs, LockWait(r)
  PROVE  IInv'
<1>0. /\ Struct /\ OtherTypes /\ CountExact /\ Capacity /\ WakeUpOwed
      /\ Struct' /\ OtherTypes'
  BY StructParts, StructPartsNext, CallerStruct DEF IInv
<1>1. /\ so' = so /\ keep' = keep /\ owed' = owed /\ leaked' = leaked /\ pc[r] = "lock"
  BY DEF LockWait
<1>2. InUse' = InUse /\ Moved' = Moved
  BY <1>1 DEF InUse, Moved, Kept
<1>3. /\ Cardinality(keep) \in Nat /\ Cardinality(Moved) \in Nat /\ MaxCount \in Nat
      /\ count \in Int /\ owed \in Nat /\ leaked \in Nat /\ Cardinality(Making) \in Nat
      /\ IsFiniteSet(Making) /\ Cardinality(InUse) \in Nat
      /\ count = Cardinality(InUse) + Cardinality(Making) + owed + leaked
      /\ CountExact' <=> count' = Cardinality(InUse') + Cardinality(Making')
                                   + owed' + leaked'
  BY <1>0, Counted, CountedNext, HttpAssumption DEF OtherTypes
<1>4. CASE /\ count + Cardinality(keep) < MaxCount
           /\ pc' = [pc EXCEPT ![r] = "make"] /\ count' = count + 1
  <2>1. Making' = Making \cup {r} /\ r \notin Making
    BY <1>0, <1>1, <1>4 DEF Making, OtherTypes
  <2>2. Cardinality(Making') = Cardinality(Making) + 1
    BY <1>3, <2>1, FS_AddElement
  <2>3. CountExact'
    BY <1>1, <1>2, <1>3, <1>4, <2>2
  <2>4. count' + Cardinality(keep') <= MaxCount
    BY <1>1, <1>3, <1>4
  <2>5. Capacity'
    BY <1>1, <1>2, <1>3, <1>4, <2>4 DEF Capacity
  <2>6. count' > 0
    BY <1>3, <1>4
  <2>7. WakeUpOwed'
    BY <2>6 DEF WakeUpOwed
  <2> QED
    BY <1>0, <2>3, <2>5, <2>7 DEF IInv
<1>5. CASE /\ ~(count + Cardinality(keep) < MaxCount)
           /\ pc' = [pc EXCEPT ![r] = "asleep"] /\ count' = count
  <2>1. Making' = Making
    BY <1>0, <1>1, <1>5 DEF Making, OtherTypes
  <2>2. CountExact'
    BY <1>1, <1>2, <1>3, <1>5, <2>1
  <2>3. Capacity'
    BY <1>0, <1>1, <1>2, <1>5 DEF Capacity
  <2>4. WakeUpOwed'
    BY <1>1, <1>5 DEF WakeUpOwed
  <2> QED
    BY <1>0, <2>2, <2>3, <2>4 DEF IInv
<1> QED
  BY <1>4, <1>5 DEF LockWait

\* do_connect() turns a place into a socket, or loses it.
LEMMA MakeBooks ==
  ASSUME IInv, NEW r \in Reqs, Make(r)
  PROVE  IInv'
<1>0. /\ Struct /\ OtherTypes /\ Sockets(so) /\ CountExact /\ Capacity /\ WakeUpOwed
  BY StructParts DEF IInv
<1>1. /\ count' = count /\ keep' = keep /\ owed' = owed /\ pc[r] = "make"
  BY DEF Make
<1>2. /\ Cardinality(keep) \in Nat /\ Cardinality(Moved) \in Nat /\ MaxCount \in Nat
      /\ count \in Int /\ owed \in Nat /\ leaked \in Nat /\ Cardinality(Making) \in Nat
      /\ IsFiniteSet(Making) /\ Cardinality(InUse) \in Nat /\ IsFiniteSet(InUse)
      /\ count = Cardinality(InUse) + Cardinality(Making) + owed + leaked
  BY <1>0, Counted, HttpAssumption DEF OtherTypes
<1>3. ASSUME NEW s \in Socks, ~so[s].used,
             so' = [so EXCEPT ![s] = NewSocket(host[r], MaxRetry)],
             sock' = [sock EXCEPT ![r] = s], pc' = [pc EXCEPT ![r] = "connect"],
             leaked' = leaked
      PROVE  IInv'
  <2>1. Struct' /\ OtherTypes'
    BY <1>0, <1>3, MakeStruct, StructPartsNext
  <2>2. Making' = Making \ {r} /\ r \in Making
    BY <1>0, <1>1, <1>3 DEF Making, OtherTypes
  <2>3. Cardinality(Making') = Cardinality(Making) - 1
    BY <1>2, <2>2, FS_RemoveElement
  <2>4. /\ so'[s].used /\ so'[s].op = "none"
        /\ \A t \in Socks : t # s => so'[t] = so[t]
    BY <1>0, <1>3 DEF Sockets, NewSocket, Free
  <2>5. InUse' = InUse \cup {s} /\ s \notin InUse
    BY <1>3, <2>4 DEF InUse, Kept
  <2>6. Cardinality(InUse') = Cardinality(InUse) + 1
    BY <1>2, <2>5, FS_AddElement
  <2>7. CountExact'
    BY <1>1, <1>2, <1>3, <2>1, <2>3, <2>6, CountedNext
  <2>8. s \notin Moved
    BY <1>0, <1>3, UnusedRefs, MovedSockets DEF Forwarded, Moving
  <2>9. Moved \subseteq Moved'
    BY <2>4, <2>8, MovedSockets
  <2>10. Cardinality(Moved) <= Cardinality(Moved') /\ Cardinality(Moved') \in Nat
    BY <2>1, <2>9, CountedNext, FS_Subset
  <2>11. Capacity'
    BY <1>0, <1>1, <1>2, <1>3, <2>10 DEF Capacity
  <2>12. count > 0
    BY <1>2, <2>3, <2>1, CountedNext DEF OtherTypes
  <2>13. WakeUpOwed'
    BY <1>1, <2>12 DEF WakeUpOwed
  <2> QED
    BY <2>1, <2>7, <2>11, <2>13 DEF IInv
<1>4. ASSUME pc' = [pc EXCEPT ![r] = "thrown"], leaked' = leaked + 1, so' = so
      PROVE  IInv'
  <2>1. Struct' /\ OtherTypes'
    BY <1>0, <1>4, CallerStruct, StructPartsNext
  <2>2. Making' = Making \ {r} /\ r \in Making
    BY <1>0, <1>1, <1>4 DEF Making, OtherTypes
  <2>3. Cardinality(Making') = Cardinality(Making) - 1
    BY <1>2, <2>2, FS_RemoveElement
  <2>4. InUse' = InUse /\ Moved' = Moved
    BY <1>4 DEF InUse, Moved, Kept
  <2>5. CountExact'
    <3>1. count' = Cardinality(InUse') + Cardinality(Making') + owed' + leaked'
      <4>1. Cardinality(InUse') = Cardinality(InUse)
        BY <2>4
      <4>2. \A u, m, o, l \in Nat : u + m + o + l = u + (m - 1) + o + (l + 1)
        OBVIOUS
      <4>3. count = Cardinality(InUse) + (Cardinality(Making) - 1) + owed + (leaked + 1)
        BY <1>2, <4>2
      <4> QED
        BY <1>1, <1>4, <2>3, <4>1, <4>3
    <3> QED
      BY <2>1, <3>1, CountedNext
  <2>6. Capacity'
    BY <1>0, <1>1, <1>2, <1>4, <2>4 DEF Capacity
  <2>7. leaked' # 0
    BY <1>2, <1>4
  <2>8. WakeUpOwed'
    BY <2>7 DEF WakeUpOwed
  <2> QED
    BY <2>1, <2>5, <2>6, <2>8 DEF IInv
<1> QED
  BY <1>3, <1>4 DEF Make

\* --count_ after collect(), with its notify_one().
LEMMA UncountBooks ==
  ASSUME IInv, Uncount
  PROVE  IInv'
<1>0. /\ Struct /\ OtherTypes /\ CountExact /\ Capacity
  BY StructParts DEF IInv
<1>1. /\ count' = count - 1 /\ keep' = keep /\ owed' = owed - 1 /\ leaked' = leaked
      /\ so' = so /\ host' = host /\ sock' = sock /\ answer' = answer /\ owed > 0
      /\ NotifyOne
  BY DEF Uncount
<1>2. /\ pc' \in [Reqs -> PCs] /\ \A r \in Reqs : SameHold(r)
      /\ \A r \in Reqs : pc'[r] # "idle" => pc[r] # "idle"
      /\ \A r \in Reqs : pc'[r] = "make" <=> pc[r] = "make"
  BY <1>0, <1>1, NotifyHold
<1>3. OtherTypes'
  BY <1>0, <1>1, <1>2 DEF OtherTypes
<1>4. Struct'
  <2>1. Sockets(so') /\ \A t \in Socks : Mild(so[t], so'[t])
    BY <1>0, <1>1, StructParts, MildSame
  <2>2. \A r \in Reqs : pc'[r] # "idle" => host'[r] \in Hosts
    BY <1>0, <1>1, <1>2, StructParts DEF Callers
  <2> QED
    BY <1>0, <1>1, <1>2, <1>3, <2>1, <2>2, MildStruct
<1>5. InUse' = InUse /\ Moved' = Moved /\ Making' = Making
  BY <1>1, <1>2 DEF InUse, Moved, Kept, Making
<1>6. /\ Cardinality(keep) \in Nat /\ Cardinality(Moved) \in Nat /\ MaxCount \in Nat
      /\ count \in Int /\ owed \in Nat /\ leaked \in Nat /\ Cardinality(Making) \in Nat
      /\ Cardinality(InUse) \in Nat
      /\ count = Cardinality(InUse) + Cardinality(Making) + owed + leaked
  BY <1>0, Counted, HttpAssumption DEF OtherTypes
<1>7. CountExact'
  <2>1. count' = Cardinality(InUse) + Cardinality(Making) + owed' + leaked'
    BY <1>1, <1>6
  <2>2. Cardinality(InUse') = Cardinality(InUse) /\ Cardinality(Making') = Cardinality(Making)
    BY <1>5
  <2> QED
    BY <1>3, <2>1, <2>2, CountedNext
<1>8. Capacity'
  BY <1>0, <1>1, <1>5, <1>6 DEF Capacity
<1>9. WakeUpOwed'
  BY <1>0, <1>1, NotifyWakes DEF WakeUpOwed
<1> QED
  BY <1>4, <1>7, <1>8, <1>9 DEF IInv

\* reuse() takes a kept socket out of the pool and wakes nobody, but the socket it
\* is for is in use.
LEMMA AsyncConnectBooks ==
  ASSUME IInv, NEW s \in Socks, AsyncConnect(s)
  PROVE  IInv'
<1>0. /\ Struct /\ OtherTypes /\ Sockets(so) /\ CountExact /\ Capacity /\ WakeUpOwed
  BY StructParts DEF IInv
<1>1. Struct' /\ OtherTypes'
  BY <1>0, AsyncConnectStruct, StructPartsNext
<1>2. /\ \A t \in Socks : Tame(so[t], so'[t])
      /\ \A r \in Reqs : pc'[r] = "make" <=> pc[r] = "make"
  BY <1>0, AsyncConnectMild DEF Mild
<1>3. InUse' = InUse /\ Moved \subseteq Moved' /\ Making' = Making
  BY <1>2, TameBooks DEF Making
<1>4. /\ count' = count /\ owed' = owed /\ leaked' = leaked /\ keep' \subseteq keep
  BY DEF AsyncConnect
<1>5. /\ Cardinality(keep) \in Nat /\ Cardinality(Moved) \in Nat /\ MaxCount \in Nat
      /\ count \in Int /\ owed \in Nat /\ leaked \in Nat
      /\ Cardinality(keep') \in Nat /\ Cardinality(Moved') \in Nat
      /\ IsFiniteSet(keep) /\ IsFiniteSet(Moved')
  BY <1>0, <1>1, Counted, CountedNext, HttpAssumption DEF OtherTypes
<1>6. CountExact'
  BY <1>0, <1>1, <1>3, <1>4, Counted, CountedNext
<1>7. Cardinality(keep') <= Cardinality(keep) /\ Cardinality(Moved) <= Cardinality(Moved')
  BY <1>3, <1>4, <1>5, FS_Subset
<1>8. Capacity'
  BY <1>0, <1>4, <1>5, <1>7 DEF Capacity
<1>9. s \in InUse
  BY <1>0 DEF AsyncConnect, Sockets, SockInv, InUse, Kept
<1>10. count > 0
  BY <1>0, <1>9, CountPositive
<1>11. WakeUpOwed'
  BY <1>4, <1>10 DEF WakeUpOwed
<1> QED
  BY <1>1, <1>6, <1>8, <1>11 DEF IInv

\* on_move() takes a place without asking for one, and the socket it leaves behind
\* is one more that has moved its request; resolve() may lose the place.
LEMMA OnMoveBooks ==
  ASSUME IInv, NEW s \in Socks, NEW h \in Hosts, OnMove(s, h)
  PROVE  IInv'
<1>0. /\ Struct /\ OtherTypes /\ Sockets(so) /\ CountExact /\ Capacity /\ WakeUpOwed
  BY StructParts DEF IInv
<1>1. Struct' /\ OtherTypes'
  BY <1>0, OnMoveStruct, StructPartsNext
<1>2. count' = count + 1 /\ keep' = keep /\ owed' = owed /\ pc' = pc
  BY DEF OnMove
<1>3. /\ Cardinality(keep) \in Nat /\ Cardinality(Moved) \in Nat /\ MaxCount \in Nat
      /\ count \in Int /\ owed \in Nat /\ leaked \in Nat /\ Cardinality(Making) \in Nat
      /\ IsFiniteSet(InUse) /\ Cardinality(InUse) \in Nat
      /\ IsFiniteSet(Moved) /\ IsFiniteSet(Moved') /\ Cardinality(Moved') \in Nat
      /\ count = Cardinality(InUse) + Cardinality(Making) + owed + leaked
      /\ CountExact' <=> count' = Cardinality(InUse') + Cardinality(Making')
                                   + owed' + leaked'
  BY <1>0, <1>1, Counted, CountedNext, HttpAssumption DEF OtherTypes
<1>4. Making' = Making
  BY <1>2 DEF Making
<1>5. WakeUpOwed'
  <2>1. count' > 0
    BY <1>0, <1>2, <1>3, CountPositive
  <2> QED
    BY <2>1 DEF WakeUpOwed
<1>6. CASE leaked' = leaked + 1 /\ \A t \in Socks : Mild(so[t], so'[t])
  <2>1. InUse' = InUse /\ Moved \subseteq Moved'
    BY <1>6, TameBooks DEF Mild
  <2>2. Cardinality(InUse') = Cardinality(InUse) /\ Cardinality(Making') = Cardinality(Making)
    BY <1>4, <2>1
  <2>3. count' = Cardinality(InUse) + Cardinality(Making) + owed' + leaked'
    BY <1>2, <1>3, <1>6
  <2>4. CountExact'
    BY <1>3, <2>2, <2>3
  <2>5. Cardinality(Moved) <= Cardinality(Moved')
    BY <1>3, <2>1, FS_Subset
  <2>6. Capacity'
    BY <1>0, <1>2, <1>3, <1>6, <2>5 DEF Capacity
  <2> QED
    BY <1>1, <1>5, <2>4, <2>6 DEF IInv
<1>7. ASSUME NEW n \in Socks, leaked' = leaked, n # s, ~so[n].used,
             so'[n].used, so'[n].op = "none", so[s].op = "read_header",
             so[s].used, so'[s].used, so'[s].op = "none", so'[s].stage = "moving",
             so[n].op = "none", so[n].stage = "none", so[n].result = None,
             \A t \in Socks : t \notin {s, n} => so'[t] = so[t]
      PROVE  IInv'
  <2>1. InUse' = InUse \cup {n} /\ n \notin InUse
    BY <1>7 DEF InUse, Kept
  <2>2. Cardinality(InUse') = Cardinality(InUse) + 1
    BY <1>3, <2>1, FS_AddElement
  <2>3. Cardinality(Making') = Cardinality(Making)
    BY <1>4
  <2>4. count' = (Cardinality(InUse) + 1) + Cardinality(Making) + owed' + leaked'
    BY <1>2, <1>3, <1>7
  <2>5. CountExact'
    BY <1>3, <2>2, <2>3, <2>4
  <2>6. so[s].stage \notin Moving
    BY <1>0, <1>7 DEF Sockets, SockInv
  <2>7. s \notin Moved /\ n \notin Moved
    BY <1>7, <2>6, MovedSockets DEF Forwarded, Moving
  <2>8. Moved \cup {s} \subseteq Moved'
    BY <1>7, <2>7, MovedSockets DEF Moving
  <2>9. Cardinality(Moved \cup {s}) = Cardinality(Moved) + 1
    BY <1>3, <2>7, FS_AddElement
  <2>10. Cardinality(Moved) + 1 <= Cardinality(Moved')
    BY <1>3, <2>8, <2>9, FS_Subset
  <2>11. Capacity'
    BY <1>0, <1>2, <1>3, <1>7, <2>10 DEF Capacity
  <2> QED
    BY <1>1, <1>5, <2>5, <2>11 DEF IInv
<1> QED
  BY <1>0, <1>6, <1>7, OnMoveStruct

\* socket_deleter() gives a place back and wakes somebody up.
LEMMA DeleteBooks ==
  ASSUME IInv, NEW s \in Socks, Delete(s)
  PROVE  IInv'
<1>0. /\ Struct /\ OtherTypes /\ Sockets(so) /\ CountExact /\ Capacity
  BY StructParts DEF IInv
<1>1. /\ Struct' /\ OtherTypes' /\ so'[s] = Free
      /\ \A t \in Socks : t # s => so'[t] = so[t]
  BY <1>0, DeleteStruct, StructPartsNext
<1>2. /\ count' = count - 1 /\ keep' = keep /\ owed' = owed /\ leaked' = leaked
      /\ NotifyOne /\ so[s].used /\ so[s].op = "none"
  BY DEF Delete, Unreferenced
<1>3. /\ Cardinality(keep) \in Nat /\ Cardinality(Moved) \in Nat /\ MaxCount \in Nat
      /\ count \in Int /\ owed \in Nat /\ leaked \in Nat /\ Cardinality(Making) \in Nat
      /\ IsFiniteSet(InUse) /\ Cardinality(InUse) \in Nat
      /\ IsFiniteSet(Moved) /\ IsFiniteSet(Moved') /\ Cardinality(Moved') \in Nat
      /\ count = Cardinality(InUse) + Cardinality(Making) + owed + leaked
      /\ CountExact' <=> count' = Cardinality(InUse') + Cardinality(Making')
                                   + owed' + leaked'
  BY <1>0, <1>1, Counted, CountedNext, HttpAssumption DEF OtherTypes
<1>4. Making' = Making
  BY <1>0, <1>2, NotifyHold DEF Making
<1>5. InUse' = InUse \ {s} /\ s \in InUse
  BY <1>1, <1>2, FreeFields DEF InUse, Kept
<1>6. Cardinality(InUse') = Cardinality(InUse) - 1
  BY <1>3, <1>5, FS_RemoveElement
<1>7. CountExact'
  <2>1. Cardinality(Making') = Cardinality(Making)
    BY <1>4
  <2>2. count' = (Cardinality(InUse) - 1) + Cardinality(Making) + owed' + leaked'
    BY <1>2, <1>3
  <2> QED
    BY <1>3, <1>6, <2>1, <2>2
<1>8. Moved \ {s} \subseteq Moved'
  BY <1>1, MovedSockets
<1>9. Cardinality(Moved) - 1 <= Cardinality(Moved')
  <2>1. Cardinality(Moved) - 1 <= Cardinality(Moved \ {s})
    BY <1>3, OneElement
  <2>2. Cardinality(Moved \ {s}) <= Cardinality(Moved')
    BY <1>3, <1>8, FS_Subset
  <2>3. Cardinality(Moved \ {s}) \in Nat
    BY <1>3, FS_RemoveElement, FS_CardinalityType
  <2> QED
    BY <1>3, <2>1, <2>2, <2>3
<1>10. Capacity'
  BY <1>0, <1>2, <1>3, <1>9 DEF Capacity
<1>11. WakeUpOwed'
  BY <1>0, <1>2, NotifyWakes DEF WakeUpOwed
<1> QED
  BY <1>1, <1>7, <1>10, <1>11 DEF IInv

\* collect() keeps a socket that its deleter still counts.
LEMMA CollectBooks ==
  ASSUME IInv, NEW s \in Socks, Collect(s)
  PROVE  IInv'
<1>0. /\ Struct /\ OtherTypes /\ Sockets(so) /\ CountExact /\ Capacity
  BY StructParts DEF IInv
<1>1. /\ Struct' /\ OtherTypes' /\ so[s].used /\ so'[s].op = "keep_alive" /\ ~Kept(s)
      /\ so[s].stage = "none" /\ so[s].result = None
      /\ \A t \in Socks : t # s => so'[t] = so[t]
  BY <1>0, CollectStruct, StructPartsNext
<1>2. /\ count' = count /\ keep' = keep \cup {s} /\ owed' = owed + 1 /\ leaked' = leaked
      /\ pc' = pc
  BY DEF Collect
<1>3. /\ Cardinality(keep) \in Nat /\ Cardinality(Moved) \in Nat /\ MaxCount \in Nat
      /\ count \in Int /\ owed \in Nat /\ leaked \in Nat /\ Cardinality(Making) \in Nat
      /\ IsFiniteSet(InUse) /\ Cardinality(InUse) \in Nat /\ IsFiniteSet(keep)
      /\ IsFiniteSet(Moved) /\ IsFiniteSet(Moved') /\ Cardinality(Moved') \in Nat
      /\ Cardinality(keep') \in Nat
      /\ count = Cardinality(InUse) + Cardinality(Making) + owed + leaked
      /\ CountExact' <=> count' = Cardinality(InUse') + Cardinality(Making')
                                   + owed' + leaked'
  BY <1>0, <1>1, Counted, CountedNext, HttpAssumption DEF OtherTypes
<1>4. Making' = Making
  BY <1>2 DEF Making
<1>5. InUse' = InUse \ {s} /\ s \in InUse
  BY <1>1 DEF InUse, Kept
<1>6. Cardinality(InUse') = Cardinality(InUse) - 1
  BY <1>3, <1>5, FS_RemoveElement
<1>7. CountExact'
  <2>1. Cardinality(Making') = Cardinality(Making)
    BY <1>4
  <2>2. count' = (Cardinality(InUse) - 1) + Cardinality(Making) + owed' + leaked'
    <3>1. \A u, m, o, l \in Nat : u + m + o + l = (u - 1) + m + (o + 1) + l
      OBVIOUS
    <3>2. count = (Cardinality(InUse) - 1) + Cardinality(Making) + (owed + 1) + leaked
      BY <1>3, <3>1
    <3> QED
      BY <1>2, <3>2
  <2> QED
    BY <1>3, <1>6, <2>1, <2>2
<1>8. s \notin Moved
  BY <1>1, MovedSockets DEF Forwarded, Moving
<1>9. Moved \subseteq Moved'
  BY <1>1, <1>8, MovedSockets
<1>10. Cardinality(Moved) <= Cardinality(Moved')
  BY <1>3, <1>9, FS_Subset
<1>11. Cardinality(keep') <= Cardinality(keep) + 1
  BY <1>2, <1>3, OneElement
<1>12. Capacity'
  BY <1>0, <1>2, <1>3, <1>10, <1>11 DEF Capacity
<1>13. count > 0
  BY <1>0, <1>5, CountPositive
<1>14. WakeUpOwed'
  BY <1>2, <1>13 DEF WakeUpOwed
<1> QED
  BY <1>1, <1>7, <1>12, <1>14 DEF IInv

\* erase() gives the place of a kept socket back and wakes somebody up.
LEMMA EraseBooks ==
  ASSUME IInv, NEW k \in Socks, Erase(k)
  PROVE  IInv'
<1>0. /\ Struct /\ OtherTypes /\ Sockets(so) /\ CountExact /\ Capacity /\ WakeUpOwed
  BY StructParts DEF IInv
<1>1. /\ Struct' /\ OtherTypes' /\ so'[k] = Free /\ Kept(k)
      /\ \A t \in Socks : t # k => so'[t] = so[t]
  BY <1>0, EraseStruct, StructPartsNext
<1>2. /\ count' = count /\ keep' = keep \ {k} /\ owed' = owed /\ leaked' = leaked
      /\ so[k].stage = "dying"
  BY DEF Erase
<1>3. InUse' = InUse
  BY <1>1, FreeFields DEF InUse, Kept
<1>4. k \notin Moved
  BY <1>2, MovedSockets DEF Forwarded, Moving
<1>5. Moved \subseteq Moved'
  BY <1>1, <1>4, MovedSockets
<1>6. CASE k \notin keep
  <2>1. pc' = pc /\ keep' = keep
    BY <1>2, <1>6 DEF Erase
  <2> QED
    BY <1>1, <1>2, <1>3, <1>5, <2>1, CalmBooks DEF NoSleeper
<1>7. CASE k \in keep
  <2>1. NotifyOne
    BY <1>7 DEF Erase
  <2>2. Making' = Making
    BY <1>0, <2>1, NotifyHold DEF Making
  <2>3. CountExact'
    BY <1>0, <1>1, <1>2, <1>3, <2>2, Counted, CountedNext
  <2>4. /\ Cardinality(keep) \in Nat /\ Cardinality(Moved) \in Nat /\ MaxCount \in Nat
        /\ count \in Int /\ owed \in Nat /\ leaked \in Nat
        /\ Cardinality(keep') \in Nat /\ Cardinality(Moved') \in Nat
        /\ IsFiniteSet(keep) /\ IsFiniteSet(Moved')
    BY <1>0, <1>1, Counted, CountedNext, HttpAssumption DEF OtherTypes
  <2>5. Cardinality(keep') <= Cardinality(keep) /\ Cardinality(Moved) <= Cardinality(Moved')
    BY <1>2, <1>5, <2>4, FS_Subset
  <2>6. Capacity'
    BY <1>0, <1>2, <2>4, <2>5 DEF Capacity
  <2>7. WakeUpOwed'
    BY <1>0, <2>1, NotifyWakes DEF WakeUpOwed
  <2> QED
    BY <1>1, <2>3, <2>6, <2>7 DEF IInv
<1> QED
  BY <1>6, <1>7

-----------------------------------------------------------------------------
(***************************************************************************)
(* The invariant, and what follows from it.                                *)
(***************************************************************************)

\* Before the first request there are no sockets, and nobody waits for any.
LEMMA HttpInit == Init => IInv
<1> SUFFICES ASSUME Init PROVE IInv
  OBVIOUS
<1>1. \A r \in Reqs : pc[r] = "idle" /\ sock[r] = None /\ answer[r] = <<>>
  BY DEF Init
<1>2. \A s \in Socks : so[s] = Free
  BY DEF Init
<1>3. Sockets(so)
  BY FreeFields DEF Init, Sockets
<1>4. OtherTypes
  BY DEF Init, OtherTypes, PCs
<1>5. /\ Free.op = "none" /\ Free.stage = "none" /\ Free.result = None /\ ~Free.used
  BY FreeFields
<1>6. Callers /\ Movers /\ Keepers
  BY <1>1, <1>2, <1>5 DEF Callers, Movers, Keepers, Held, Moving, Kept
<1>7. Holders /\ CalledOnce
  <2>1. Holders
    BY <1>1, <1>2, <1>5 DEF Holders, Active
  <2>2. CalledOnce
    BY <1>1 DEF CalledOnce
  <2> QED
    BY <2>1, <2>2
<1>8. InUse = {} /\ Making = {} /\ Moved = {} /\ keep = {}
  BY <1>1, <1>2, <1>5, MovedSockets DEF InUse, Making, Forwarded, Moving, Init
<1>9. Cardinality({}) = 0
  BY FS_EmptySet
<1>10. count = 0 /\ owed = 0 /\ leaked = 0
  BY DEF Init
<1>11. CountExact
  BY <1>4, <1>8, <1>9, <1>10, Counted
<1>12. Capacity
  BY <1>8, <1>9, <1>10, HttpAssumption DEF Capacity
<1>13. WakeUpOwed
  BY <1>1 DEF WakeUpOwed
<1> QED
  BY <1>3, <1>4, <1>6, <1>7, <1>11, <1>12, <1>13, StructParts DEF IInv

\* Every step of the threads, the handlers, the network and the clock keeps the
\* invariant.
LEMMA HttpNext == IInv /\ [Next]_vars => IInv'
<1> SUFFICES ASSUME IInv, [Next]_vars PROVE IInv'
  OBVIOUS
<1>0. Sockets(so)
  BY StructParts DEF IInv
<1>1. ASSUME NEW r \in Reqs, Caller(r) PROVE IInv'
  <2>1. CASE LockWait(r)
    BY <2>1, LockWaitBooks
  <2>2. CASE Make(r)
    BY <2>2, MakeBooks
  <2>3. CASE Start(r) \/ StartWrite(r)
    BY <2>3, StartBooks
  <2> QED
    BY <1>1, <2>1, <2>2, <2>3 DEF Caller
<1>2. ASSUME NEW r \in Reqs, NEW h \in Hosts, Connect(r, h) PROVE IInv'
  BY <1>2, StartBooks
<1>3. ASSUME Quiet PROVE IInv'
  BY <1>3, QuietBooks
<1>4. ASSUME NEW s \in Socks, Handle(s) PROVE IInv'
  <2>1. CASE AsyncConnect(s)
    BY <2>1, AsyncConnectBooks
  <2>2. CASE AsyncReuse(s) \/ MoveStart(s) \/ OnKeepAlive(s)
    BY <2>2, HandOver
  <2>3. CASE Erase(s)
    BY <2>3, EraseBooks
  <2>4. CASE Delete(s)
    BY <2>4, DeleteBooks
  <2>5. CASE Collect(s)
    BY <2>5, CollectBooks
  <2>6. CASE \E h \in Hosts : OnMove(s, h)
    BY <2>6, OnMoveBooks
  <2>7. CASE \/ \E op \in {"connect1", "connect2"} : OnConnect(s, op)
             \/ Ready(s) \/ OnWrite(s) \/ OnRead1(s) \/ OnReadHeader(s)
             \/ OnReadContent(s) \/ OnWait(s)
    <3>1. Quiet
      BY <1>0, <2>7, HandlerQuiet
    <3> QED
      BY <1>3, <3>1
  <2> QED
    BY <1>4, <2>1, <2>2, <2>3, <2>4, <2>5, <2>6, <2>7 DEF Handle
<1>5. ASSUME NEW s \in Socks,
             \/ KeptReadable(s) \/ TimerDue(s)
             \/ \E result \in {"ok", "error"} : Complete(s, result)
      PROVE  IInv'
  <2>1. Quiet
    BY <1>0, <1>5, NetworkQuiet
  <2> QED
    BY <1>3, <2>1
<1>6. ASSUME Uncount PROVE IInv'
  BY <1>6, UncountBooks
<1>7. ASSUME UNCHANGED vars PROVE IInv'
  <2>1. Quiet
    BY <1>0, <1>7, MildSame DEF Quiet, vars
  <2> QED
    BY <1>3, <2>1
<1> QED
  BY <1>1, <1>2, <1>4, <1>5, <1>6, <1>7 DEF Next

\* The inductive invariant holds of every behaviour, for every number of requests,
\* sockets and threads and whatever the environment does.
THEOREM HttpInvariant == Spec => []IInv
<1>1. Init => IInv
  BY HttpInit
<1>2. IInv /\ [Next]_vars => IInv'
  BY HttpNext
<1> QED
  BY <1>1, <1>2, PTL DEF Spec

\* The type invariant: count_ is exact and therefore never negative.
THEOREM HttpTypes == Spec => []TypeOK
<1>1. IInv => TypeOK
  <2> SUFFICES ASSUME IInv PROVE TypeOK
    OBVIOUS
  <2>1. Struct /\ OtherTypes /\ CountExact
    BY StructParts DEF IInv
  <2>2. count \in Int /\ count >= 0
    BY <2>1, CountPositive DEF OtherTypes
  <2>3. count \in Nat
    BY <2>2
  <2> QED
    BY <2>1, <2>3 DEF Struct, BaseTypes, TypeOK
<1> QED
  BY <1>1, HttpInvariant, PTL

\* A connection's request is written once at a time, although start() and
\* on_connect race for it, and no request is called back twice.
THEOREM HttpOnce == Spec => []OnceEach
<1>1. IInv => OnceEach
  <2> SUFFICES ASSUME IInv PROVE OnceEach
    OBVIOUS
  <2>1. Sockets(so) /\ CalledOnce
    BY StructParts DEF IInv
  <2>2. \A s \in Socks : so[s].writes = 0 \/ so[s].writes = 1
    BY <2>1 DEF Sockets, SockInv
  <2>3. OneWrite
    BY <2>2 DEF OneWrite
  <2> QED
    BY <2>1, <2>3 DEF OnceEach
<1> QED
  BY <1>1, HttpInvariant, PTL

\* count_ is exact, and the pool keeps max_count_ but for the sockets that a
\* redirection leaves behind, the deleters under way and the places resolve() lost.
THEOREM HttpAccounting == Spec => []Accounting
<1>1. IInv => Accounting
  BY DEF IInv, Accounting
<1> QED
  BY <1>1, HttpInvariant, PTL

\* Whoever sleeps in lock_wait() beside a free place will be woken up by a socket in
\* use or a request on its way, as long as no name failed to resolve.
THEOREM HttpWakeUp == Spec => []WakeUpOwed
<1>1. IInv => WakeUpOwed
  BY DEF IInv
<1> QED
  BY <1>1, HttpInvariant, PTL
=============================================================================
