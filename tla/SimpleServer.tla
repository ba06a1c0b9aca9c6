---------------------------- MODULE SimpleServer ----------------------------
(***************************************************************************)
(* acqua::asio::simple_server and acqua::asio::internet_server, both built *)
(* on detail::simple_server_base: an acceptor that keeps one asynchronous  *)
(* accept outstanding while fewer than max_count_ connections are in use,  *)
(* stops accepting at the limit and resumes when a connection is dropped.  *)
(*                                                                         *)
(* The server's handlers run on several io_service threads, and use_count_ *)
(* and is_waiting_ are atomics, not a critical section.  Every access of   *)
(* one of them is therefore a step of its own here.  A family is one       *)
(* simple_server_base: simple_server has one, internet_server has two (1   *)
(* is v4, 2 is v6) that share use_count_ and max_count_ but have each      *)
(* their own acceptor_, is_running_ and is_waiting_.                       *)
(***************************************************************************)
EXTENDS Integers, FiniteSets

CONSTANTS NumFamilies,  \* 1 for simple_server, 2 for internet_server
          Conns,        \* identities of the Connector objects
          NoConn,       \* the null shared_ptr
          Threads,      \* the threads that run handlers and call the server
          Counts,       \* the values the application passes to max_count()
          Events,       \* what the environment does, a subset of AllEvents
          UseBound      \* bound on use_count_, which leaks can drive up

AllEvents == {"accept_error", "cancel", "close", "listen_error", "max_count",
              "restart", "stop", "throw"}

ASSUME ServerAssumption ==
  /\ NumFamilies \in {1, 2}
  /\ NoConn \notin Conns
  /\ IsFiniteSet(Conns) /\ IsFiniteSet(Threads) /\ Threads # {}
  /\ Counts \subseteq Nat
  /\ \E n \in Counts : n >= NumFamilies
  /\ Events \subseteq AllEvents
  /\ UseBound \in Nat

Fams == 1..NumFamilies

\* Where a thread is: "idle" between handlers, otherwise the name of the code
\* it is about to execute.
PCs == {"idle", "start", "cancel", "close", "rollback", "cancel_acceptor",
        "close_acceptor", "rollback_acceptor", "incr", "incr_use", "incr_wait",
        "incr_undo", "construct", "reset", "release", "decl_wait"}

\* Who called async_accept(), which decides what happens when it returns.
Callers == {"start", "accept", "disconnect"}

\* The life of a Connector: "accepting" while its async_accept is outstanding,
\* "accepted" or "aborted" when the completion handler is queued, "handled"
\* while on_accept runs, "live" once the application holds it.
ConnStates == {"none", "accepting", "accepted", "aborted", "handled", "live"}

VARIABLES
  acceptor,    \* per family: "closed", "open" (not listening) or "listening"
  is_running,  \* per family: simple_server_base::is_running_
  is_waiting,  \* per family: simple_server_base::is_waiting_
  use_count,   \* the derived server's use_count_
  max_count,   \* the derived server's max_count_
  stopped,     \* io_service::stopped()
  conn,        \* per Connector: a ConnState
  cfam,        \* per Connector: the family that constructed it
  leaked,      \* history: the slots that were counted and are lost for ever
  pc,          \* per thread: a PC
  tfam,        \* per thread: the family it works for
  tconn,       \* per thread: the Connector its handler holds, or NoConn
  tctx         \* per thread: the caller of async_accept()

srvVars  == <<acceptor, is_running, is_waiting, use_count, max_count, stopped>>
connVars == <<conn, cfam, leaked>>
thrVars  == <<pc, tfam, tconn, tctx>>
vars     == <<srvVars, connVars, thrVars>>

TypeOK ==
  /\ acceptor \in [Fams -> {"closed", "open", "listening"}]
  /\ is_running \in [Fams -> BOOLEAN]
  /\ is_waiting \in [Fams -> BOOLEAN]
  /\ use_count \in Nat
  /\ max_count \in Nat
  /\ stopped \in BOOLEAN
  /\ conn \in [Conns -> ConnStates]
  /\ cfam \in [Conns -> Fams]
  /\ leaked \in Nat
  /\ pc \in [Threads -> PCs]
  /\ tfam \in [Threads -> Fams]
  /\ tconn \in [Threads -> Conns \cup {NoConn}]
  /\ tctx \in [Threads -> Callers]

Init ==
  /\ acceptor = [f \in Fams |-> "closed"]
  /\ is_running = [f \in Fams |-> FALSE]
  /\ is_waiting = [f \in Fams |-> FALSE]
  /\ use_count = 0
  /\ max_count \in {n \in Counts : n >= NumFamilies}
  /\ stopped = FALSE
  /\ conn = [c \in Conns |-> "none"]
  /\ cfam = [c \in Conns |-> 1]
  /\ leaked = 0
  /\ pc = [t \in Threads |-> "idle"]
  /\ tfam = [t \in Threads |-> 1]
  /\ tconn = [t \in Threads |-> NoConn]
  /\ tctx = [t \in Threads |-> "start"]

-----------------------------------------------------------------------------
(***************************************************************************)
(* Thread bookkeeping.                                                     *)
(***************************************************************************)
Goto(t, l) == pc' = [pc EXCEPT ![t] = l]

\* Thread t finishes its handler: the values it no longer uses are reset, so
\* that they do not tell apart states that behave alike.
BecomeIdle(t) ==
  /\ Goto(t, "idle")
  /\ tfam' = [tfam EXCEPT ![t] = 1]
  /\ tconn' = [tconn EXCEPT ![t] = NoConn]
  /\ tctx' = [tctx EXCEPT ![t] = "start"]

\* start(), cancel() and close() of internet_server treat v4, then v6.
NextFamily(t) ==
  IF tfam[t] < NumFamilies
  THEN /\ tfam' = [tfam EXCEPT ![t] = @ + 1]
       /\ UNCHANGED <<tconn, tctx>>
       /\ Goto(t, CASE pc[t] \in {"cancel", "cancel_acceptor"} -> "cancel"
                    [] pc[t] \in {"close", "close_acceptor"}   -> "close"
                    [] OTHER                                   -> "start")
  ELSE BecomeIdle(t)

\* async_accept() returns to its caller: start() goes on with the next family,
\* on_accept() hands the new connection to Derived::start(conn), on_disconnect()
\* is done.
Return(t) ==
  CASE tctx[t] = "start"      -> NextFamily(t) /\ UNCHANGED connVars
    [] tctx[t] = "accept"     -> /\ conn' = [conn EXCEPT ![tconn[t]] = "live"]
                                 /\ BecomeIdle(t) /\ UNCHANGED <<cfam, leaked>>
    [] tctx[t] = "disconnect" -> BecomeIdle(t) /\ UNCHANGED connVars

\* acceptor_.cancel(): every outstanding accept of family f completes with an
\* error.
Aborted(f) ==
  [c \in Conns |-> IF cfam[c] = f /\ conn[c] = "accepting"
                   THEN "aborted" ELSE conn[c]]

-----------------------------------------------------------------------------
(***************************************************************************)
(* The calls of the application.                                           *)
(***************************************************************************)

\* listen(): open, set options, bind and listen the acceptor of one family.  A
\* call that fails after open() leaves the acceptor open and not listening.  An
\* acceptor that is open already makes open() fail and nothing changes.
Listen(f) ==
  /\ acceptor[f] = "closed"
  /\ \E result \in {"listening"} \cup
                   (IF "listen_error" \in Events THEN {"open"} ELSE {}) :
        acceptor' = [acceptor EXCEPT ![f] = result]
  /\ UNCHANGED <<is_running, is_waiting, use_count, max_count, stopped,
                 connVars, thrVars>>

\* start(ec): refused when no acceptor is open.
Start(t) ==
  /\ pc[t] = "idle"
  /\ \E f \in Fams : acceptor[f] # "closed"
  /\ "restart" \in Events \/ \A c \in Conns : conn[c] = "none"
  /\ Goto(t, "start")
  /\ UNCHANGED <<srvVars, connVars, tfam, tconn, tctx>>

\* What start() does for the family it has reached: nothing if its acceptor is
\* closed, async_accept() if it was not running, otherwise already_started,
\* upon which internet_server cancels the v4 half it has just started.
StartFamily(t) ==
  /\ pc[t] = "start"
  /\ LET f == tfam[t] IN
     \/ /\ acceptor[f] = "closed"
        /\ NextFamily(t)
        /\ UNCHANGED <<srvVars, connVars>>
     \/ /\ acceptor[f] # "closed" /\ ~is_running[f]
        /\ is_running' = [is_running EXCEPT ![f] = TRUE]
        /\ Goto(t, "incr")
        /\ UNCHANGED <<acceptor, is_waiting, use_count, max_count, stopped,
                       connVars, tfam, tconn, tctx>>
     \/ /\ acceptor[f] # "closed" /\ is_running[f]
        /\ IF f = 1 THEN BecomeIdle(t)
           ELSE /\ Goto(t, "rollback") /\ tfam' = [tfam EXCEPT ![t] = 1]
                /\ UNCHANGED <<tconn, tctx>>
        /\ UNCHANGED <<srvVars, connVars>>

\* cancel() and close(), which treat the families one after the other.
Cancel(t) ==
  /\ pc[t] = "idle" /\ "cancel" \in Events
  /\ Goto(t, "cancel")
  /\ UNCHANGED <<srvVars, connVars, tfam, tconn, tctx>>

Close(t) ==
  /\ pc[t] = "idle" /\ "close" \in Events
  /\ Goto(t, "close")
  /\ UNCHANGED <<srvVars, connVars, tfam, tconn, tctx>>

\* cancel(ec) and close(ec) of one family: is_running_ = false ...
\* internet_server skips a family whose acceptor is closed, but not when start()
\* takes the v4 half back.
ClearRunning(t) ==
  /\ pc[t] \in {"cancel", "close", "rollback"}
  /\ LET skipped == /\ NumFamilies = 2 /\ pc[t] # "rollback"
                    /\ acceptor[tfam[t]] = "closed"
     IN  IF skipped THEN NextFamily(t) /\ UNCHANGED is_running
         ELSE /\ is_running' = [is_running EXCEPT ![tfam[t]] = FALSE]
              /\ Goto(t, CASE pc[t] = "cancel"   -> "cancel_acceptor"
                           [] pc[t] = "close"    -> "close_acceptor"
                           [] pc[t] = "rollback" -> "rollback_acceptor")
              /\ UNCHANGED <<tfam, tconn, tctx>>
  /\ UNCHANGED <<acceptor, is_waiting, use_count, max_count, stopped, connVars>>

\* ... then acceptor_.cancel(ec) or acceptor_.close(ec).
StopAcceptor(t) ==
  /\ pc[t] \in {"cancel_acceptor", "close_acceptor", "rollback_acceptor"}
  /\ conn' = Aborted(tfam[t])
  /\ acceptor' = IF pc[t] = "close_acceptor"
                 THEN [acceptor EXCEPT ![tfam[t]] = "closed"] ELSE acceptor
  /\ IF pc[t] = "rollback_acceptor" THEN BecomeIdle(t) ELSE NextFamily(t)
  /\ UNCHANGED <<is_running, is_waiting, use_count, max_count, stopped, cfam, leaked>>

\* max_count(count): a count below the number of families is refused.
SetMaxCount(n) ==
  /\ "max_count" \in Events
  /\ n >= NumFamilies /\ n # max_count
  /\ max_count' = n
  /\ UNCHANGED <<acceptor, is_running, is_waiting, use_count, stopped,
                 connVars, thrVars>>

-----------------------------------------------------------------------------
(***************************************************************************)
(* The environment: clients, the operating system, io_service::stop() and  *)
(* reset().                                                                *)
(***************************************************************************)

\* A client connects: an outstanding accept completes.
ClientConnects(c) ==
  /\ conn[c] = "accepting"
  /\ acceptor[cfam[c]] = "listening"
  /\ conn' = [conn EXCEPT ![c] = "accepted"]
  /\ UNCHANGED <<srvVars, cfam, leaked, thrVars>>

\* An outstanding accept fails (no descriptor left, connection aborted...).
AcceptError(c) ==
  /\ "accept_error" \in Events
  /\ conn[c] = "accepting"
  /\ conn' = [conn EXCEPT ![c] = "aborted"]
  /\ UNCHANGED <<srvVars, cfam, leaked, thrVars>>

StopOrReset ==
  /\ "stop" \in Events
  /\ stopped' = ~stopped
  /\ UNCHANGED <<acceptor, is_running, is_waiting, use_count, max_count,
                 connVars, thrVars>>

-----------------------------------------------------------------------------
(***************************************************************************)
(* incr(), decl() and the handlers.                                        *)
(***************************************************************************)

\* incr(), first access: no accept while the limit is known to be reached.
Incr(t) ==
  /\ pc[t] = "incr"
  /\ IF is_waiting[tfam[t]]
     THEN Return(t)
     ELSE Goto(t, "incr_use") /\ UNCHANGED <<connVars, tfam, tconn, tctx>>
  /\ UNCHANGED srvVars

\* Mutant: the connection is not counted.
MutIncrUse(t) ==
  /\ pc[t] = "incr_use"
  /\ Goto(t, IF use_count + 1 >= max_count THEN "incr_wait" ELSE "construct")
  /\ UNCHANGED <<srvVars, connVars, tfam, tconn, tctx>>

\* Mutant: > for >=, one Connector more before the server waits.
MutIncrLimit(t) ==
  /\ pc[t] = "incr_use"
  /\ use_count < UseBound
  /\ use_count' = use_count + 1
  /\ Goto(t, IF use_count + 1 > max_count THEN "incr_wait" ELSE "construct")
  /\ UNCHANGED <<acceptor, is_running, is_waiting, max_count, stopped,
                 connVars, tfam, tconn, tctx>>

\* ++use_count_ >= max_count_
IncrUse(t) ==
  /\ pc[t] = "incr_use"
  /\ use_count < UseBound
  /\ use_count' = use_count + 1
  /\ Goto(t, IF use_count + 1 >= max_count THEN "incr_wait" ELSE "construct")
  /\ UNCHANGED <<acceptor, is_running, is_waiting, max_count, stopped,
                 connVars, tfam, tconn, tctx>>

\* is_waiting_.exchange(true) == true
IncrWait(t) ==
  /\ pc[t] = "incr_wait"
  /\ is_waiting' = [is_waiting EXCEPT ![tfam[t]] = TRUE]
  /\ Goto(t, IF is_waiting[tfam[t]] THEN "incr_undo" ELSE "construct")
  /\ UNCHANGED <<acceptor, is_running, use_count, max_count, stopped,
                 connVars, tfam, tconn, tctx>>

\* Mutant: the increment is kept.
MutIncrUndo(t) == pc[t] = "incr_undo" /\ Return(t) /\ UNCHANGED srvVars

\* Someone else waits already: the increment is taken back.
IncrUndo(t) ==
  /\ pc[t] = "incr_undo"
  /\ use_count' = use_count - 1
  /\ Return(t)
  /\ UNCHANGED <<acceptor, is_running, is_waiting, max_count, stopped>>

\* The rest of async_accept(): a Connector is constructed and its accept is
\* started; on an acceptor that does not listen the handler is queued with an
\* error at once.  construct() calls the Connector's constructor, which may
\* throw.  Then start() and on_accept() let the exception pass (on_accept()
\* drops its connection), and on_disconnect() swallows it after resetting the
\* two flags.
Construct(t) ==
  /\ pc[t] = "construct"
  /\ \E c \in Conns :
        /\ conn[c] = "none"
        /\ cfam' = [cfam EXCEPT ![c] = tfam[t]]
        /\ LET st == IF acceptor[tfam[t]] = "listening"
                     THEN "accepting" ELSE "aborted"
           IN  conn' = [d \in Conns |->
                          IF d = c THEN st
                          ELSE IF tctx[t] = "accept" /\ d = tconn[t] THEN "live"
                          ELSE conn[d]]
  /\ IF tctx[t] = "start" THEN NextFamily(t) ELSE BecomeIdle(t)
  /\ UNCHANGED <<srvVars, leaked>>

ConstructThrows(t) ==
  /\ "throw" \in Events
  /\ pc[t] = "construct"
  /\ CASE tctx[t] = "start"      -> BecomeIdle(t) /\ UNCHANGED is_running
       [] tctx[t] = "accept"     -> /\ Goto(t, "release")
                                    /\ UNCHANGED <<is_running, tfam, tconn, tctx>>
       [] tctx[t] = "disconnect" ->
            /\ is_running' = [is_running EXCEPT ![tfam[t]] = FALSE]
            /\ Goto(t, "reset")
            /\ UNCHANGED <<tfam, tconn, tctx>>
  /\ leaked' = leaked + 1
  /\ UNCHANGED <<acceptor, is_waiting, use_count, max_count, stopped, conn, cfam>>

\* on_accept(): with an error both flags are reset and the error is thrown; a
\* connection accepted while the server is not running is dropped; otherwise
\* the next accept is started before the connection is.
OnAccept(t, c) ==
  /\ pc[t] = "idle" /\ ~stopped
  /\ conn[c] \in {"accepted", "aborted"}
  /\ conn' = [conn EXCEPT ![c] = "handled"]
  /\ tconn' = [tconn EXCEPT ![t] = c]
  /\ tfam' = [tfam EXCEPT ![t] = cfam[c]]
  /\ tctx' = [tctx EXCEPT ![t] = "accept"]
  /\ is_running' = [is_running EXCEPT ![cfam[c]] = @ /\ conn[c] = "accepted"]
  /\ Goto(t, CASE conn[c] = "aborted"   -> "reset"
               [] is_running'[cfam[c]]  -> "incr"
               [] OTHER                 -> "release")
  /\ UNCHANGED <<acceptor, is_waiting, use_count, max_count, stopped, cfam, leaked>>

\* is_waiting_ = false, the second store of both error paths.
Reset(t) ==
  /\ pc[t] = "reset"
  /\ is_waiting' = [is_waiting EXCEPT ![tfam[t]] = FALSE]
  /\ IF tctx[t] = "accept"
     THEN Goto(t, "release") /\ UNCHANGED <<tfam, tconn, tctx>>
     ELSE BecomeIdle(t)
  /\ UNCHANGED <<acceptor, is_running, use_count, max_count, stopped, connVars>>

\* Mutant: accepting resumes only when a second slot is free.
MutDecl(t, c) ==
  /\ conn' = [conn EXCEPT ![c] = "none"]
  /\ cfam' = [cfam EXCEPT ![c] = 1]
  /\ use_count' = IF stopped THEN use_count ELSE use_count - 1
  /\ leaked' = IF stopped THEN leaked + 1 ELSE leaked
  /\ IF ~stopped /\ use_count < max_count
     THEN /\ Goto(t, "decl_wait")
          /\ tfam' = [tfam EXCEPT ![t] = cfam[c]]
          /\ tconn' = [tconn EXCEPT ![t] = NoConn]
          /\ tctx' = [tctx EXCEPT ![t] = "disconnect"]
     ELSE BecomeIdle(t)
  /\ UNCHANGED <<acceptor, is_running, is_waiting, max_count, stopped>>

\* The first half of on_disconnect(): destruct(conn), then, unless the
\* io_service is stopped, --use_count_ < max_count_.
Decl(t, c) ==
  /\ conn' = [conn EXCEPT ![c] = "none"]
  /\ cfam' = [cfam EXCEPT ![c] = 1]
  /\ use_count' = IF stopped THEN use_count ELSE use_count - 1
  /\ leaked' = IF stopped THEN leaked + 1 ELSE leaked
  /\ IF ~stopped /\ use_count - 1 < max_count
     THEN /\ Goto(t, "decl_wait")
          /\ tfam' = [tfam EXCEPT ![t] = cfam[c]]
          /\ tconn' = [tconn EXCEPT ![t] = NoConn]
          /\ tctx' = [tctx EXCEPT ![t] = "disconnect"]
     ELSE BecomeIdle(t)
  /\ UNCHANGED <<acceptor, is_running, is_waiting, max_count, stopped>>

\* The last reference to an established connection goes away.
Disconnect(t, c) == pc[t] = "idle" /\ conn[c] = "live" /\ Decl(t, c)

\* The handler that ran on_accept() held the last reference.
Release(t) == pc[t] = "release" /\ Decl(t, tconn[t])

\* Mutant: accepting is not resumed.
MutDeclWait(t) ==
  /\ pc[t] = "decl_wait"
  /\ is_waiting' = [is_waiting EXCEPT ![tfam[t]] = FALSE]
  /\ BecomeIdle(t)
  /\ UNCHANGED <<acceptor, is_running, use_count, max_count, stopped, connVars>>

\* is_waiting_.exchange(false) == true, upon which accepting is resumed.
DeclWait(t) ==
  /\ pc[t] = "decl_wait"
  /\ is_waiting' = [is_waiting EXCEPT ![tfam[t]] = FALSE]
  /\ IF is_waiting[tfam[t]]
     THEN Goto(t, "incr") /\ UNCHANGED <<tfam, tconn, tctx>>
     ELSE BecomeIdle(t)
  /\ UNCHANGED <<acceptor, is_running, use_count, max_count, stopped, connVars>>

-----------------------------------------------------------------------------
\* The steps a thread takes once it is in a handler or a call.
ThreadStep(t) ==
  \/ StartFamily(t) \/ ClearRunning(t) \/ StopAcceptor(t)
  \/ Incr(t) \/ IncrUse(t) \/ IncrWait(t) \/ IncrUndo(t)
  \/ Construct(t) \/ ConstructThrows(t)
  \/ Reset(t) \/ Release(t) \/ DeclWait(t)

Next ==
  \/ \E f \in Fams : Listen(f)
  \/ \E n \in Counts : SetMaxCount(n)
  \/ \E c \in Conns : ClientConnects(c) \/ AcceptError(c)
  \/ StopOrReset
  \/ \E t \in Threads : Start(t) \/ Cancel(t) \/ Close(t) \/ ThreadStep(t)
  \/ \E t \in Threads, c \in Conns : OnAccept(t, c) \/ Disconnect(t, c)

Spec == Init /\ [][Next]_vars

\* Every thread goes on with the handler it is in, the io_service's queue is
\* first in first out, so every completed accept is handled, and the peer or
\* the application ends every connection some day.  Nothing makes a client
\* connect, and nothing makes the application call the server again.
Fairness ==
  /\ \A t \in Threads : WF_vars(ThreadStep(t))
  /\ \A c \in Conns : SF_vars(\E t \in Threads : OnAccept(t, c))
  /\ \A c \in Conns : SF_vars(\E t \in Threads : Disconnect(t, c))

FairSpec == Spec /\ Fairness

-----------------------------------------------------------------------------
(***************************************************************************)
(* Properties.                                                             *)
(***************************************************************************)

\* The Connectors that exist, and the threads that have counted one they have
\* not constructed yet (or are about to take the count back).
Existing  == {c \in Conns : conn[c] # "none"}
Reserving == {t \in Threads : pc[t] \in {"incr_wait", "incr_undo", "construct"}}

Live == {c \in Conns : conn[c] = "live"}

Quiescent == \A t \in Threads : pc[t] = "idle"

\* An accept of family f is outstanding or its handler is queued.
AcceptPending(f) ==
  \E c \in Conns : cfam[c] = f /\ conn[c] \in {"accepting", "accepted", "aborted"}

\* use_count_ is the number of Connectors that exist, plus the slots incr() has
\* reserved, plus those lost because construct() threw or a connection ended
\* while the io_service was stopped.  However the handlers of several threads,
\* cancel(), close(), failed accepts, exceptions and restarts interleave, incr()
\* and decl() stay paired otherwise, and decl() never takes the unsigned counter
\* below zero.
UseCountExact ==
  use_count = Cardinality(Existing) + Cardinality(Reserving) + leaked

\* How far incr() and decl() let the number of Connectors exceed max_count_:
\* by one for the second family, whose is_waiting_ is its own, and by two for
\* every other thread, which may once have been between the two halves of decl()
\* while the limit was reached again, and may be in the error path of on_accept(),
\* where it has reset is_waiting_ and still holds the Connector it will drop.
CapacityBound ==
  Cardinality(Existing) <=
    max_count + (NumFamilies - 1) + 2 * (Cardinality(Threads) - 1)

\* When one thread runs the io_service, a running server that is below its limit
\* has an accept outstanding whenever no handler runs: neither failed accepts nor
\* a cancel(), close(), listen() and start() in between lose the wake-up that
\* decl() owes.
NotStalled ==
  Quiescent =>
    \A f \in Fams : is_running[f] /\ use_count < max_count => AcceptPending(f)

\* A running server either has an accept outstanding or a connection whose end
\* can make it accept again; otherwise no event can ever reach it.
NotDead ==
  Quiescent =>
    \A f \in Fams : is_running[f] =>
       AcceptPending(f) \/ \E c \in Live : cfam[c] = f

\* A family that runs on a listening acceptor accepts again and again: on_accept()
\* and on_disconnect() resume it, though it may be at the limit in between.
Resumes ==
  \A f \in Fams :
     is_running[f] ~> \/ \E c \in Conns : cfam[c] = f /\ conn[c] = "accepting"
                      \/ ~is_running[f]
=============================================================================
