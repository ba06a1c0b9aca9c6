------------------------- MODULE SimpleServerProofs -------------------------
(***************************************************************************)
(* The accounting of simple_server_base for every number of threads,       *)
(* Connectors and limits: use_count_ is exactly what is in use, plus what  *)
(* exceptions of construct() and a stopped io_service have lost.  On one   *)
(* thread simple_server does not stall.                                    *)
(***************************************************************************)
EXTENDS SimpleServer, FiniteSetTheorems, TLAPS

\* The type invariant but for use_count, which is not negative only because of
\* UseCountExact.
BaseTypes ==
  /\ acceptor \in [Fams -> {"closed", "open", "listening"}]
  /\ is_running \in [Fams -> BOOLEAN]
  /\ is_waiting \in [Fams -> BOOLEAN]
  /\ use_count \in Int
  /\ max_count \in Nat
  /\ stopped \in BOOLEAN
  /\ conn \in [Conns -> ConnStates]
  /\ cfam \in [Conns -> Fams]
  /\ leaked \in Nat
  /\ pc \in [Threads -> PCs]
  /\ tfam \in [Threads -> Fams]
  /\ tconn \in [Threads -> Conns \cup {NoConn}]
  /\ tctx \in [Threads -> Callers]

\* A thread in on_accept() holds a Connector of its own that nobody else can
\* drop: its state is "handled", which only this thread changes.
HandlerOwnsConn ==
  /\ \A t \in Threads :
       /\ tctx[t] = "accept" =>
            /\ tconn[t] \in Conns
            /\ conn[tconn[t]] = "handled"
            /\ pc[t] \in {"incr", "incr_use", "incr_wait", "incr_undo",
                          "construct", "reset", "release"}
       /\ pc[t] = "release" => tctx[t] = "accept"
  /\ \A t, u \in Threads :
       t # u /\ tctx[t] = "accept" /\ tctx[u] = "accept" => tconn[t] # tconn[u]

Slots == Cardinality(Existing) + Cardinality(Reserving)

-----------------------------------------------------------------------------
(***************************************************************************)
(* Cardinalities of the two sets that are counted.                         *)
(***************************************************************************)

\* The sets that are counted are finite, so that their cardinalities are numbers
\* that change by one when an element comes or goes (incr() and decl()).
LEMMA FiniteParts ==
  \A S : S \subseteq Conns \/ S \subseteq Threads =>
            IsFiniteSet(S) /\ Cardinality(S) \in Nat
BY ServerAssumption, FS_Subset, FS_CardinalityType DEF ServerAssumption

\* The same for Existing and Reserving, before and after a step.
LEMMA CountedSets ==
  /\ IsFiniteSet(Existing) /\ Cardinality(Existing) \in Nat
  /\ IsFiniteSet(Reserving) /\ Cardinality(Reserving) \in Nat
  /\ Cardinality(Existing') \in Nat /\ Cardinality(Reserving') \in Nat
  /\ Slots \in Nat /\ Slots' \in Nat
<1>1. /\ Existing \subseteq Conns /\ Reserving \subseteq Threads
      /\ Existing' \subseteq Conns /\ Reserving' \subseteq Threads
  BY DEF Existing, Reserving
<1>2. /\ IsFiniteSet(Existing) /\ Cardinality(Existing) \in Nat
      /\ IsFiniteSet(Reserving) /\ Cardinality(Reserving) \in Nat
      /\ Cardinality(Existing') \in Nat /\ Cardinality(Reserving') \in Nat
  BY <1>1, FiniteParts
<1> QED
  BY <1>2 DEF Slots

-----------------------------------------------------------------------------
(***************************************************************************)
(* Types.                                                                  *)
(***************************************************************************)

\* The four facts every Fams index needs: 1 is a family, and so is the family
\* after one that is not the last (NextFamily of start(), cancel(), close()).
LEMMA FamsFacts ==
  /\ 1 \in Fams
  /\ \A f \in Fams : f < NumFamilies => f + 1 \in Fams
  /\ NoConn \notin Conns
BY ServerAssumption DEF ServerAssumption, Fams

ThreadTypes ==
  /\ pc \in [Threads -> PCs]
  /\ tfam \in [Threads -> Fams]
  /\ tconn \in [Threads -> Conns \cup {NoConn}]
  /\ tctx \in [Threads -> Callers]

\* A thread that ends its handler, turns to the next family or returns from
\* async_accept() keeps the types of its variables.
LEMMA ReturnTypes ==
  ASSUME BaseTypes, HandlerOwnsConn, NEW t \in Threads
  PROVE  /\ BecomeIdle(t) => ThreadTypes'
         /\ NextFamily(t) => ThreadTypes'
         /\ Return(t) => /\ ThreadTypes'
                         /\ conn' \in [Conns -> ConnStates]
                         /\ cfam' = cfam /\ leaked' = leaked
<1> USE FamsFacts DEF BaseTypes, ThreadTypes
<1>1. BecomeIdle(t) => ThreadTypes'
  BY DEF BecomeIdle, Goto, PCs, Callers
<1>2. NextFamily(t) => ThreadTypes'
  <2>1. CASE tfam[t] < NumFamilies
    BY <2>1 DEF NextFamily, Goto, PCs
  <2>2. CASE ~(tfam[t] < NumFamilies)
    BY <2>2, <1>1 DEF NextFamily
  <2> QED
    BY <2>1, <2>2
<1>3. Return(t) => /\ ThreadTypes'
                   /\ conn' \in [Conns -> ConnStates]
                   /\ cfam' = cfam /\ leaked' = leaked
  <2>1. CASE tctx[t] = "start"
    BY <2>1, <1>2 DEF Return, connVars
  <2>2. CASE tctx[t] = "accept"
    BY <2>2, <1>1 DEF Return, ConnStates
  <2>3. CASE tctx[t] = "disconnect"
    BY <2>3, <1>1 DEF Return, connVars
  <2> QED
    BY <2>1, <2>2, <2>3 DEF Callers
<1> QED
  BY <1>1, <1>2, <1>3

\* Every step of the server keeps the types of its state.
LEMMA BaseTypesStep ==
  ASSUME BaseTypes, HandlerOwnsConn, [Next]_vars
  PROVE  BaseTypes'
<1> USE FamsFacts DEF BaseTypes
<1>1. ASSUME NEW f \in Fams, Listen(f) PROVE BaseTypes'
  BY <1>1 DEF Listen, connVars, thrVars
<1>2. ASSUME NEW n \in Counts, SetMaxCount(n) PROVE BaseTypes'
  BY <1>2, ServerAssumption DEF SetMaxCount, connVars, thrVars, ServerAssumption
<1>3. ASSUME NEW c \in Conns, ClientConnects(c) \/ AcceptError(c) PROVE BaseTypes'
  BY <1>3 DEF ClientConnects, AcceptError, ConnStates, srvVars, thrVars
<1>4. ASSUME StopOrReset PROVE BaseTypes'
  BY <1>4 DEF StopOrReset, connVars, thrVars
<1>5. ASSUME NEW t \in Threads, Start(t) \/ Cancel(t) \/ Close(t) PROVE BaseTypes'
  BY <1>5 DEF Start, Cancel, Close, Goto, PCs, srvVars, connVars
<1>6. ASSUME NEW t \in Threads, ThreadStep(t) PROVE BaseTypes'
  <2>1. CASE StartFamily(t)
    <3>1. ThreadTypes'
      BY <2>1, <1>6, ReturnTypes DEF StartFamily, Goto, PCs, ThreadTypes
    <3> QED
      BY <2>1, <1>6, <3>1 DEF StartFamily, ThreadTypes, srvVars, connVars
  <2>2. CASE ClearRunning(t)
    <3>1. ThreadTypes'
      BY <2>2, <1>6, ReturnTypes DEF ClearRunning, Goto, PCs, ThreadTypes
    <3> QED
      BY <2>2, <1>6, <3>1 DEF ClearRunning, ThreadTypes, connVars
  <2>3. CASE StopAcceptor(t)
    BY <2>3, <1>6 DEF StopAcceptor, Aborted, NextFamily, BecomeIdle, Goto, PCs,
                Callers, ConnStates
  <2>4. CASE Incr(t)
    <3>1. CASE is_waiting[tfam[t]]
      BY <2>4, <1>6, <3>1, ReturnTypes DEF Incr, ThreadTypes, srvVars
    <3>2. CASE ~is_waiting[tfam[t]]
      BY <2>4, <1>6, <3>2 DEF Incr, Goto, PCs, srvVars, connVars
    <3> QED
      BY <3>1, <3>2
  <2>5. CASE IncrUse(t)
    BY <2>5, <1>6 DEF IncrUse, Goto, PCs, connVars
  <2>6. CASE IncrWait(t)
    BY <2>6, <1>6 DEF IncrWait, Goto, PCs, connVars
  <2>7. CASE IncrUndo(t)
    BY <2>7, <1>6, ReturnTypes DEF IncrUndo, ThreadTypes
  <2>8. CASE Construct(t)
    BY <2>8, <1>6 DEF Construct, NextFamily, BecomeIdle, Goto, PCs, Callers,
                ConnStates, srvVars
  <2>9. CASE ConstructThrows(t)
    <3>1. ThreadTypes' /\ is_running' \in [Fams -> BOOLEAN]
      BY <2>9, <1>6, ReturnTypes DEF ConstructThrows, Goto, PCs, Callers, ThreadTypes
    <3> QED
      BY <2>9, <3>1 DEF ConstructThrows, ThreadTypes
  <2>10. CASE Reset(t)
    BY <2>10, <1>6 DEF Reset, BecomeIdle, Goto, PCs, Callers, connVars
  <2>11. CASE Release(t)
    <3>1. tconn[t] \in Conns
      BY <2>11, <1>6 DEF Release, HandlerOwnsConn
    <3> QED
      BY <2>11, <3>1, <1>6 DEF Release, Decl, BecomeIdle, Goto, PCs, Callers,
                ConnStates
  <2>12. CASE DeclWait(t)
    BY <2>12, <1>6 DEF DeclWait, BecomeIdle, Goto, PCs, Callers, connVars
  <2> QED
    BY <1>6, <2>1, <2>2, <2>3, <2>4, <2>5, <2>6, <2>7, <2>8, <2>9, <2>10, <2>11,
       <2>12 DEF ThreadStep
<1>7. ASSUME NEW t \in Threads, NEW c \in Conns, OnAccept(t, c) PROVE BaseTypes'
  BY <1>7 DEF OnAccept, Goto, PCs, Callers, ConnStates
<1>8. ASSUME NEW t \in Threads, NEW c \in Conns, Disconnect(t, c) PROVE BaseTypes'
  BY <1>8 DEF Disconnect, Decl, BecomeIdle, Goto, PCs, Callers, ConnStates
<1>9. CASE UNCHANGED vars
  BY <1>9 DEF vars, srvVars, connVars, thrVars
<1> QED
  BY <1>1, <1>2, <1>3, <1>4, <1>5, <1>6, <1>7, <1>8, <1>9 DEF Next

-----------------------------------------------------------------------------
(***************************************************************************)
(* Ownership.                                                              *)
(***************************************************************************)

\* What a thread's bookkeeping does to its own entry, and that it leaves the
\* other threads alone.
OthersKept(t) ==
  \A u \in Threads : u # t => /\ pc'[u] = pc[u]
                              /\ tctx'[u] = tctx[u]
                              /\ tconn'[u] = tconn[u]

\* A thread that leaves its handler or turns to the next family does not end in
\* on_accept(): its caller is not "accept" and it has nothing to release.
LEMMA ReturnOwnership ==
  ASSUME BaseTypes, NEW t \in Threads
  PROVE  /\ BecomeIdle(t) => OthersKept(t) /\ tctx'[t] # "accept" /\ pc'[t] = "idle"
         /\ NextFamily(t) => /\ OthersKept(t)
                             /\ tctx[t] # "accept" => tctx'[t] # "accept"
                             /\ pc'[t] \in {"idle", "start", "cancel", "close"}
<1> USE DEF BaseTypes, OthersKept
<1>1. BecomeIdle(t) => OthersKept(t) /\ tctx'[t] # "accept" /\ pc'[t] = "idle"
  BY DEF BecomeIdle, Goto
<1>2. CASE tfam[t] < NumFamilies
  BY <1>1, <1>2 DEF NextFamily, Goto
<1>3. CASE ~(tfam[t] < NumFamilies)
  BY <1>1, <1>3 DEF NextFamily
<1> QED
  BY <1>1, <1>2, <1>3

\* A step of thread t keeps HandlerOwnsConn when it leaves t either outside
\* on_accept() or with the Connector it had, and changes no Connector another
\* thread's on_accept() holds.
LEMMA OwnershipFrame ==
  ASSUME BaseTypes, HandlerOwnsConn, NEW t \in Threads, OthersKept(t),
         \A c \in Conns : conn[c] = "handled" /\ (tctx[t] = "accept" => c # tconn[t])
                             => conn'[c] = "handled",
         \/ tctx'[t] # "accept" /\ pc'[t] # "release"
         \/ /\ tctx[t] = "accept" /\ tctx'[t] = "accept"
            /\ tconn'[t] = tconn[t] /\ conn'[tconn[t]] = "handled"
            /\ pc'[t] \in {"incr", "incr_use", "incr_wait", "incr_undo",
                           "construct", "reset", "release"}
  PROVE  HandlerOwnsConn'
BY DEF HandlerOwnsConn, OthersKept, BaseTypes

\* Every step of the server keeps Connectors and handlers apart.
LEMMA OwnershipStep ==
  ASSUME BaseTypes, HandlerOwnsConn, [Next]_vars
  PROVE  HandlerOwnsConn'
<1>1. ASSUME NEW f \in Fams, Listen(f) PROVE HandlerOwnsConn'
  BY <1>1 DEF Listen, connVars, thrVars, HandlerOwnsConn
<1>2. ASSUME NEW n \in Counts, SetMaxCount(n) PROVE HandlerOwnsConn'
  BY <1>2 DEF SetMaxCount, connVars, thrVars, HandlerOwnsConn
<1>3. ASSUME NEW c \in Conns, ClientConnects(c) \/ AcceptError(c) PROVE HandlerOwnsConn'
  BY <1>3 DEF ClientConnects, AcceptError, thrVars, HandlerOwnsConn, BaseTypes
<1>4. ASSUME StopOrReset PROVE HandlerOwnsConn'
  BY <1>4 DEF StopOrReset, connVars, thrVars, HandlerOwnsConn
<1>5. ASSUME NEW t \in Threads, Start(t) \/ Cancel(t) \/ Close(t) PROVE HandlerOwnsConn'
  BY <1>5 DEF Start, Cancel, Close, Goto, connVars, HandlerOwnsConn, BaseTypes
<1>6. ASSUME NEW t \in Threads, ThreadStep(t) PROVE HandlerOwnsConn'
  <2> USE <1>6, ReturnOwnership, OwnershipFrame DEF BaseTypes
  <2>1. CASE StartFamily(t)
    <3>1. tctx[t] # "accept"
      BY <2>1 DEF StartFamily, HandlerOwnsConn
    <3>2. OthersKept(t) /\ tctx'[t] # "accept" /\ pc'[t] # "release" /\ conn' = conn
      BY <2>1, <3>1 DEF StartFamily, Goto, OthersKept, connVars
    <3> QED
      BY <3>1, <3>2
  <2>2. CASE ClearRunning(t)
    <3>1. tctx[t] # "accept"
      BY <2>2 DEF ClearRunning, HandlerOwnsConn
    <3>2. OthersKept(t) /\ tctx'[t] # "accept" /\ pc'[t] # "release" /\ conn' = conn
      BY <2>2, <3>1 DEF ClearRunning, Goto, OthersKept, connVars
    <3> QED
      BY <3>1, <3>2
  <2>3. CASE StopAcceptor(t)
    <3>1. tctx[t] # "accept"
      BY <2>3 DEF StopAcceptor, HandlerOwnsConn
    <3>2. OthersKept(t) /\ tctx'[t] # "accept" /\ pc'[t] # "release"
      BY <2>3, <3>1 DEF StopAcceptor
    <3>3. \A c \in Conns : conn[c] = "handled" => conn'[c] = "handled"
      BY <2>3 DEF StopAcceptor, Aborted
    <3> QED
      BY <3>1, <3>2, <3>3
  <2>4. CASE Incr(t) \/ IncrUndo(t)
    <3>1. CASE Return(t)
      <4>1. CASE tctx[t] = "start"
        BY <3>1, <4>1 DEF Return, connVars
      <4>2. CASE tctx[t] = "accept"
        <5>1. OthersKept(t) /\ tctx'[t] # "accept" /\ pc'[t] # "release"
          BY <3>1, <4>2 DEF Return
        <5>2. \A c \in Conns : conn[c] = "handled" /\ c # tconn[t] => conn'[c] = "handled"
          BY <3>1, <4>2 DEF Return
        <5> QED
          BY <4>2, <5>1, <5>2
      <4>3. CASE tctx[t] = "disconnect"
        BY <3>1, <4>3 DEF Return, connVars
      <4> QED
        BY <4>1, <4>2, <4>3 DEF Callers
    <3>2. CASE Incr(t) /\ ~is_waiting[tfam[t]]
      BY <3>2 DEF Incr, Goto, connVars, HandlerOwnsConn
    <3> QED
      BY <2>4, <3>1, <3>2 DEF Incr, IncrUndo
  <2>5. CASE IncrUse(t)
    BY <2>5 DEF IncrUse, Goto, connVars, HandlerOwnsConn
  <2>6. CASE IncrWait(t)
    BY <2>6 DEF IncrWait, Goto, connVars, HandlerOwnsConn
  <2>7. CASE Construct(t)
    <3>1. OthersKept(t) /\ tctx'[t] # "accept" /\ pc'[t] # "release"
      BY <2>7 DEF Construct
    <3>2. \A c \in Conns : conn[c] = "handled" /\ (tctx[t] = "accept" => c # tconn[t])
                             => conn'[c] = "handled"
      BY <2>7 DEF Construct
    <3> QED
      BY <3>1, <3>2
  <2>8. CASE ConstructThrows(t)
    <3>1. CASE tctx[t] = "start"
      BY <2>8, <3>1 DEF ConstructThrows, connVars
    <3>2. CASE tctx[t] = "accept"
      BY <2>8, <3>2 DEF ConstructThrows, connVars, Goto, HandlerOwnsConn
    <3>3. CASE tctx[t] = "disconnect"
      BY <2>8, <3>3 DEF ConstructThrows, connVars, Goto, OthersKept
    <3> QED
      BY <3>1, <3>2, <3>3 DEF Callers
  <2>9. CASE Reset(t)
    <3>1. CASE tctx[t] = "accept"
      BY <2>9, <3>1 DEF Reset, connVars, Goto, HandlerOwnsConn
    <3>2. CASE tctx[t] # "accept"
      BY <2>9, <3>2 DEF Reset, connVars
    <3> QED
      BY <3>1, <3>2
  <2>10. CASE Release(t)
    <3>1. tctx[t] = "accept"
      BY <2>10 DEF Release, HandlerOwnsConn
    <3>2. OthersKept(t) /\ tctx'[t] # "accept" /\ pc'[t] # "release"
      BY <2>10 DEF Release, Decl, Goto, OthersKept
    <3>3. \A c \in Conns : conn[c] = "handled" /\ c # tconn[t] => conn'[c] = "handled"
      BY <2>10 DEF Release, Decl
    <3> QED
      BY <3>1, <3>2, <3>3
  <2>11. CASE DeclWait(t)
    <3>1. tctx[t] # "accept"
      BY <2>11 DEF DeclWait, HandlerOwnsConn
    <3>2. OthersKept(t) /\ tctx'[t] # "accept" /\ pc'[t] # "release" /\ conn' = conn
      BY <2>11, <3>1 DEF DeclWait, Goto, OthersKept, connVars
    <3> QED
      BY <3>1, <3>2
  <2> QED
    BY <2>1, <2>2, <2>3, <2>4, <2>5, <2>6, <2>7, <2>8, <2>9, <2>10, <2>11
       DEF ThreadStep
<1>7. ASSUME NEW t \in Threads, NEW c \in Conns, OnAccept(t, c) PROVE HandlerOwnsConn'
  BY <1>7 DEF OnAccept, Goto, HandlerOwnsConn, BaseTypes
<1>8. ASSUME NEW t \in Threads, NEW c \in Conns, Disconnect(t, c) PROVE HandlerOwnsConn'
  <2>1. tctx[t] # "accept"
    BY <1>8 DEF Disconnect, HandlerOwnsConn
  <2>2. OthersKept(t) /\ tctx'[t] # "accept" /\ pc'[t] # "release"
    BY <1>8, ReturnOwnership DEF Disconnect, Decl, Goto, OthersKept, BaseTypes
  <2>3. \A d \in Conns : conn[d] = "handled" => conn'[d] = "handled"
    BY <1>8 DEF Disconnect, Decl, BaseTypes
  <2> QED
    BY <2>1, <2>2, <2>3, OwnershipFrame
<1>9. CASE UNCHANGED vars
  BY <1>9 DEF vars, srvVars, connVars, thrVars, HandlerOwnsConn
<1> QED
  BY <1>1, <1>2, <1>3, <1>4, <1>5, <1>6, <1>7, <1>8, <1>9 DEF Next

-----------------------------------------------------------------------------
(***************************************************************************)
(* Accounting.                                                             *)
(***************************************************************************)

\* The possible effects of a step on the counter and on what it counts.
Neutral  == /\ Existing' = Existing /\ Reserving' = Reserving
            /\ use_count' = use_count /\ leaked' = leaked
Reserves(t) == /\ t \notin Reserving /\ Reserving' = Reserving \cup {t}
               /\ Existing' = Existing
               /\ use_count' = use_count + 1 /\ leaked' = leaked
GivesUp(t) == /\ t \in Reserving /\ Reserving' = Reserving \ {t}
              /\ Existing' = Existing
              /\ use_count' = use_count - 1 /\ leaked' = leaked
Fills(t, c) == /\ t \in Reserving /\ Reserving' = Reserving \ {t}
               /\ c \notin Existing /\ Existing' = Existing \cup {c}
               /\ use_count' = use_count /\ leaked' = leaked
Drops(c) == /\ Reserving' = Reserving
            /\ c \in Existing /\ Existing' = Existing \ {c}
            /\ use_count' = use_count - 1 /\ leaked' = leaked
LeaksSlot(t) == /\ t \in Reserving /\ Reserving' = Reserving \ {t}
                /\ Existing' = Existing
                /\ use_count' = use_count /\ leaked' = leaked + 1
LeaksConn(c) == /\ Reserving' = Reserving
                /\ c \in Existing /\ Existing' = Existing \ {c}
                /\ use_count' = use_count /\ leaked' = leaked + 1

Effect ==
  \/ Neutral
  \/ \E t \in Threads : Reserves(t) \/ GivesUp(t) \/ LeaksSlot(t)
  \/ \E t \in Threads, c \in Conns : Fills(t, c)
  \/ \E c \in Conns : Drops(c) \/ LeaksConn(c)

\* decl() drops the Connector it destroys, and gives its slot back unless the
\* io_service is stopped.
LEMMA DeclEffect ==
  ASSUME BaseTypes, NEW t \in Threads, t \notin Reserving,
         NEW c \in Conns, c \in Existing, Decl(t, c)
  PROVE  Drops(c) \/ LeaksConn(c)
<1>1. Existing' = Existing \ {c}
  BY DEF Decl, Existing, BaseTypes
<1>2. Reserving' = Reserving
  BY DEF Decl, Reserving, BecomeIdle, Goto, BaseTypes
<1>3. \/ use_count' = use_count - 1 /\ leaked' = leaked
      \/ use_count' = use_count /\ leaked' = leaked + 1
  BY DEF Decl, BaseTypes
<1> QED
  BY <1>1, <1>2, <1>3 DEF Drops, LeaksConn

\* Every step of the server has one of these effects: incr() reserves and gives
\* up, construct() fills or leaks, decl() drops or leaks.
LEMMA StepEffect ==
  ASSUME BaseTypes, HandlerOwnsConn, [Next]_vars
  PROVE  Effect
<1>1. ASSUME NEW f \in Fams, Listen(f) PROVE Neutral
  BY <1>1 DEF Listen, connVars, thrVars, Neutral, Existing, Reserving
<1>2. ASSUME NEW n \in Counts, SetMaxCount(n) PROVE Neutral
  BY <1>2 DEF SetMaxCount, connVars, thrVars, Neutral, Existing, Reserving
<1>3. ASSUME NEW c \in Conns, ClientConnects(c) \/ AcceptError(c) PROVE Neutral
  BY <1>3 DEF ClientConnects, AcceptError, srvVars, thrVars, Neutral, Existing,
              Reserving, BaseTypes
<1>4. ASSUME StopOrReset PROVE Neutral
  BY <1>4 DEF StopOrReset, connVars, thrVars, Neutral, Existing, Reserving
<1>5. ASSUME NEW t \in Threads, Start(t) \/ Cancel(t) \/ Close(t) PROVE Neutral
  BY <1>5 DEF Start, Cancel, Close, Goto, srvVars, connVars, Neutral, Existing,
              Reserving, BaseTypes
<1>6. ASSUME NEW t \in Threads, ThreadStep(t) PROVE Effect
  <2> USE <1>6 DEF BaseTypes
  <2>1. CASE StartFamily(t)
    <3>1. OthersKept(t) /\ pc[t] = "start"
          /\ pc'[t] \in {"idle", "start", "cancel", "close", "incr", "rollback"}
      BY <2>1, ReturnOwnership DEF StartFamily, Goto, OthersKept
    <3>2. conn' = conn /\ use_count' = use_count /\ leaked' = leaked
      BY <2>1 DEF StartFamily, srvVars, connVars
    <3> QED
      BY <3>1, <3>2 DEF OthersKept, Effect, Neutral, Existing, Reserving
  <2>2. CASE ClearRunning(t)
    <3>1. /\ OthersKept(t)
          /\ pc[t] \in {"cancel", "close", "rollback"}
          /\ pc'[t] \in {"idle", "start", "cancel", "close", "cancel_acceptor",
                         "close_acceptor", "rollback_acceptor"}
      BY <2>2, ReturnOwnership DEF ClearRunning, Goto, OthersKept
    <3>2. conn' = conn /\ use_count' = use_count /\ leaked' = leaked
      BY <2>2 DEF ClearRunning, connVars
    <3> QED
      BY <3>1, <3>2 DEF OthersKept, Effect, Neutral, Existing, Reserving
  <2>3. CASE StopAcceptor(t)
    <3>1. OthersKept(t) /\ pc'[t] \in {"idle", "start", "cancel", "close"}
      BY <2>3, ReturnOwnership DEF StopAcceptor
    <3>2. Reserving' = Reserving
      BY <2>3, <3>1 DEF StopAcceptor, OthersKept, Reserving
    <3>3. Existing' = Existing /\ use_count' = use_count /\ leaked' = leaked
      BY <2>3 DEF StopAcceptor, Aborted, Existing
    <3> QED
      BY <3>2, <3>3 DEF Effect, Neutral
  <2>4. ASSUME Return(t)
        PROVE  /\ OthersKept(t) /\ pc'[t] \in {"idle", "start", "cancel", "close"}
               /\ Existing' = Existing /\ leaked' = leaked
    <3>1. CASE tctx[t] = "start"
      BY <2>4, <3>1, ReturnOwnership DEF Return, connVars, Existing
    <3>2. CASE tctx[t] = "accept"
      BY <2>4, <3>2, ReturnOwnership DEF Return, Existing, HandlerOwnsConn
    <3>3. CASE tctx[t] = "disconnect"
      BY <2>4, <3>3, ReturnOwnership DEF Return, connVars, Existing
    <3> QED
      BY <3>1, <3>2, <3>3 DEF Callers
  <2>5. CASE Incr(t)
    <3>1. CASE is_waiting[tfam[t]]
      BY <2>4, <2>5, <3>1 DEF Incr, OthersKept, srvVars, Effect, Neutral, Reserving
    <3>2. CASE ~is_waiting[tfam[t]]
      BY <2>5, <3>2 DEF Incr, Goto, srvVars, connVars, Effect, Neutral, Existing,
                        Reserving
    <3> QED
      BY <3>1, <3>2
  <2>6. CASE IncrUse(t)
    <3>1. Reserves(t)
      BY <2>6 DEF IncrUse, Goto, connVars, Reserves, Existing, Reserving
    <3> QED
      BY <3>1 DEF Effect
  <2>7. CASE IncrWait(t)
    BY <2>7 DEF IncrWait, Goto, connVars, Effect, Neutral, Existing, Reserving
  <2>8. CASE IncrUndo(t)
    <3>1. GivesUp(t)
      BY <2>4, <2>8 DEF IncrUndo, OthersKept, GivesUp, Reserving
    <3> QED
      BY <3>1 DEF Effect
  <2>9. CASE Construct(t)
    <3>1. OthersKept(t) /\ pc'[t] \in {"idle", "start", "cancel", "close"}
      BY <2>9, ReturnOwnership DEF Construct
    <3>2. Reserving' = Reserving \ {t} /\ t \in Reserving
      BY <2>9, <3>1 DEF Construct, OthersKept, Reserving
    <3>3. PICK c \in Conns :
             /\ conn[c] = "none"
             /\ conn' = [d \in Conns |->
                          IF d = c
                          THEN IF acceptor[tfam[t]] = "listening"
                               THEN "accepting" ELSE "aborted"
                          ELSE IF tctx[t] = "accept" /\ d = tconn[t] THEN "live"
                          ELSE conn[d]]
      BY <2>9 DEF Construct
    <3>4. Existing' = Existing \cup {c} /\ c \notin Existing
      BY <3>3 DEF Existing, HandlerOwnsConn
    <3>5. Fills(t, c)
      BY <2>9, <3>2, <3>4 DEF Construct, srvVars, Fills
    <3> QED
      BY <3>5 DEF Effect
  <2>10. CASE ConstructThrows(t)
    <3>1. pc'[t] \in {"idle", "release", "reset"} /\ OthersKept(t)
      BY <2>10, ReturnOwnership DEF ConstructThrows, Goto, OthersKept, Callers
    <3>2. Reserving' = Reserving \ {t} /\ t \in Reserving
      BY <2>10, <3>1 DEF ConstructThrows, OthersKept, Reserving
    <3>3. LeaksSlot(t)
      BY <2>10, <3>2 DEF ConstructThrows, connVars, LeaksSlot, Existing
    <3> QED
      BY <3>3 DEF Effect
  <2>11. CASE Reset(t)
    <3>1. pc'[t] \in {"idle", "release"} /\ OthersKept(t)
      BY <2>11, ReturnOwnership DEF Reset, Goto, OthersKept
    <3> QED
      BY <2>11, <3>1 DEF Reset, connVars, OthersKept, Effect, Neutral, Existing,
                         Reserving
  <2>12. CASE Release(t)
    <3>1. tconn[t] \in Conns /\ tconn[t] \in Existing /\ t \notin Reserving
      BY <2>12 DEF Release, HandlerOwnsConn, Existing, Reserving
    <3>2. Drops(tconn[t]) \/ LeaksConn(tconn[t])
      BY <2>12, <3>1, DeclEffect DEF Release
    <3> QED
      BY <3>1, <3>2 DEF Effect
  <2>13. CASE DeclWait(t)
    <3>1. pc'[t] \in {"idle", "incr"} /\ OthersKept(t)
      BY <2>13, ReturnOwnership DEF DeclWait, Goto, OthersKept
    <3> QED
      BY <2>13, <3>1 DEF DeclWait, connVars, OthersKept, Effect, Neutral, Existing,
                         Reserving
  <2> QED
    BY <2>1, <2>2, <2>3, <2>5, <2>6, <2>7, <2>8, <2>9, <2>10, <2>11, <2>12, <2>13
       DEF ThreadStep
<1>7. ASSUME NEW t \in Threads, NEW c \in Conns, OnAccept(t, c) PROVE Neutral
  <2>1. Existing' = Existing
    BY <1>7 DEF OnAccept, Existing, BaseTypes
  <2>2. Reserving' = Reserving
    BY <1>7 DEF OnAccept, Goto, Reserving, BaseTypes
  <2> QED
    BY <1>7, <2>1, <2>2 DEF OnAccept, Neutral
<1>8. ASSUME NEW t \in Threads, NEW c \in Conns, Disconnect(t, c)
      PROVE  Drops(c) \/ LeaksConn(c)
  BY <1>8, DeclEffect DEF Disconnect, Existing, Reserving
<1>9. CASE UNCHANGED vars
  BY <1>9 DEF vars, srvVars, connVars, thrVars, Effect, Neutral, Existing, Reserving
<1> QED
  BY <1>1, <1>2, <1>3, <1>4, <1>5, <1>6, <1>7, <1>8, <1>9 DEF Next, Effect

\* Every effect keeps the balance of use_count_ and what it counts.
LEMMA EffectBalance ==
  ASSUME BaseTypes, Effect
  PROVE  use_count' - Slots' - leaked' = use_count - Slots - leaked
<1> USE CountedSets DEF BaseTypes
<1> DEFINE Balanced == use_count' - Slots' - leaked' = use_count - Slots - leaked
<1>1. CASE Neutral
  BY <1>1 DEF Neutral, Slots
<1>2. ASSUME NEW t \in Threads, Reserves(t) PROVE Balanced
  <2>1. Cardinality(Reserving') = Cardinality(Reserving) + 1
    BY <1>2, FS_AddElement DEF Reserves
  <2> QED
    BY <1>2, <2>1 DEF Reserves, Slots
<1>3. ASSUME NEW t \in Threads, GivesUp(t) \/ LeaksSlot(t)
      PROVE  Cardinality(Reserving') = Cardinality(Reserving) - 1 /\ Existing' = Existing
  BY <1>3, FS_RemoveElement DEF GivesUp, LeaksSlot
<1>4. ASSUME NEW t \in Threads, GivesUp(t) \/ LeaksSlot(t) PROVE Balanced
  <2>1. Cardinality(Reserving') = Cardinality(Reserving) - 1 /\ Existing' = Existing
    BY <1>3, <1>4
  <2> QED
    BY <1>4, <2>1 DEF GivesUp, LeaksSlot, Slots
<1>5. ASSUME NEW t \in Threads, NEW c \in Conns, Fills(t, c) PROVE Balanced
  <2>1. Cardinality(Reserving') = Cardinality(Reserving) - 1
    BY <1>5, FS_RemoveElement DEF Fills
  <2>2. Cardinality(Existing') = Cardinality(Existing) + 1
    BY <1>5, FS_AddElement DEF Fills
  <2> QED
    BY <1>5, <2>1, <2>2 DEF Fills, Slots
<1>6. ASSUME NEW c \in Conns, Drops(c) \/ LeaksConn(c)
      PROVE  Cardinality(Existing') = Cardinality(Existing) - 1 /\ Reserving' = Reserving
  BY <1>6, FS_RemoveElement DEF Drops, LeaksConn
<1>7. ASSUME NEW c \in Conns, Drops(c) \/ LeaksConn(c) PROVE Balanced
  <2>1. Cardinality(Existing') = Cardinality(Existing) - 1 /\ Reserving' = Reserving
    BY <1>6, <1>7
  <2> QED
    BY <1>7, <2>1 DEF Drops, LeaksConn, Slots
<1> QED
  BY <1>1, <1>2, <1>4, <1>5, <1>7 DEF Effect

\* The inductive invariant: types, ownership of the Connectors in on_accept(),
\* and the counter.
IInv ==
  /\ BaseTypes
  /\ HandlerOwnsConn
  /\ UseCountExact

\* A server that has just been constructed satisfies the invariant.
LEMMA InitIInv == Init => IInv
<1> SUFFICES ASSUME Init PROVE IInv
  OBVIOUS
<1>1. BaseTypes
  <2>1. max_count \in Nat
    BY ServerAssumption DEF Init, ServerAssumption
  <2>2. /\ is_running \in [Fams -> BOOLEAN] /\ is_waiting \in [Fams -> BOOLEAN]
        /\ stopped \in BOOLEAN
    BY DEF Init
  <2>3. use_count \in Int /\ leaked \in Nat /\ acceptor \in [Fams -> {"closed", "open", "listening"}]
    BY DEF Init
  <2>4. conn \in [Conns -> ConnStates] /\ cfam \in [Conns -> Fams]
    BY FamsFacts DEF Init, ConnStates
  <2>5. /\ pc \in [Threads -> PCs] /\ tfam \in [Threads -> Fams]
        /\ tconn \in [Threads -> Conns \cup {NoConn}]
        /\ tctx \in [Threads -> Callers]
    BY FamsFacts DEF Init, PCs, Callers
  <2> QED
    BY <2>1, <2>2, <2>3, <2>4, <2>5 DEF BaseTypes
<1>2. HandlerOwnsConn
  BY DEF Init, HandlerOwnsConn
<1>3. Existing = {} /\ Reserving = {}
  BY DEF Init, Existing, Reserving
<1>4. UseCountExact
  BY <1>3, FS_EmptySet DEF Init, UseCountExact
<1> QED
  BY <1>1, <1>2, <1>4 DEF IInv

\* Every step of every handler keeps the invariant.
LEMMA NextIInv == IInv /\ [Next]_vars => IInv'
<1> SUFFICES ASSUME IInv, [Next]_vars PROVE IInv'
  OBVIOUS
<1>1. BaseTypes /\ HandlerOwnsConn /\ UseCountExact
  BY DEF IInv
<1>2. BaseTypes'
  BY <1>1, BaseTypesStep
<1>3. HandlerOwnsConn'
  BY <1>1, OwnershipStep
<1>4. use_count' - Slots' - leaked' = use_count - Slots - leaked
  BY <1>1, StepEffect, EffectBalance
<1>5. /\ Slots \in Nat /\ use_count \in Int /\ leaked \in Nat
      /\ Slots' \in Nat /\ use_count' \in Int /\ leaked' \in Nat
  BY <1>1, <1>2, CountedSets DEF BaseTypes
<1>6. use_count = Slots + leaked
  BY <1>1 DEF UseCountExact, Slots
<1>7. use_count - Slots - leaked = 0
  BY <1>5, <1>6
<1>8. use_count' - Slots' - leaked' = 0
  BY <1>4, <1>7
<1>9. use_count' = Slots' + leaked'
  <2>1. \A u, n, l \in Int : u - n - l = 0 => u = n + l
    OBVIOUS
  <2>2. use_count' \in Int /\ Slots' \in Int /\ leaked' \in Int
    BY <1>5
  <2> QED
    BY <2>1, <2>2, <1>8, Zenon
<1>10. UseCountExact'
  BY <1>9 DEF UseCountExact, Slots
<1> QED
  BY <1>2, <1>3, <1>10 DEF IInv

\* simple_server_base keeps the invariant for ever.
THEOREM ServerInvariant == Spec => []IInv
BY InitIInv, NextIInv, PTL DEF Spec

\* The state of the server keeps its types; in particular use_count_, which is
\* unsigned, never wraps below zero, whatever throws and whoever stops.
THEOREM ServerTypeOK == Spec => []TypeOK
<1>1. IInv => TypeOK
  <2> SUFFICES ASSUME IInv PROVE TypeOK
    OBVIOUS
  <2>1. use_count = Slots + leaked /\ Slots \in Nat /\ leaked \in Nat
    BY CountedSets DEF IInv, BaseTypes, UseCountExact, Slots
  <2>2. use_count \in Nat
    BY <2>1
  <2> QED
    BY <2>2 DEF IInv, BaseTypes, TypeOK
<1> QED
  BY <1>1, ServerInvariant, PTL

\* incr() and decl() are paired on every interleaving of any number of threads:
\* use_count_ counts the Connectors and the reserved slots, and beyond these only
\* what a throwing construct() and a stopped io_service have lost.
THEOREM ServerExact == Spec => []UseCountExact
<1>1. IInv => UseCountExact
  BY DEF IInv
<1> QED
  BY <1>1, ServerInvariant, PTL

-----------------------------------------------------------------------------
(***************************************************************************)
(* The limit.  Used counts the Connectors that are or will be there when   *)
(* the handlers under way have gone on; Potential adds what may still be   *)
(* started without another Connector being dropped: by each family that    *)
(* does not wait, and by each thread that is about to reset is_waiting_.   *)
(***************************************************************************)
Constructing == {t \in Threads : pc[t] = "construct"}
Dropping == {t \in Threads : pc[t] = "release" \/ (pc[t] = "reset" /\ tctx[t] = "accept")}
Resetting == {t \in Threads : pc[t] \in {"decl_wait", "reset"}}
NotWaiting == {f \in Fams : ~is_waiting[f]}

Used == Cardinality(Existing) + Cardinality(Constructing) - Cardinality(Dropping)
Potential == Used + Cardinality(NotWaiting) + Cardinality(Resetting)

MostUsed == max_count + NumFamilies + Cardinality(Threads) - 2

\* Below the limit anything may be under way; at the limit what may still be
\* started is bounded, and not all threads drop a Connector at once without
\* there being room for one.
Limited ==
  \/ Used <= max_count - 1
  \/ /\ Potential <= MostUsed
     /\ Dropping = Threads =>
          NotWaiting # {} \/ Resetting # {} \/ Potential < MostUsed

\* The weights of a thread in Used and in Potential.
Weight(l, x) ==
  (IF l = "construct" THEN 1 ELSE 0)
    - (IF l = "release" \/ (l = "reset" /\ x = "accept") THEN 1 ELSE 0)
ResetWeight(l) == IF l \in {"decl_wait", "reset"} THEN 1 ELSE 0

LimitNumbers ==
  /\ IsFiniteSet(Constructing) /\ Cardinality(Constructing) \in Nat
  /\ IsFiniteSet(Dropping) /\ Cardinality(Dropping) \in Nat
  /\ IsFiniteSet(Resetting) /\ Cardinality(Resetting) \in Nat
  /\ IsFiniteSet(NotWaiting) /\ Cardinality(NotWaiting) \in Nat
  /\ Cardinality(Existing) \in Nat
  /\ Cardinality(Threads) \in Nat /\ Cardinality(Threads) >= 1 /\ NumFamilies \in {1, 2}
  /\ Cardinality(NotWaiting) <= NumFamilies
  /\ Cardinality(Resetting) <= Cardinality(Threads)
  /\ Resetting # Threads => Cardinality(Resetting) < Cardinality(Threads)
  /\ Cardinality(Dropping) <= Cardinality(Threads)
  /\ Dropping # Threads => Cardinality(Dropping) < Cardinality(Threads)

\* The size of a set that changes at one element only.
LEMMA OneChange ==
  ASSUME NEW S, NEW S2, NEW x, IsFiniteSet(S), S \ {x} = S2 \ {x}
  PROVE  /\ IsFiniteSet(S2) /\ Cardinality(S) \in Nat /\ Cardinality(S2) \in Nat
         /\ Cardinality(S2) = Cardinality(S) + (IF x \in S2 THEN 1 ELSE 0)
                                            - (IF x \in S THEN 1 ELSE 0)
<1> DEFINE R == S \ {x}
<1>1. IsFiniteSet(R) /\ Cardinality(R) = IF x \in S THEN Cardinality(S) - 1 ELSE Cardinality(S)
  BY FS_RemoveElement
<1>2. IsFiniteSet(S2)
  <2>1. S2 = R \/ S2 = R \cup {x}
    OBVIOUS
  <2> QED
    BY <1>1, <2>1, FS_AddElement
<1>3. Cardinality(R) = IF x \in S2 THEN Cardinality(S2) - 1 ELSE Cardinality(S2)
  <2>1. R = S2 \ {x}
    OBVIOUS
  <2> QED
    BY <1>2, <2>1, FS_RemoveElement
<1>4. Cardinality(S) \in Nat /\ Cardinality(S2) \in Nat /\ Cardinality(R) \in Nat
  BY <1>1, <1>2, FS_CardinalityType
<1> HIDE DEF R
<1> QED
  BY <1>1, <1>2, <1>3, <1>4

\* The sizes that Limited is about are numbers.
LEMMA LimitTypes == LimitNumbers
<1>1. /\ Constructing \subseteq Threads /\ Dropping \subseteq Threads
      /\ Resetting \subseteq Threads /\ NotWaiting \subseteq Fams
  BY DEF Constructing, Dropping, Resetting, NotWaiting
<1>2. NumFamilies \in {1, 2} /\ IsFiniteSet(Threads) /\ Threads # {}
  BY ServerAssumption DEF ServerAssumption
<1>3. IsFiniteSet(Fams) /\ Cardinality(Fams) = NumFamilies
  BY <1>2, FS_Interval DEF Fams
<1>4. Cardinality(Threads) \in Nat /\ Cardinality(Threads) >= 1
  BY <1>2, FS_CardinalityType, FS_EmptySet
<1>5. /\ IsFiniteSet(NotWaiting) /\ Cardinality(NotWaiting) \in Nat
      /\ Cardinality(NotWaiting) <= NumFamilies
  BY <1>1, <1>3, FS_Subset, FS_CardinalityType
<1>6. ASSUME NEW S \in SUBSET Threads
      PROVE  /\ IsFiniteSet(S) /\ Cardinality(S) \in Nat
             /\ Cardinality(S) <= Cardinality(Threads)
             /\ S # Threads => Cardinality(S) < Cardinality(Threads)
  <2>1. /\ IsFiniteSet(S) /\ Cardinality(S) <= Cardinality(Threads)
        /\ Cardinality(Threads) = Cardinality(S) => Threads = S
    BY <1>2, FS_Subset
  <2>2. Cardinality(S) \in Nat
    BY <2>1, FS_CardinalityType
  <2> QED
    BY <1>4, <2>1, <2>2
<1> QED
  BY <1>1, <1>2, <1>4, <1>5, <1>6, CountedSets DEF LimitNumbers

\* The same after a step.
LEMMA LimitTypesNext == LimitNumbers'
BY LimitTypes, PTL

\* Used, Potential and their bound are integers, before and after a step.
LEMMA LimitInts ==
  ASSUME BaseTypes, max_count' = max_count
  PROVE  /\ Used \in Int /\ Potential \in Int /\ Used' \in Int /\ Potential' \in Int
         /\ max_count \in Nat /\ MostUsed \in Int /\ MostUsed' = MostUsed
<1>1. max_count \in Nat
  BY DEF BaseTypes
<1>2. Used \in Int /\ Potential \in Int /\ MostUsed \in Int
  BY <1>1, LimitTypes DEF LimitNumbers, Used, Potential, MostUsed
<1>3. Used' \in Int /\ Potential' \in Int
  BY LimitTypesNext DEF LimitNumbers, Used, Potential
<1>4. MostUsed' = MostUsed
  BY DEF MostUsed
<1> QED
  BY <1>1, <1>2, <1>3, <1>4

\* The ways a step keeps Limited: it leaves the server below the limit, it adds
\* nothing to what is used or may be started, or a family starts to wait.
LEMMA LimitedKept ==
  ASSUME BaseTypes, Limited, max_count' = max_count,
         \/ Used' <= max_count - 1
         \/ /\ Used' <= Used /\ Potential' <= Potential
            /\ Dropping' = Threads =>
                 \/ NotWaiting' # {} \/ Resetting' # {} \/ Potential' < Potential
                 \/ NotWaiting' = NotWaiting /\ Resetting' = Resetting /\ Dropping' = Dropping
         \/ /\ Used' = Used + 1 /\ Potential' = Potential
            /\ Cardinality(NotWaiting') < NumFamilies
            /\ Resetting' # Threads /\ Dropping' # Threads
  PROVE  Limited'
<1>0. /\ Used \in Int /\ Potential \in Int /\ Used' \in Int /\ Potential' \in Int
      /\ max_count \in Nat /\ MostUsed \in Int /\ MostUsed' = MostUsed
  BY LimitInts
<1>1. CASE Used' <= max_count - 1
  BY <1>1 DEF Limited
<1>2. CASE /\ Used' <= Used /\ Potential' <= Potential
           /\ Dropping' = Threads =>
                \/ NotWaiting' # {} \/ Resetting' # {} \/ Potential' < Potential
                \/ NotWaiting' = NotWaiting /\ Resetting' = Resetting /\ Dropping' = Dropping
  <2>1. CASE Used <= max_count - 1
    BY <1>0, <1>2, <2>1 DEF Limited
  <2>2. CASE /\ Potential <= MostUsed
             /\ Dropping = Threads =>
                  NotWaiting # {} \/ Resetting # {} \/ Potential < MostUsed
    <3>1. Potential' <= MostUsed
      BY <1>0, <1>2, <2>2
    <3>2. Dropping' = Threads => NotWaiting' # {} \/ Resetting' # {} \/ Potential' < MostUsed
      BY <1>0, <1>2, <2>2
    <3> QED
      BY <1>0, <3>1, <3>2 DEF Limited
  <2> QED
    BY <2>1, <2>2 DEF Limited
<1>3. CASE /\ Used' = Used + 1 /\ Potential' = Potential
           /\ Cardinality(NotWaiting') < NumFamilies
           /\ Resetting' # Threads /\ Dropping' # Threads
  <2>1. CASE Used <= max_count - 1
    <3>1. Potential' = Used' + Cardinality(NotWaiting') + Cardinality(Resetting')
      BY DEF Potential
    <3>2. Cardinality(Resetting') < Cardinality(Threads)
      BY <1>3, LimitTypesNext DEF LimitNumbers
    <3>3. /\ Cardinality(NotWaiting') \in Nat /\ Cardinality(Resetting') \in Nat
          /\ Cardinality(Threads) \in Nat /\ NumFamilies \in Nat
      BY LimitTypes, LimitTypesNext DEF LimitNumbers
    <3>4. Potential' <= max_count + (NumFamilies - 1) + (Cardinality(Threads) - 1)
      BY <1>0, <1>3, <2>1, <3>1, <3>2, <3>3
    <3>5. Potential' <= MostUsed
      BY <1>0, <3>3, <3>4 DEF MostUsed
    <3> QED
      BY <1>0, <1>3, <3>5 DEF Limited
  <2>2. CASE Potential <= MostUsed
    BY <1>0, <1>3, <2>2 DEF Limited
  <2> QED
    BY <2>1, <2>2 DEF Limited
<1> QED
  BY <1>1, <1>2, <1>3

\* What a step of thread t does to the two sums: its own weights change, and
\* perhaps the Connectors and the families that wait.
LEMMA ThreadWeights ==
  ASSUME BaseTypes, NEW t \in Threads, OthersKept(t)
  PROVE  /\ Used' - Used = Cardinality(Existing') - Cardinality(Existing)
                          + Weight(pc'[t], tctx'[t]) - Weight(pc[t], tctx[t])
         /\ Potential' - Potential = Used' - Used
               + Cardinality(NotWaiting') - Cardinality(NotWaiting)
               + ResetWeight(pc'[t]) - ResetWeight(pc[t])
         /\ t \in Dropping' <=> pc'[t] = "release" \/ (pc'[t] = "reset" /\ tctx'[t] = "accept")
         /\ t \in Resetting' <=> pc'[t] \in {"decl_wait", "reset"}
<1>1. /\ Constructing' \ {t} = Constructing \ {t}
      /\ Dropping' \ {t} = Dropping \ {t}
      /\ Resetting' \ {t} = Resetting \ {t}
  BY DEF OthersKept, Constructing, Dropping, Resetting
<1>2. Cardinality(Constructing') = Cardinality(Constructing)
           + (IF t \in Constructing' THEN 1 ELSE 0) - (IF t \in Constructing THEN 1 ELSE 0)
  BY <1>1, LimitTypes, OneChange DEF LimitNumbers
<1>3. Cardinality(Dropping') = Cardinality(Dropping)
           + (IF t \in Dropping' THEN 1 ELSE 0) - (IF t \in Dropping THEN 1 ELSE 0)
  BY <1>1, LimitTypes, OneChange DEF LimitNumbers
<1>4. Cardinality(Resetting') = Cardinality(Resetting)
           + (IF t \in Resetting' THEN 1 ELSE 0) - (IF t \in Resetting THEN 1 ELSE 0)
  BY <1>1, LimitTypes, OneChange DEF LimitNumbers
<1>5. /\ t \in Constructing <=> pc[t] = "construct"
      /\ t \in Dropping <=> pc[t] = "release" \/ (pc[t] = "reset" /\ tctx[t] = "accept")
      /\ t \in Resetting <=> pc[t] \in {"decl_wait", "reset"}
      /\ t \in Constructing' <=> pc'[t] = "construct"
      /\ t \in Dropping' <=> pc'[t] = "release" \/ (pc'[t] = "reset" /\ tctx'[t] = "accept")
      /\ t \in Resetting' <=> pc'[t] \in {"decl_wait", "reset"}
  BY DEF Constructing, Dropping, Resetting
<1>6. /\ Weight(pc[t], tctx[t]) = (IF t \in Constructing THEN 1 ELSE 0)
                                     - (IF t \in Dropping THEN 1 ELSE 0)
      /\ Weight(pc'[t], tctx'[t]) = (IF t \in Constructing' THEN 1 ELSE 0)
                                       - (IF t \in Dropping' THEN 1 ELSE 0)
      /\ ResetWeight(pc[t]) = (IF t \in Resetting THEN 1 ELSE 0)
      /\ ResetWeight(pc'[t]) = (IF t \in Resetting' THEN 1 ELSE 0)
  BY <1>5 DEF Weight, ResetWeight
<1>7. /\ Cardinality(Existing) \in Int /\ Cardinality(Existing') \in Int
      /\ Cardinality(Constructing) \in Int /\ Cardinality(Constructing') \in Int
      /\ Cardinality(Dropping) \in Int /\ Cardinality(Dropping') \in Int
      /\ Cardinality(NotWaiting) \in Int /\ Cardinality(NotWaiting') \in Int
      /\ Cardinality(Resetting) \in Int /\ Cardinality(Resetting') \in Int
  BY LimitTypes, LimitTypesNext DEF LimitNumbers
<1>8. Used' - Used = Cardinality(Existing') - Cardinality(Existing)
                      + Weight(pc'[t], tctx'[t]) - Weight(pc[t], tctx[t])
  BY <1>2, <1>3, <1>6, <1>7 DEF Used
<1>9. Used \in Int /\ Used' \in Int
  BY <1>7 DEF Used
<1>10. Potential' - Potential = Used' - Used
               + Cardinality(NotWaiting') - Cardinality(NotWaiting)
               + ResetWeight(pc'[t]) - ResetWeight(pc[t])
  BY <1>4, <1>6, <1>7, <1>9 DEF Potential
<1> QED
  BY <1>5, <1>8, <1>10

\* What happens to the number of families that do not wait when one of them is
\* told to.
LEMMA WaitingChange ==
  ASSUME BaseTypes, NEW f \in Fams, NEW b \in BOOLEAN,
         is_waiting' = [is_waiting EXCEPT ![f] = b]
  PROVE  /\ Cardinality(NotWaiting') = Cardinality(NotWaiting)
              + (IF b THEN 0 ELSE 1) - (IF is_waiting[f] THEN 0 ELSE 1)
         /\ f \in NotWaiting' <=> ~b
<1>1. NotWaiting' \ {f} = NotWaiting \ {f}
  BY DEF NotWaiting, BaseTypes
<1>2. (f \in NotWaiting <=> ~is_waiting[f]) /\ (f \in NotWaiting' <=> ~b)
  BY DEF NotWaiting, BaseTypes
<1>3. Cardinality(NotWaiting') = Cardinality(NotWaiting)
           + (IF f \in NotWaiting' THEN 1 ELSE 0) - (IF f \in NotWaiting THEN 1 ELSE 0)
  BY <1>1, LimitTypes, OneChange DEF LimitNumbers
<1>4. Cardinality(NotWaiting) \in Int
  BY LimitTypes DEF LimitNumbers
<1> QED
  BY <1>2, <1>3, <1>4

\* Where a thread has no weight.
Plain == PCs \ {"construct", "release", "reset", "decl_wait"}

\* A thread that moves between such places changes nothing that counts.
LEMMA QuietStep ==
  ASSUME BaseTypes, Limited, max_count' = max_count, NEW t \in Threads, OthersKept(t),
         is_waiting' = is_waiting, Existing' = Existing, pc[t] \in Plain, pc'[t] \in Plain
  PROVE  Limited'
<1>1. /\ Weight(pc[t], tctx[t]) = 0 /\ Weight(pc'[t], tctx'[t]) = 0
      /\ ResetWeight(pc[t]) = 0 /\ ResetWeight(pc'[t]) = 0
  BY DEF Weight, ResetWeight, Plain
<1>2. NotWaiting' = NotWaiting
  BY DEF NotWaiting
<1>3. Cardinality(NotWaiting) \in Int /\ Cardinality(Existing) \in Int
  BY LimitTypes DEF LimitNumbers
<1>4. Used \in Int /\ Potential \in Int /\ Used' \in Int /\ Potential' \in Int
  BY LimitInts
<1>5. Used' <= Used /\ Potential' <= Potential
  <2>1. Cardinality(Existing') = Cardinality(Existing)
        /\ Cardinality(NotWaiting') = Cardinality(NotWaiting)
    BY <1>2
  <2>2. \A a, b, d \in Int : a - b = d - d + 0 - 0 => a = b
    OBVIOUS
  <2>3. Used' - Used = Cardinality(Existing) - Cardinality(Existing) + 0 - 0
    BY <1>1, <2>1, ThreadWeights
  <2>4. Used' = Used
    BY <1>3, <1>4, <2>2, <2>3, Zenon
  <2>5. \A a, b, c, d \in Int : a - b = c - c + d - d + 0 - 0 => a = b
    OBVIOUS
  <2>6. Potential' - Potential
          = Used - Used + Cardinality(NotWaiting) - Cardinality(NotWaiting) + 0 - 0
    BY <1>1, <2>1, <2>4, ThreadWeights
  <2>7. Potential' = Potential
    BY <1>3, <1>4, <2>5, <2>6, Zenon
  <2> QED
    BY <1>4, <2>4, <2>7
<1>6. t \notin Dropping'
  BY DEF Plain, Dropping
<1>7. Dropping' # Threads
  BY <1>6
<1> QED
  BY <1>5, <1>7, LimitedKept

\* Nothing that counts changes at all.
LEMMA StillStep ==
  ASSUME BaseTypes, Limited, max_count' = max_count, is_waiting' = is_waiting,
         Existing' = Existing, pc' = pc, tctx' = tctx
  PROVE  Limited'
<1>1. /\ NotWaiting' = NotWaiting /\ Resetting' = Resetting
      /\ Dropping' = Dropping /\ Constructing' = Constructing
  BY DEF NotWaiting, Resetting, Dropping, Constructing
<1> QED
  BY <1>1 DEF Limited, Used, Potential, MostUsed

\* Below the limit by the count of incr() and decl().
LEMMA BelowLimit ==
  ASSUME IInv', use_count' < max_count', max_count' = max_count, BaseTypes
  PROVE  Used' <= max_count - 1
<1>1. Cardinality(Constructing') <= Cardinality(Reserving')
  <2>1. Constructing' \in SUBSET Reserving'
    BY DEF Constructing, Reserving
  <2>2. IsFiniteSet(Reserving')
    BY FiniteParts DEF Reserving
  <2> QED
    BY <2>1, <2>2, FS_Subset
<1>2. /\ Cardinality(Existing') \in Int /\ Cardinality(Constructing') \in Int
      /\ Cardinality(Dropping') \in Nat /\ Cardinality(Reserving') \in Int
  BY LimitTypesNext, CountedSets DEF LimitNumbers
<1>3. /\ use_count' = Cardinality(Existing') + Cardinality(Reserving') + leaked'
      /\ leaked' \in Nat /\ max_count \in Nat
  BY DEF IInv, BaseTypes, UseCountExact
<1>4. Cardinality(Existing') + Cardinality(Reserving') + leaked' < max_count
  BY <1>3
<1> QED
  BY <1>1, <1>2, <1>3, <1>4 DEF Used

\* decl() makes room for one Connector, and may have to reset is_waiting_ then.
LEMMA DeclLimited ==
  ASSUME BaseTypes, IInv', Limited, NEW t \in Threads, NEW c \in Conns, c \in Existing,
         t \notin Reserving, OthersKept(t), Decl(t, c),
         \/ pc[t] \in Plain
         \/ pc[t] = "release"
  PROVE  Limited'
<1>1. max_count' = max_count /\ is_waiting' = is_waiting
  BY DEF Decl
<1>2. NotWaiting' = NotWaiting
  BY <1>1 DEF NotWaiting
<1>3. Existing' = Existing \ {c}
  BY DEF Decl, Existing, BaseTypes
<1>4. Cardinality(Existing') = Cardinality(Existing) - 1
  BY <1>3, CountedSets, FS_RemoveElement
<1>5. Cardinality(NotWaiting) \in Int /\ Cardinality(Existing) \in Int
  BY LimitTypes DEF LimitNumbers
<1>6. Used \in Int /\ Potential \in Int /\ Used' \in Int /\ Potential' \in Int
  BY <1>1, LimitInts
<1>7. Weight(pc[t], tctx[t]) \in {0, -1} /\ ResetWeight(pc[t]) = 0
      /\ (pc[t] # "release" => Weight(pc[t], tctx[t]) = 0)
  BY DEF Weight, ResetWeight, Plain
<1>8. \/ pc'[t] = "idle"
      \/ pc'[t] = "decl_wait" /\ use_count' = use_count - 1 /\ use_count' < max_count
  BY DEF Decl, BecomeIdle, Goto, BaseTypes
<1>9. CASE pc'[t] = "idle"
  <2>1. /\ Weight(pc'[t], tctx'[t]) = 0 /\ ResetWeight(pc'[t]) = 0 /\ t \notin Dropping'
    BY <1>9 DEF Weight, ResetWeight, Dropping
  <2>2. Used' <= Used /\ Potential' <= Potential
    BY <1>2, <1>4, <1>5, <1>6, <1>7, <2>1, ThreadWeights
  <2> QED
    BY <1>1, <2>1, <2>2, LimitedKept
<1>10. CASE pc'[t] = "decl_wait" /\ pc[t] # "release"
  <2>1. Weight(pc'[t], tctx'[t]) = 0 /\ ResetWeight(pc'[t]) = 1 /\ t \notin Dropping'
    BY <1>10 DEF Weight, ResetWeight, Dropping
  <2>2. Used' <= Used /\ Potential' <= Potential
    BY <1>2, <1>4, <1>5, <1>6, <1>7, <1>10, <2>1, ThreadWeights
  <2> QED
    BY <1>1, <2>1, <2>2, LimitedKept
<1>11. CASE pc'[t] = "decl_wait" /\ pc[t] = "release"
  <2>1. use_count' < max_count'
    BY <1>1, <1>8, <1>11
  <2>2. Used' <= max_count - 1
    BY <1>1, <2>1, BelowLimit
  <2> QED
    BY <1>1, <2>2, LimitedKept
<1> QED
  BY <1>8, <1>9, <1>10, <1>11

\* The same in terms of how many Connectors and families come or go.
LEMMA WeightChange ==
  ASSUME BaseTypes, max_count' = max_count, NEW t \in Threads, OthersKept(t),
         NEW e \in Int, Cardinality(Existing') = Cardinality(Existing) + e,
         NEW w \in Int, Cardinality(NotWaiting') = Cardinality(NotWaiting) + w
  PROVE  /\ Used' - Used = e + Weight(pc'[t], tctx'[t]) - Weight(pc[t], tctx[t])
         /\ Potential' - Potential = e + Weight(pc'[t], tctx'[t]) - Weight(pc[t], tctx[t])
                           + w + ResetWeight(pc'[t]) - ResetWeight(pc[t])
<1>1. /\ Used \in Int /\ Potential \in Int /\ Used' \in Int /\ Potential' \in Int
  BY LimitInts
<1>2. Cardinality(NotWaiting) \in Int /\ Cardinality(Existing) \in Int
  BY LimitTypes DEF LimitNumbers
<1>3. /\ Weight(pc[t], tctx[t]) \in Int /\ Weight(pc'[t], tctx'[t]) \in Int
      /\ ResetWeight(pc[t]) \in Int /\ ResetWeight(pc'[t]) \in Int
  BY DEF Weight, ResetWeight
<1>4. Used' - Used = e + Weight(pc'[t], tctx'[t]) - Weight(pc[t], tctx[t])
  BY <1>1, <1>2, <1>3, ThreadWeights
<1>5. Potential' - Potential = e + Weight(pc'[t], tctx'[t]) - Weight(pc[t], tctx[t])
                     + w + ResetWeight(pc'[t]) - ResetWeight(pc[t])
  BY <1>1, <1>2, <1>3, <1>4, ThreadWeights
<1> QED
  BY <1>4, <1>5

\* A step keeps Limited when it adds nothing to the two sums.
LEMMA WeightStep ==
  ASSUME BaseTypes, Limited, max_count' = max_count, NEW t \in Threads, OthersKept(t),
         NEW e \in Int, Cardinality(Existing') = Cardinality(Existing) + e,
         NEW w \in Int, Cardinality(NotWaiting') = Cardinality(NotWaiting) + w,
         e + Weight(pc'[t], tctx'[t]) <= Weight(pc[t], tctx[t]),
         e + w + Weight(pc'[t], tctx'[t]) + ResetWeight(pc'[t])
            <= Weight(pc[t], tctx[t]) + ResetWeight(pc[t]),
         \/ t \notin Dropping' \/ NotWaiting' # {} \/ Resetting' # {}
         \/ e + w + Weight(pc'[t], tctx'[t]) + ResetWeight(pc'[t])
               < Weight(pc[t], tctx[t]) + ResetWeight(pc[t])
  PROVE  Limited'
<1>1. /\ Used \in Int /\ Potential \in Int /\ Used' \in Int /\ Potential' \in Int
  BY LimitInts
<1>2. /\ Weight(pc[t], tctx[t]) \in Int /\ Weight(pc'[t], tctx'[t]) \in Int
      /\ ResetWeight(pc[t]) \in Int /\ ResetWeight(pc'[t]) \in Int
  BY DEF Weight, ResetWeight
<1>3. /\ Used' - Used = e + Weight(pc'[t], tctx'[t]) - Weight(pc[t], tctx[t])
      /\ Potential' - Potential = e + Weight(pc'[t], tctx'[t]) - Weight(pc[t], tctx[t])
                        + w + ResetWeight(pc'[t]) - ResetWeight(pc[t])
  BY WeightChange
<1>4. Used' <= Used /\ Potential' <= Potential
  BY <1>1, <1>2, <1>3
<1>5. \/ t \notin Dropping' \/ NotWaiting' # {} \/ Resetting' # {}
      \/ Potential' < Potential
  BY <1>1, <1>2, <1>3
<1> QED
  BY <1>4, <1>5, LimitedKept

\* Every step keeps the limit, unless max_count() changes it.
LEMMA LimitedStep ==
  ASSUME IInv, IInv', Limited, "max_count" \notin Events, [Next]_vars
  PROVE  Limited'
<1>0. BaseTypes /\ HandlerOwnsConn
  BY DEF IInv
<1>1. ASSUME NEW f \in Fams, Listen(f) PROVE Limited'
  BY <1>0, <1>1, StillStep DEF Listen, connVars, thrVars, Existing
<1>2. ASSUME NEW n \in Counts, SetMaxCount(n) PROVE Limited'
  BY <1>2 DEF SetMaxCount
<1>3. ASSUME NEW c \in Conns, ClientConnects(c) \/ AcceptError(c) PROVE Limited'
  <2>1. Existing' = Existing
    BY <1>0, <1>3 DEF ClientConnects, AcceptError, Existing, BaseTypes
  <2> QED
    BY <1>0, <1>3, <2>1, StillStep DEF ClientConnects, AcceptError, srvVars, thrVars
<1>4. ASSUME StopOrReset PROVE Limited'
  BY <1>0, <1>4, StillStep DEF StopOrReset, connVars, thrVars, Existing
<1>5. ASSUME NEW t \in Threads, Start(t) \/ Cancel(t) \/ Close(t) PROVE Limited'
  <2>1. /\ OthersKept(t) /\ pc[t] \in Plain /\ pc'[t] \in Plain
        /\ max_count' = max_count /\ is_waiting' = is_waiting /\ Existing' = Existing
    BY <1>0, <1>5 DEF Start, Cancel, Close, Goto, srvVars, connVars, OthersKept,
                      Plain, PCs, Existing, BaseTypes
  <2> QED
    BY <1>0, <2>1, QuietStep
<1>6. ASSUME NEW t \in Threads, ThreadStep(t) PROVE Limited'
  <2> USE <1>0, <1>6 DEF BaseTypes
  <2>1. CASE StartFamily(t)
    <3>1. OthersKept(t) /\ pc[t] \in Plain /\ pc'[t] \in Plain
      BY <2>1, ReturnOwnership DEF StartFamily, Goto, OthersKept, Plain, PCs
    <3>2. max_count' = max_count /\ is_waiting' = is_waiting /\ Existing' = Existing
      BY <2>1 DEF StartFamily, srvVars, connVars, Existing
    <3> QED
      BY <3>1, <3>2, QuietStep
  <2>2. CASE ClearRunning(t)
    <3>1. OthersKept(t) /\ pc[t] \in Plain /\ pc'[t] \in Plain
      BY <2>2, ReturnOwnership DEF ClearRunning, Goto, OthersKept, Plain, PCs
    <3>2. max_count' = max_count /\ is_waiting' = is_waiting /\ Existing' = Existing
      BY <2>2 DEF ClearRunning, connVars, Existing
    <3> QED
      BY <3>1, <3>2, QuietStep
  <2>3. CASE StopAcceptor(t)
    <3>1. OthersKept(t) /\ pc[t] \in Plain /\ pc'[t] \in Plain
      BY <2>3, ReturnOwnership DEF StopAcceptor, Plain, PCs
    <3>2. max_count' = max_count /\ is_waiting' = is_waiting
      BY <2>3 DEF StopAcceptor
    <3>3. Existing' = Existing
      BY <2>3 DEF StopAcceptor, Aborted, Existing
    <3> QED
      BY <3>1, <3>2, <3>3, QuietStep
  <2>4. ASSUME Return(t)
        PROVE  OthersKept(t) /\ pc'[t] \in Plain /\ Existing' = Existing
    <3>1. CASE tctx[t] = "start"
      BY <2>4, <3>1, ReturnOwnership DEF Return, connVars, Existing, Plain, PCs
    <3>2. CASE tctx[t] = "accept"
      BY <2>4, <3>2, ReturnOwnership DEF Return, Existing, HandlerOwnsConn, Plain, PCs
    <3>3. CASE tctx[t] = "disconnect"
      BY <2>4, <3>3, ReturnOwnership DEF Return, connVars, Existing, Plain, PCs
    <3> QED
      BY <3>1, <3>2, <3>3 DEF Callers
  <2>5. CASE Incr(t) \/ IncrUndo(t)
    <3>1. pc[t] \in Plain /\ max_count' = max_count /\ is_waiting' = is_waiting
      BY <2>5 DEF Incr, IncrUndo, srvVars, Plain, PCs
    <3>2. CASE Return(t)
      BY <2>4, <3>1, <3>2, QuietStep
    <3>3. CASE Incr(t) /\ ~is_waiting[tfam[t]]
      <4>1. OthersKept(t) /\ pc'[t] \in Plain /\ Existing' = Existing
        BY <3>3 DEF Incr, Goto, connVars, OthersKept, Existing, Plain, PCs
      <4> QED
        BY <3>1, <4>1, QuietStep
    <3> QED
      BY <2>5, <3>2, <3>3 DEF Incr, IncrUndo
  <2>6. CASE IncrUse(t)
    <3>1. /\ OthersKept(t) /\ pc[t] \in Plain /\ Existing' = Existing
          /\ max_count' = max_count /\ is_waiting' = is_waiting
          /\ use_count' = use_count + 1
          /\ pc'[t] = IF use_count + 1 >= max_count THEN "incr_wait" ELSE "construct"
      BY <2>6 DEF IncrUse, Goto, connVars, OthersKept, Existing, Plain, PCs
    <3>2. CASE use_count + 1 >= max_count
      <4>1. pc'[t] \in Plain
        BY <3>1, <3>2 DEF Plain, PCs
      <4> QED
        BY <3>1, <4>1, QuietStep
    <3>3. CASE ~(use_count + 1 >= max_count)
      <4>1. use_count' < max_count'
        BY <3>1, <3>3
      <4>2. Used' <= max_count - 1
        BY <3>1, <4>1, BelowLimit
      <4> QED
        BY <3>1, <4>2, LimitedKept
    <3> QED
      BY <3>2, <3>3
  <2>7. CASE IncrWait(t)
    <3> DEFINE f == tfam[t]
    <3>1. /\ OthersKept(t) /\ pc[t] = "incr_wait" /\ Existing' = Existing
          /\ max_count' = max_count /\ is_waiting' = [is_waiting EXCEPT ![f] = TRUE]
          /\ pc'[t] = IF is_waiting[f] THEN "incr_undo" ELSE "construct"
      BY <2>7 DEF IncrWait, Goto, connVars, OthersKept, Existing
    <3>2. CASE is_waiting[f]
      <4>1. pc[t] \in Plain /\ pc'[t] \in Plain /\ is_waiting' = is_waiting
        BY <3>1, <3>2 DEF Plain, PCs
      <4> QED
        BY <3>1, <4>1, QuietStep
    <3>3. CASE ~is_waiting[f]
      <4>1. /\ Cardinality(NotWaiting') = Cardinality(NotWaiting) - 1
            /\ f \in Fams /\ f \notin NotWaiting'
        <5>1. f \in Fams
          OBVIOUS
        <5>2. /\ Cardinality(NotWaiting') = Cardinality(NotWaiting) + 0 - 1
              /\ f \notin NotWaiting'
          BY <3>1, <3>3, <5>1, WaitingChange
        <5> QED
          BY <5>1, <5>2, LimitTypes DEF LimitNumbers
      <4>2. /\ Cardinality(NotWaiting) \in Int /\ Cardinality(NotWaiting) <= NumFamilies
            /\ NumFamilies \in Int /\ Cardinality(Existing) \in Int
        BY LimitTypes DEF LimitNumbers
      <4>3. /\ Weight(pc[t], tctx[t]) = 0 /\ Weight(pc'[t], tctx'[t]) = 1
            /\ ResetWeight(pc[t]) = 0 /\ ResetWeight(pc'[t]) = 0
        BY <3>1, <3>3 DEF Weight, ResetWeight
      <4>4. t \notin Dropping' /\ t \notin Resetting'
        BY <3>1, <3>3 DEF Dropping, Resetting
      <4>5. Used \in Int /\ Potential \in Int /\ Used' \in Int /\ Potential' \in Int
        BY <3>1, LimitInts
      <4>6. Used' = Used + 1 /\ Potential' = Potential
        <5>1. Cardinality(Existing') = Cardinality(Existing) + 0
          BY <3>1, <4>2
        <5>2. Cardinality(NotWaiting') = Cardinality(NotWaiting) + (-1)
          BY <4>1, <4>2
        <5>3. Used' - Used = 1 /\ Potential' - Potential = 0
          BY <3>1, <4>3, <5>1, <5>2, WeightChange
        <5>4. \A a, b \in Int : (a - b = 1 => a = b + 1) /\ (a - b = 0 => a = b)
          OBVIOUS
        <5> QED
          BY <4>5, <5>3, <5>4, Zenon
      <4>7. Cardinality(NotWaiting') < NumFamilies
        BY <4>1, <4>2
      <4> QED
        BY <3>1, <4>4, <4>6, <4>7, LimitedKept
    <3> QED
      BY <3>2, <3>3
  <2>8. CASE Construct(t)
    <3>1. OthersKept(t) /\ pc[t] = "construct" /\ pc'[t] \in {"idle", "start", "cancel", "close"}
      BY <2>8, ReturnOwnership DEF Construct
    <3>2. max_count' = max_count /\ is_waiting' = is_waiting
      BY <2>8 DEF Construct, srvVars
    <3>3. Cardinality(Existing') = Cardinality(Existing) + 1
      <4>1. PICK c \in Conns :
               /\ conn[c] = "none"
               /\ conn' = [d \in Conns |->
                            IF d = c
                            THEN IF acceptor[tfam[t]] = "listening"
                                 THEN "accepting" ELSE "aborted"
                            ELSE IF tctx[t] = "accept" /\ d = tconn[t] THEN "live"
                            ELSE conn[d]]
        BY <2>8 DEF Construct
      <4>2. Existing' = Existing \cup {c} /\ c \notin Existing
        BY <4>1 DEF Existing, HandlerOwnsConn
      <4> QED
        BY <4>2, CountedSets, FS_AddElement
    <3>4. Cardinality(NotWaiting') = Cardinality(NotWaiting) + 0
      BY <3>2, LimitTypes DEF NotWaiting, LimitNumbers
    <3>5. /\ Weight(pc[t], tctx[t]) = 1 /\ Weight(pc'[t], tctx'[t]) = 0
          /\ ResetWeight(pc[t]) = 0 /\ ResetWeight(pc'[t]) = 0 /\ t \notin Dropping'
      BY <3>1 DEF Weight, ResetWeight, Dropping
    <3> QED
      BY <3>1, <3>2, <3>3, <3>4, <3>5, WeightStep
  <2>9. CASE ConstructThrows(t)
    <3>1. /\ OthersKept(t) /\ pc[t] = "construct"
          /\ \/ pc'[t] = "idle" \/ pc'[t] = "release"
             \/ pc'[t] = "reset" /\ tctx'[t] = "disconnect"
      BY <2>9, ReturnOwnership DEF ConstructThrows, Goto, OthersKept, Callers
    <3>2. max_count' = max_count /\ is_waiting' = is_waiting /\ Existing' = Existing
      BY <2>9 DEF ConstructThrows, Existing
    <3>3. /\ Cardinality(Existing') = Cardinality(Existing) + 0
          /\ Cardinality(NotWaiting') = Cardinality(NotWaiting) + 0
      BY <3>2, LimitTypes DEF NotWaiting, LimitNumbers
    <3>4. /\ Weight(pc[t], tctx[t]) = 1 /\ Weight(pc'[t], tctx'[t]) <= 0
          /\ ResetWeight(pc[t]) = 0
          /\ Weight(pc'[t], tctx'[t]) + ResetWeight(pc'[t]) <= 1
          /\ t \in Dropping' => Weight(pc'[t], tctx'[t]) + ResetWeight(pc'[t]) < 1
      BY <3>1 DEF Weight, ResetWeight, Dropping
    <3>5. Weight(pc'[t], tctx'[t]) \in Int /\ ResetWeight(pc'[t]) \in Int
      BY DEF Weight, ResetWeight
    <3> QED
      BY <3>1, <3>2, <3>3, <3>4, <3>5, WeightStep
  <2>10. CASE Reset(t)
    <3> DEFINE f == tfam[t]
    <3>1. /\ OthersKept(t) /\ pc[t] = "reset" /\ max_count' = max_count
          /\ is_waiting' = [is_waiting EXCEPT ![f] = FALSE] /\ Existing' = Existing
          /\ \/ tctx[t] = "accept" /\ tctx'[t] = "accept" /\ pc'[t] = "release"
             \/ tctx[t] # "accept" /\ pc'[t] = "idle"
      BY <2>10, ReturnOwnership DEF Reset, Goto, OthersKept, connVars, Existing
    <3>2. f \in Fams
      OBVIOUS
    <3>3. /\ Cardinality(NotWaiting') = Cardinality(NotWaiting) + 1
                - (IF is_waiting[f] THEN 0 ELSE 1)
          /\ f \in NotWaiting'
      BY <3>1, <3>2, WaitingChange
    <3>4. PICK w \in {0, 1} : Cardinality(NotWaiting') = Cardinality(NotWaiting) + w
      BY <3>3, LimitTypes DEF LimitNumbers
    <3>5. Cardinality(Existing') = Cardinality(Existing) + 0
      BY <3>1, LimitTypes DEF LimitNumbers
    <3>6. /\ Weight(pc[t], tctx[t]) = Weight(pc'[t], tctx'[t])
          /\ ResetWeight(pc[t]) = 1 /\ ResetWeight(pc'[t]) = 0
          /\ Weight(pc[t], tctx[t]) \in Int
      BY <3>1 DEF Weight, ResetWeight
    <3>7. w \in Int /\ w <= 1 /\ NotWaiting' # {}
      BY <3>3
    <3> QED
      BY <3>1, <3>4, <3>5, <3>6, <3>7, WeightStep
  <2>11. CASE Release(t)
    <3>1. tconn[t] \in Conns /\ tconn[t] \in Existing /\ t \notin Reserving
      BY <2>11 DEF Release, HandlerOwnsConn, Existing, Reserving
    <3>2. OthersKept(t)
      BY <2>11 DEF Release, Decl, BecomeIdle, Goto, OthersKept
    <3> QED
      BY <2>11, <3>1, <3>2, DeclLimited DEF Release
  <2>12. CASE DeclWait(t)
    <3> DEFINE f == tfam[t]
    <3>1. /\ OthersKept(t) /\ pc[t] = "decl_wait" /\ max_count' = max_count
          /\ is_waiting' = [is_waiting EXCEPT ![f] = FALSE] /\ Existing' = Existing
          /\ pc'[t] \in {"idle", "incr"}
      BY <2>12, ReturnOwnership DEF DeclWait, Goto, OthersKept, connVars, Existing
    <3>2. f \in Fams
      OBVIOUS
    <3>3. Cardinality(NotWaiting') = Cardinality(NotWaiting) + 1
                - (IF is_waiting[f] THEN 0 ELSE 1)
      BY <3>1, <3>2, WaitingChange
    <3>4. PICK w \in {0, 1} : Cardinality(NotWaiting') = Cardinality(NotWaiting) + w
      BY <3>3, LimitTypes DEF LimitNumbers
    <3>5. Cardinality(Existing') = Cardinality(Existing) + 0
      BY <3>1, LimitTypes DEF LimitNumbers
    <3>6. /\ Weight(pc[t], tctx[t]) = 0 /\ Weight(pc'[t], tctx'[t]) = 0
          /\ ResetWeight(pc[t]) = 1 /\ ResetWeight(pc'[t]) = 0 /\ t \notin Dropping'
      BY <3>1 DEF Weight, ResetWeight, Dropping
    <3> QED
      BY <3>1, <3>4, <3>5, <3>6, WeightStep
  <2> QED
    BY <1>6, <2>1, <2>2, <2>3, <2>5, <2>6, <2>7, <2>8, <2>9, <2>10, <2>11, <2>12
       DEF ThreadStep
<1>7. ASSUME NEW t \in Threads, NEW c \in Conns, OnAccept(t, c) PROVE Limited'
  <2>1. Existing' = Existing
    BY <1>0, <1>7 DEF OnAccept, Existing, BaseTypes
  <2>2. /\ OthersKept(t) /\ pc[t] = "idle" /\ pc'[t] \in {"reset", "incr", "release"}
        /\ tctx'[t] = "accept"
    BY <1>0, <1>7 DEF OnAccept, Goto, OthersKept, BaseTypes
  <2>3. max_count' = max_count /\ is_waiting' = is_waiting
    BY <1>7 DEF OnAccept
  <2>4. /\ Cardinality(Existing') = Cardinality(Existing) + 0
        /\ Cardinality(NotWaiting') = Cardinality(NotWaiting) + 0
    BY <2>1, <2>3, LimitTypes DEF NotWaiting, LimitNumbers
  <2>5. /\ Weight(pc[t], tctx[t]) = 0 /\ ResetWeight(pc[t]) = 0
        /\ Weight(pc'[t], tctx'[t]) = (IF pc'[t] = "incr" THEN 0 ELSE -1)
        /\ ResetWeight(pc'[t]) = (IF pc'[t] = "reset" THEN 1 ELSE 0)
        /\ t \in Dropping' => pc'[t] # "incr"
        /\ pc'[t] = "reset" => t \in Resetting'
    BY <2>2 DEF Weight, ResetWeight, Dropping, Resetting
  <2>6. \/ t \notin Dropping' \/ Resetting' # {}
        \/ Weight(pc'[t], tctx'[t]) + ResetWeight(pc'[t]) < 0
    BY <2>2, <2>5
  <2> QED
    BY <1>0, <2>2, <2>3, <2>4, <2>5, <2>6, WeightStep
<1>8. ASSUME NEW t \in Threads, NEW c \in Conns, Disconnect(t, c) PROVE Limited'
  <2>1. /\ c \in Existing /\ t \notin Reserving /\ pc[t] \in Plain
    BY <1>8 DEF Disconnect, Existing, Reserving, Plain, PCs
  <2>2. OthersKept(t)
    BY <1>0, <1>8 DEF Disconnect, Decl, BecomeIdle, Goto, OthersKept, BaseTypes
  <2> QED
    BY <1>0, <1>8, <2>1, <2>2, DeclLimited DEF Disconnect
<1>9. CASE UNCHANGED vars
  BY <1>0, <1>9, StillStep DEF vars, srvVars, connVars, thrVars, Existing
<1> QED
  BY <1>1, <1>2, <1>3, <1>4, <1>5, <1>6, <1>7, <1>8, <1>9 DEF Next

\* A server without Connectors is below its limit, which is at least one.
LEMMA InitLimited == Init => Limited
<1> SUFFICES ASSUME Init PROVE Limited
  OBVIOUS
<1>1. Existing = {} /\ Constructing = {} /\ Dropping = {}
  BY ServerAssumption DEF Init, Existing, Constructing, Dropping
<1>2. Used = 0
  BY <1>1, FS_EmptySet DEF Used
<1>3. max_count \in Nat /\ max_count >= 1
  BY ServerAssumption DEF Init, ServerAssumption
<1> QED
  BY <1>2, <1>3 DEF Limited

\* Limited bounds the Connectors: those that are used, and those that the threads
\* are about to drop.
LEMMA LimitedCapacity ==
  ASSUME BaseTypes, Limited
  PROVE  CapacityBound
<1> DEFINE E == Cardinality(Existing)
           D == Cardinality(Dropping)
           T == Cardinality(Threads)
           P == Cardinality(NotWaiting) + Cardinality(Resetting)
<1>1. /\ E \in Nat /\ D \in Nat /\ T \in Nat /\ T >= 1 /\ P \in Nat
      /\ D <= T /\ (Dropping # Threads => D < T)
      /\ Cardinality(Constructing) \in Nat /\ NumFamilies \in {1, 2}
  BY LimitTypes DEF LimitNumbers
<1>2. E <= Used + D /\ Used \in Int /\ Potential = Used + P
  BY <1>1, LimitTypes DEF Used, Potential, LimitNumbers
<1>3. max_count \in Nat
  BY DEF BaseTypes
<1>4. NotWaiting # {} \/ Resetting # {} => P >= 1
  BY LimitTypes, FS_EmptySet, FS_CardinalityType DEF LimitNumbers
<1> HIDE DEF E, D, T, P
<1>5. CASE Used <= max_count - 1
  BY <1>1, <1>2, <1>3, <1>5 DEF CapacityBound, E, T
<1>6. CASE Potential <= MostUsed /\ Dropping # Threads
  BY <1>1, <1>2, <1>3, <1>6 DEF CapacityBound, MostUsed, E, T
<1>7. CASE Potential <= MostUsed /\ (P >= 1 \/ Potential < MostUsed)
  BY <1>1, <1>2, <1>3, <1>7 DEF CapacityBound, MostUsed, E, T
<1> QED
  BY <1>4, <1>5, <1>6, <1>7 DEF Limited

\* As long as max_count() is not called again, no interleaving of any number of
\* threads lets incr() construct more Connectors than max_count_, one more for the
\* second family and two more for every other thread.
THEOREM ServerCapacity ==
  ASSUME "max_count" \notin Events
  PROVE  Spec => []CapacityBound
<1>1. IInv /\ Limited /\ [Next]_vars => (IInv /\ Limited)'
  BY NextIInv, LimitedStep
<1>2. IInv /\ Limited => CapacityBound
  BY LimitedCapacity DEF IInv
<1> QED
  BY <1>1, <1>2, InitIInv, InitLimited, PTL DEF Spec

-----------------------------------------------------------------------------
(***************************************************************************)
(* simple_server on one thread does not stall.                             *)
(***************************************************************************)
OneThread == \A s, t \in Threads : s = t

\* What the flags say while the thread is at l: is_waiting_ is set at the limit
\* only, unless decl() is about to reset it; and a server that runs and does not
\* wait has an accept pending, unless incr() is about to start it.
InIncr == {"incr", "incr_use", "incr_wait", "construct"}
AwakeAt(l) ==
  /\ l # "incr_undo"
  /\ l \in {"incr_use", "incr_wait"} => ~is_waiting[1]
  /\ l = "incr_wait" => use_count >= max_count
  /\ l \in {"reset", "release"} => ~is_running[1]
  /\ is_waiting[1] /\ l # "decl_wait" => use_count >= max_count
  /\ is_running[1] /\ ~is_waiting[1] /\ l \notin InIncr => AcceptPending(1)

Awake == \A t \in Threads : AwakeAt(pc[t])

\* The accepts that are outstanding or queued stay so.
PendingKept ==
  \A c \in Conns : conn[c] \in {"accepting", "accepted", "aborted"} =>
                     /\ conn'[c] \in {"accepting", "accepted", "aborted"}
                     /\ cfam'[c] = cfam[c]

\* Then a family that has one keeps it.
LEMMA StillPending ==
  ASSUME PendingKept, AcceptPending(1)
  PROVE  AcceptPending(1)'
BY DEF PendingKept, AcceptPending

\* With one family there is nothing to turn to: a call or a handler ends.
LEMMA ReturnsIdle ==
  ASSUME BaseTypes, HandlerOwnsConn, NumFamilies = 1, NEW t \in Threads
  PROVE  /\ BecomeIdle(t) => pc'[t] = "idle"
         /\ NextFamily(t) => pc'[t] = "idle"
         /\ Return(t) => pc'[t] = "idle" /\ PendingKept
<1>1. BecomeIdle(t) => pc'[t] = "idle"
  BY DEF BaseTypes, BecomeIdle, Goto
<1>2. tfam[t] = 1
  BY DEF BaseTypes, Fams
<1>3. NextFamily(t) => BecomeIdle(t)
  BY <1>2 DEF NextFamily
<1>4. tctx[t] \in {"start", "accept", "disconnect"}
  BY DEF BaseTypes, Callers
<1>5. ASSUME Return(t)
      PROVE  pc'[t] = "idle" /\ PendingKept
  <2>1. CASE tctx[t] = "start"
    BY <1>1, <1>3, <1>5, <2>1 DEF Return, connVars, PendingKept
  <2>2. CASE tctx[t] = "disconnect"
    BY <1>1, <1>5, <2>2 DEF Return, connVars, PendingKept
  <2>3. CASE tctx[t] = "accept"
    <3>1. tconn[t] \in Conns /\ conn[tconn[t]] = "handled"
      BY <2>3 DEF HandlerOwnsConn
    <3>2. /\ conn' = [conn EXCEPT ![tconn[t]] = "live"] /\ cfam' = cfam
          /\ BecomeIdle(t)
      BY <1>5, <2>3 DEF Return
    <3>3. PendingKept
      BY <3>1, <3>2 DEF BaseTypes, PendingKept
    <3> QED
      BY <1>1, <3>2, <3>3
  <2> QED
    BY <1>4, <2>1, <2>2, <2>3
<1> QED
  BY <1>1, <1>3, <1>5

\* decl() resets is_waiting_ unless the limit is still reached.
LEMMA DeclAwake ==
  ASSUME BaseTypes, NEW t \in Threads, AwakeAt(pc[t]),
         pc[t] = "idle" \/ ~is_running[1],
         pc[t] \in {"idle", "release"},
         NEW c \in Conns, conn[c] \in {"live", "handled"}, Decl(t, c)
  PROVE  AwakeAt(pc[t])'
<1>1. PendingKept
  BY DEF Decl, BaseTypes, PendingKept
<1>2. is_running' = is_running /\ is_waiting' = is_waiting /\ max_count' = max_count
  BY DEF Decl
<1>3. is_running[1] /\ ~is_waiting[1] => AcceptPending(1)'
  BY <1>1, StillPending DEF AwakeAt, InIncr
<1>4. use_count \in Int /\ max_count \in Nat
  BY DEF BaseTypes
<1>5. CASE ~stopped /\ use_count - 1 < max_count
  <2>1. pc'[t] = "decl_wait"
    BY <1>5 DEF Decl, Goto, BaseTypes
  <2> QED
    BY <1>2, <1>3, <2>1 DEF AwakeAt, InIncr
<1>6. CASE ~(~stopped /\ use_count - 1 < max_count)
  <2>1. pc'[t] = "idle"
    BY <1>6 DEF Decl, BecomeIdle, Goto, BaseTypes
  <2>2. is_waiting[1] => use_count' >= max_count
    BY <1>4, <1>6 DEF Decl, AwakeAt
  <2> QED
    BY <1>2, <1>3, <2>1, <2>2 DEF AwakeAt, InIncr
<1> QED
  BY <1>5, <1>6

\* Steps that are not the thread's own: they leave the flags and the count alone.
LEMMA OutsideAwake ==
  ASSUME BaseTypes, Awake, "max_count" \notin Events, pc' = pc,
         \/ \E f \in Fams : Listen(f)
         \/ \E n \in Counts : SetMaxCount(n)
         \/ \E c \in Conns : ClientConnects(c) \/ AcceptError(c)
         \/ StopOrReset
         \/ UNCHANGED vars
  PROVE  Awake'
<1>1. PendingKept
  BY DEF BaseTypes, PendingKept, Listen, SetMaxCount, ClientConnects, AcceptError,
         StopOrReset, vars, connVars
<1>2. /\ is_running' = is_running /\ is_waiting' = is_waiting
      /\ use_count' = use_count /\ max_count' = max_count
  BY DEF Listen, SetMaxCount, ClientConnects, AcceptError, StopOrReset, vars, srvVars
<1>3. AcceptPending(1) => AcceptPending(1)'
  BY <1>1, StillPending
<1> QED
  BY <1>2, <1>3 DEF Awake, AwakeAt

\* The steps of a call or a handler.
LEMMA ThreadAwake ==
  ASSUME BaseTypes, HandlerOwnsConn, NumFamilies = 1, "throw" \notin Events,
         NEW t \in Threads, AwakeAt(pc[t]), ThreadStep(t)
  PROVE  AwakeAt(pc[t])'
<1>1. /\ 1 \in Fams /\ tfam[t] = 1 /\ pc[t] \in PCs
      /\ use_count \in Int /\ max_count \in Nat
      /\ is_running[1] \in BOOLEAN /\ is_waiting[1] \in BOOLEAN
  BY DEF BaseTypes, Fams
<1>2. PendingKept => (AcceptPending(1) => AcceptPending(1)')
  BY StillPending
<1>3. CASE StartFamily(t)
  <2>1. /\ PendingKept /\ pc[t] = "start" /\ is_waiting' = is_waiting
        /\ use_count' = use_count /\ max_count' = max_count
    BY <1>3 DEF StartFamily, PendingKept, connVars, srvVars
  <2>2. CASE acceptor[1] # "closed" /\ ~is_running[1]
    <3>1. pc'[t] = "incr"
      BY <1>1, <1>3, <2>2 DEF StartFamily, Goto, BaseTypes
    <3> QED
      BY <2>1, <3>1 DEF AwakeAt, InIncr
  <2>3. CASE ~(acceptor[1] # "closed" /\ ~is_running[1])
    <3>1. pc'[t] = "idle" /\ is_running' = is_running
      BY <1>1, <1>3, <2>3, ReturnsIdle DEF StartFamily, srvVars
    <3> QED
      BY <1>2, <2>1, <3>1 DEF AwakeAt, InIncr
  <2> QED
    BY <2>2, <2>3
<1>4. CASE ClearRunning(t)
  <2>1. /\ is_running'[1] = FALSE /\ is_waiting' = is_waiting
        /\ use_count' = use_count /\ max_count' = max_count
        /\ pc'[t] \in {"cancel_acceptor", "close_acceptor", "rollback_acceptor"}
    BY <1>1, <1>4 DEF ClearRunning, Goto, BaseTypes
  <2>2. is_waiting[1] => use_count >= max_count
    BY <1>4 DEF ClearRunning, AwakeAt
  <2> QED
    BY <2>1, <2>2 DEF AwakeAt
<1>5. CASE StopAcceptor(t)
  <2>1. PendingKept
    BY <1>5 DEF StopAcceptor, Aborted, PendingKept, BaseTypes
  <2>2. pc'[t] = "idle"
    BY <1>5, ReturnsIdle DEF StopAcceptor
  <2>3. /\ pc[t] \notin InIncr \cup {"decl_wait"}
        /\ is_running' = is_running /\ is_waiting' = is_waiting
        /\ use_count' = use_count /\ max_count' = max_count
    BY <1>5 DEF StopAcceptor, InIncr
  <2> QED
    BY <1>2, <2>1, <2>2, <2>3 DEF AwakeAt, InIncr
<1>6. CASE Incr(t)
  <2>1. /\ is_running' = is_running /\ is_waiting' = is_waiting /\ pc[t] = "incr"
        /\ use_count' = use_count /\ max_count' = max_count
    BY <1>6 DEF Incr, srvVars
  <2>2. CASE is_waiting[1]
    <3>1. pc'[t] = "idle"
      BY <1>1, <1>6, <2>2, ReturnsIdle DEF Incr
    <3> QED
      BY <2>1, <2>2, <3>1 DEF AwakeAt
  <2>3. CASE ~is_waiting[1]
    <3>1. pc'[t] = "incr_use"
      BY <1>1, <1>6, <2>3 DEF Incr, Goto, BaseTypes
    <3> QED
      BY <2>1, <2>3, <3>1 DEF AwakeAt, InIncr
  <2> QED
    BY <2>2, <2>3
<1>7. CASE IncrUse(t)
  <2>1. /\ is_waiting' = is_waiting /\ ~is_waiting[1]
        /\ use_count' = use_count + 1 /\ max_count' = max_count
        /\ pc'[t] = IF use_count + 1 >= max_count THEN "incr_wait" ELSE "construct"
    BY <1>7 DEF IncrUse, AwakeAt, Goto, BaseTypes
  <2> QED
    BY <1>1, <2>1 DEF AwakeAt, InIncr
<1>8. CASE IncrWait(t)
  <2>1. /\ is_waiting'[1] = TRUE /\ ~is_waiting[1] /\ use_count >= max_count
        /\ use_count' = use_count /\ max_count' = max_count
    BY <1>1, <1>8 DEF IncrWait, AwakeAt, BaseTypes
  <2>2. pc'[t] = "construct"
    BY <1>1, <1>8, <2>1 DEF IncrWait, Goto, BaseTypes
  <2> QED
    BY <2>1, <2>2 DEF AwakeAt, InIncr
<1>9. CASE IncrUndo(t)
  BY <1>9 DEF IncrUndo, AwakeAt
<1>10. CASE Construct(t)
  <2>1. PICK c \in Conns :
           /\ conn[c] = "none"
           /\ cfam' = [cfam EXCEPT ![c] = tfam[t]]
           /\ LET st == IF acceptor[tfam[t]] = "listening" THEN "accepting" ELSE "aborted"
              IN  conn' = [d \in Conns |->
                             IF d = c THEN st
                             ELSE IF tctx[t] = "accept" /\ d = tconn[t] THEN "live"
                             ELSE conn[d]]
    BY <1>10 DEF Construct
  <2>2. cfam'[c] = 1 /\ conn'[c] \in {"accepting", "aborted"}
    BY <1>1, <2>1 DEF BaseTypes
  <2>3. AcceptPending(1)'
    BY <2>2 DEF AcceptPending
  <2>4. pc'[t] = "idle" /\ pc[t] = "construct"
    BY <1>10, ReturnsIdle DEF Construct
  <2>5. /\ is_running' = is_running /\ is_waiting' = is_waiting
        /\ use_count' = use_count /\ max_count' = max_count
    BY <1>10 DEF Construct, srvVars
  <2> QED
    BY <2>3, <2>4, <2>5 DEF AwakeAt
<1>11. CASE ConstructThrows(t)
  BY <1>11 DEF ConstructThrows
<1>12. CASE Reset(t)
  <2>1. /\ is_running' = is_running /\ ~is_running[1] /\ is_waiting'[1] = FALSE
    BY <1>1, <1>12 DEF Reset, AwakeAt, BaseTypes
  <2>2. pc'[t] \in {"idle", "release"}
    BY <1>12, ReturnsIdle DEF Reset, Goto, BaseTypes
  <2> QED
    BY <2>1, <2>2 DEF AwakeAt
<1>13. CASE Release(t)
  <2>1. tconn[t] \in Conns /\ conn[tconn[t]] = "handled"
    BY <1>13 DEF Release, HandlerOwnsConn
  <2>2. pc[t] = "release" /\ ~is_running[1] /\ Decl(t, tconn[t])
    BY <1>13 DEF Release, AwakeAt
  <2> QED
    BY <2>1, <2>2, DeclAwake
<1>14. CASE DeclWait(t)
  <2>1. PendingKept
    BY <1>14 DEF DeclWait, connVars, PendingKept
  <2>2. /\ is_running' = is_running /\ is_waiting'[1] = FALSE /\ pc[t] = "decl_wait"
    BY <1>1, <1>14 DEF DeclWait, BaseTypes
  <2>3. CASE is_waiting[1]
    <3>1. pc'[t] = "incr"
      BY <1>1, <1>14, <2>3 DEF DeclWait, Goto, BaseTypes
    <3> QED
      BY <2>2, <3>1 DEF AwakeAt, InIncr
  <2>4. CASE ~is_waiting[1]
    <3>1. pc'[t] = "idle"
      BY <1>1, <1>14, <2>4, ReturnsIdle DEF DeclWait
    <3> QED
      BY <1>2, <2>1, <2>2, <2>4, <3>1 DEF AwakeAt, InIncr
  <2> QED
    BY <2>3, <2>4
<1> QED
  BY <1>3, <1>4, <1>5, <1>6, <1>7, <1>8, <1>9, <1>10, <1>11, <1>12, <1>13, <1>14
     DEF ThreadStep

\* An idle thread takes a call or a handler up.
LEMMA EnterAwake ==
  ASSUME BaseTypes, NumFamilies = 1, NEW t \in Threads, AwakeAt(pc[t]),
         \/ Start(t) \/ Cancel(t) \/ Close(t)
         \/ \E c \in Conns : OnAccept(t, c) \/ Disconnect(t, c)
  PROVE  AwakeAt(pc[t])'
<1>1. 1 \in Fams /\ is_running[1] \in BOOLEAN /\ is_waiting[1] \in BOOLEAN
  BY DEF BaseTypes, Fams
<1>2. CASE Start(t) \/ Cancel(t) \/ Close(t)
  <2>1. PendingKept
    BY <1>2 DEF Start, Cancel, Close, connVars, PendingKept
  <2>2. pc'[t] \in {"start", "cancel", "close"} /\ pc[t] = "idle"
    BY <1>2 DEF Start, Cancel, Close, Goto, BaseTypes
  <2>3. /\ is_running' = is_running /\ is_waiting' = is_waiting
        /\ use_count' = use_count /\ max_count' = max_count
    BY <1>2 DEF Start, Cancel, Close, srvVars
  <2> QED
    BY <2>1, <2>2, <2>3, StillPending DEF AwakeAt, InIncr
<1>3. ASSUME NEW c \in Conns, OnAccept(t, c)
      PROVE  AwakeAt(pc[t])'
  <2>1. cfam[c] = 1 /\ pc[t] = "idle" /\ conn[c] \in {"accepted", "aborted"}
    BY <1>3 DEF OnAccept, BaseTypes, Fams
  <2>2. /\ is_waiting' = is_waiting /\ use_count' = use_count /\ max_count' = max_count
        /\ is_running'[1] = (is_running[1] /\ conn[c] = "accepted")
    BY <1>1, <1>3, <2>1 DEF OnAccept, BaseTypes
  <2>3. pc'[t] = CASE conn[c] = "aborted"  -> "reset"
                   [] is_running'[1]       -> "incr"
                   [] OTHER                -> "release"
    BY <1>3, <2>1 DEF OnAccept, Goto, BaseTypes
  <2>4. \/ pc'[t] = "incr"
        \/ pc'[t] \in {"reset", "release"} /\ ~is_running'[1]
    <3>1. CASE conn[c] = "aborted"
      BY <2>2, <2>3, <3>1
    <3>2. CASE conn[c] # "aborted" /\ is_running'[1]
      BY <2>3, <3>2
    <3>3. CASE conn[c] # "aborted" /\ ~is_running'[1]
      BY <2>3, <3>3
    <3> QED
      BY <3>1, <3>2, <3>3
  <2> QED
    BY <2>1, <2>2, <2>4 DEF AwakeAt, InIncr
<1>4. ASSUME NEW c \in Conns, Disconnect(t, c)
      PROVE  AwakeAt(pc[t])'
  BY <1>4, DeclAwake DEF Disconnect
<1> QED
  BY <1>2, <1>3, <1>4

\* On one thread every step leaves the server awake.
LEMMA AwakeStep ==
  ASSUME IInv, Awake, OneThread, NumFamilies = 1,
         "throw" \notin Events, "max_count" \notin Events, [Next]_vars
  PROVE  Awake'
<1>1. BaseTypes /\ HandlerOwnsConn
  BY DEF IInv
<1>2. ASSUME NEW t \in Threads,
             \/ Start(t) \/ Cancel(t) \/ Close(t) \/ ThreadStep(t)
             \/ \E c \in Conns : OnAccept(t, c) \/ Disconnect(t, c)
      PROVE  Awake'
  <2>1. AwakeAt(pc[t])'
    BY <1>1, <1>2, EnterAwake, ThreadAwake DEF Awake
  <2>2. \A s \in Threads : s = t
    BY DEF OneThread
  <2> QED
    BY <2>1, <2>2 DEF Awake
<1>3. ASSUME \/ \E f \in Fams : Listen(f)
             \/ \E n \in Counts : SetMaxCount(n)
             \/ \E c \in Conns : ClientConnects(c) \/ AcceptError(c)
             \/ StopOrReset
             \/ UNCHANGED vars
      PROVE  Awake'
  <2>1. pc' = pc
    BY <1>3 DEF Listen, SetMaxCount, ClientConnects, AcceptError, StopOrReset, vars, thrVars
  <2> QED
    BY <1>1, <1>3, <2>1, OutsideAwake
<1> QED
  BY <1>2, <1>3 DEF Next

\* A simple_server whose io_service runs on one thread has an accept outstanding
\* whenever it runs below its limit and no handler runs, for every limit and any
\* number of connections, however accepts fail and cancel(), close(), listen() and
\* start() follow each other; unless a Connector's constructor throws or
\* max_count() raises the limit meanwhile (simple_server_base.hpp:157-211).
THEOREM ServerNotStalled ==
  ASSUME OneThread, NumFamilies = 1, "throw" \notin Events, "max_count" \notin Events
  PROVE  Spec => []NotStalled
<1>1. ASSUME Init
      PROVE  Awake
  <2>1. 1 \in Fams
    BY DEF Fams
  <2>2. ~is_running[1] /\ ~is_waiting[1] /\ \A t \in Threads : pc[t] = "idle"
    BY <1>1, <2>1 DEF Init
  <2> QED
    BY <2>2 DEF Awake, AwakeAt
<1>2. IInv /\ Awake /\ [Next]_vars => (IInv /\ Awake)'
  BY NextIInv, AwakeStep
<1>3. ASSUME IInv, Awake
      PROVE  NotStalled
  <2>1. ASSUME Quiescent, NEW f \in Fams, is_running[f], use_count < max_count
        PROVE  AcceptPending(f)
    <3>1. PICK t \in Threads : TRUE
      BY ServerAssumption DEF ServerAssumption
    <3>2. f = 1 /\ pc[t] = "idle"
      BY <2>1, <3>1 DEF Fams, Quiescent
    <3>3. use_count \in Int /\ max_count \in Nat /\ is_waiting[1] \in BOOLEAN
      BY <1>3, <3>2 DEF IInv, BaseTypes
    <3>4. AwakeAt("idle")
      BY <1>3, <3>2 DEF Awake
    <3> QED
      BY <2>1, <3>2, <3>3, <3>4 DEF AwakeAt, InIncr
  <2> QED
    BY <2>1 DEF NotStalled
<1> QED
  BY <1>1, <1>2, <1>3, InitIInv, PTL DEF Spec
=============================================================================
