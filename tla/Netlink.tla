------------------------------ MODULE Netlink -------------------------------
(***************************************************************************)
(* netlink_listener with link_impl, ifaddr_impl and neighbor_impl          *)
(* (asio/netlink/): the categories of the derived class choose the         *)
(* multicast groups and, once more, the messages that are reported.        *)
(***************************************************************************)
EXTENDS Integers, Sequences, FiniteSets, SequencesExt

CONSTANTS NlCategories,  \* the sets of tags a derived class may choose
          MaxDatagrams,  \* bound on the datagrams of the kernel
          SocketBuffer   \* how many datagrams the socket holds

ASSUME NetlinkAssumption == MaxDatagrams \in Nat /\ SocketBuffer \in Nat \ {0}

VARIABLES
    category,   \* Derived::category
    nlSocket,   \* "closed", "open" (not bound) or "bound"
    receiving,  \* async_receive() is outstanding
    datagrams,  \* in the socket's buffer: sequences of messages
    overrun,    \* a datagram did not fit: the next receive fails
    sent,       \* the number of datagrams of the kernel
    handed,     \* the datagrams that dispatch() has been given
    callbacks   \* the calls of on_link() and its like, in order

netlinkVars == <<category, nlSocket, receiving, datagrams, overrun, sent, handed, callbacks>>

\* RTM_NEW... and RTM_DEL... messages, with what tells them apart here, and
\* NLMSG_DONE or NLMSG_ERROR.  A message that was cut off ends a datagram.
Msg(kind, new, family, stats) == [kind |-> kind, new |-> new, family |-> family, stats |-> stats]
LinkMsgs == {Msg("link", TRUE, "unspec", b) : b \in BOOLEAN} \cup
            {Msg("link", FALSE, "unspec", FALSE), Msg("link", TRUE, "bridge", FALSE)}
AddrMsgs == {Msg(k, b, f, FALSE) : k \in {"ifaddr", "neighbor"}, b \in BOOLEAN, f \in {"v4", "v6"}}
EndMsg == Msg("error", FALSE, "unspec", FALSE)
CutMsg == Msg("cut", FALSE, "unspec", FALSE)

\* find_group(): stats_tag has the group of link_tag, and the two tags of
\* neighbours share one group.
Group(m) == IF m.kind = "ifaddr" THEN <<m.kind, m.family>> ELSE <<m.kind>>
GroupOf(tag) == IF tag[1] = "ifaddr" THEN tag ELSE IF tag[1] = "neighbor" THEN <<"neighbor">> ELSE <<"link">>
Subscribed(m) == \E tag \in category : GroupOf(tag) = Group(m)

Received == {m \in LinkMsgs \cup AddrMsgs : Subscribed(m)}
Datagrams == {<<m>> : m \in Received} \cup {<<m, n>> : m \in Received, n \in Received \cup {EndMsg, CutMsg}}
             \cup {<<EndMsg, m>> : m \in Received}

NetlinkInit ==
    /\ category \in NlCategories
    /\ nlSocket = "closed" /\ receiving = FALSE
    /\ datagrams = <<>> /\ overrun = FALSE /\ sent = 0
    /\ handed = <<>> /\ callbacks = <<>>

\* start(): opens and binds unless the socket is open, whether or not bind()
\* has succeeded.  An unbound socket receives nothing.
NetlinkStart ==
    /\ ~receiving
    /\ \/ /\ nlSocket = "closed"
          /\ \/ nlSocket' = "open" /\ receiving' = FALSE
             \/ nlSocket' = "bound" /\ receiving' = TRUE
       \/ /\ nlSocket # "closed"
          /\ receiving' = TRUE
          /\ UNCHANGED nlSocket
    /\ UNCHANGED <<category, datagrams, overrun, sent, handed, callbacks>>

NetlinkClose ==
    /\ nlSocket # "closed"
    /\ nlSocket' = "closed" /\ receiving' = FALSE
    /\ datagrams' = <<>> /\ overrun' = FALSE
    /\ UNCHANGED <<category, sent, handed, callbacks>>

\* The kernel multicasts; a full socket drops the datagram and remembers it.
KernelMulticast(d) ==
    /\ nlSocket = "bound" /\ sent < MaxDatagrams
    /\ sent' = sent + 1
    /\ IF Len(datagrams) < SocketBuffer
       THEN datagrams' = Append(datagrams, d) /\ UNCHANGED overrun
       ELSE overrun' = TRUE /\ UNCHANGED datagrams
    /\ UNCHANGED <<category, nlSocket, receiving, handed, callbacks>>

\* dispatch_link_unspec(): on_link(), then on_stats() if there are any.
DispatchLink(m) ==
    IF m.kind = "link" /\ m.new /\ m.family = "unspec"
    THEN (IF <<"link">> \in category THEN <<<<"on_link", m>>>> ELSE <<>>)
         \o (IF <<"stats">> \in category /\ m.stats THEN <<<<"on_stats", m>>>> ELSE <<>>)
    ELSE <<>>

DispatchIfaddr(m) ==
    IF m.kind = "ifaddr" /\ m.new /\ <<"ifaddr", m.family>> \in category
    THEN <<<<"on_ifaddr", m>>>> ELSE <<>>

\* Mutant: the family is not looked at again.
MutDispatchNeighbor(m) ==
    IF m.kind = "neighbor" /\ m.new THEN <<<<"on_neighbor", m>>>> ELSE <<>>

DispatchNeighbor(m) ==
    IF m.kind = "neighbor" /\ m.new /\ <<"neighbor", m.family>> \in category
    THEN <<<<"on_neighbor", m>>>> ELSE <<>>

\* The loop of dispatch() ends at NLMSG_DONE, NLMSG_ERROR and a message that
\* is not whole.
Whole(d) == SelectInSeq(d, LAMBDA m : m \in {EndMsg, CutMsg})
Walked(d) == IF Whole(d) = 0 THEN d ELSE SubSeq(d, 1, Whole(d) - 1)

Dispatch ==
    LET d == Walked(Head(datagrams)) IN
    /\ receiving /\ datagrams # <<>> /\ ~overrun
    /\ datagrams' = Tail(datagrams)
    /\ handed' = Append(handed, Head(datagrams))
    /\ callbacks' = callbacks \o
          FlattenSeq([i \in DOMAIN d |->
              DispatchLink(d[i]) \o DispatchIfaddr(d[i]) \o DispatchNeighbor(d[i])])
    /\ UNCHANGED <<category, nlSocket, receiving, overrun, sent>>

\* dispatch() with an error, ENOBUFS after an overrun: nothing is received any
\* more until start() is called again.
DispatchError ==
    /\ receiving /\ overrun
    /\ receiving' = FALSE /\ overrun' = FALSE
    /\ UNCHANGED <<category, nlSocket, datagrams, sent, handed, callbacks>>

NetlinkNext ==
    \/ NetlinkStart \/ NetlinkClose \/ Dispatch \/ DispatchError
    \/ \E d \in Datagrams : KernelMulticast(d)

NetlinkSpec == NetlinkInit /\ [][NetlinkNext]_netlinkVars

-----------------------------------------------------------------------------
(* Properties.                                                             *)

Tag(c) == CASE c[1] = "on_link" -> <<"link">> [] c[1] = "on_stats" -> <<"stats">>
            [] c[1] = "on_ifaddr" -> <<"ifaddr", c[2].family>>
            [] c[1] = "on_neighbor" -> <<"neighbor", c[2].family>>

\* Places of handed in which message m stands before anything that ends the walk.
Arrived(m) == {x \in (DOMAIN handed) \X (1..2) :
                 LET d == handed[x[1]] IN
                 /\ x[2] \in DOMAIN d /\ d[x[2]] = m
                 /\ \A k \in 1..x[2] : d[k] \notin {EndMsg, CutMsg}}
Reported(c) == Cardinality({i \in DOMAIN callbacks : callbacks[i] = c})

\* A callback is made for the tags of the derived class only, although tags
\* share groups; and every new link, address or neighbour of such a tag that
\* stands in a datagram before its end is reported, once (link_impl.hpp:19-96,
\* ifaddr_impl.hpp:16-92, neighbor_impl.hpp:17-98, netlink_listener.hpp:107-130).
ReportedAsSubscribed ==
    /\ \A i \in DOMAIN callbacks : Tag(callbacks[i]) \in category
    /\ \A f \in {"on_link", "on_stats", "on_ifaddr", "on_neighbor"}, m \in Received :
          /\ m.new /\ m.family # "bridge" /\ Tag(<<f, m>>) \in category
          /\ m.kind = (CASE f \in {"on_link", "on_stats"} -> "link" [] f = "on_ifaddr" -> "ifaddr"
                         [] f = "on_neighbor" -> "neighbor")
          /\ f = "on_stats" => m.stats
          => Reported(<<f, m>>) = Cardinality(Arrived(m))
=============================================================================
