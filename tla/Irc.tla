-------------------------------- MODULE Irc --------------------------------
(***************************************************************************)
(* irc::client (asio/irc/client.hpp) on one io_service thread, with the    *)
(* application calling join() and say() from its callbacks.  A line of the *)
(* server is what dispatch() makes of it: "PING", "001" (welcome), "353"   *)
(* and "JOIN" (on_join), "PRIVMSG", the same with arguments that do not    *)
(* parse ("bad"), or anything else ("other").                              *)
(***************************************************************************)
EXTENDS Integers, Sequences

CONSTANT MaxLines       \* bound on the lines the server sends

ASSUME IrcAssumption == MaxLines \in Nat

VARIABLES
    stage,      \* "idle", "resolving", "connecting", "on" or "stopped"
    withPass,   \* whether connect() was given a password
    reading,    \* whether an async_read_until() is outstanding
    inbox,      \* lines received and not dispatched: the socket's and recvbuf_
    arrived,    \* the lines the server has sent
    wire        \* the messages the client has written, in order

ircVars == <<stage, withPass, reading, inbox, arrived, wire>>

ServerLines == {"PING", "001", "353", "JOIN", "PRIVMSG", "bad", "other"}

IrcInit == /\ stage = "idle" /\ withPass \in BOOLEAN /\ reading = FALSE
           /\ inbox = <<>> /\ arrived = <<>> /\ wire = <<>>

ConnectIrc ==
    /\ stage = "idle" /\ stage' = "resolving"
    /\ UNCHANGED <<withPass, reading, inbox, arrived, wire>>

\* on_resolve(); after an error the client does nothing any more.
OnResolveIrc ==
    /\ stage = "resolving" /\ stage' \in {"connecting", "stopped"}
    /\ UNCHANGED <<withPass, reading, inbox, arrived, wire>>

\* on_connect() reads before it writes, but its handler is done before dispatch()
\* is called.  write() throws when it fails: the registration is not sent.
OnConnectIrc ==
    /\ stage = "connecting"
    /\ \/ stage' = "stopped" /\ UNCHANGED <<reading, wire>>
       \/ /\ stage' = "on" /\ reading' = TRUE
          /\ wire' = wire \o (IF withPass THEN <<"PASS">> ELSE <<>>) \o <<"USER", "NICK">>
    /\ UNCHANGED <<withPass, inbox, arrived>>

ServerSends(l) ==
    /\ stage = "on" /\ Len(arrived) < MaxLines
    /\ inbox' = Append(inbox, l) /\ arrived' = Append(arrived, l)
    /\ UNCHANGED <<stage, withPass, reading, wire>>

\* What dispatch() writes, whether it calls on_welcome(), on_join() or
\* on_privmsg(), and what the application may write from there (send_msg() of
\* join() or say()).
Pong(l) == IF l = "PING" THEN <<"PONG">> ELSE <<>>
Calls(l) == l \in {"001", "353", "JOIN", "PRIVMSG"}
SendMsg(l) == {<<>>} \cup (IF Calls(l) THEN {<<"JOIN">>, <<"PRIVMSG">>} ELSE {})

\* Mutant: the answer to a PING is all dispatch() does.
MutReadOn == inbox' = Tail(inbox) /\ reading' = (Head(inbox) # "PING")

\* consume() and the next async_read_until().
ReadOn == inbox' = Tail(inbox) /\ reading' = TRUE

\* dispatch(): a write that fails throws out of the handler, before the line is
\* consumed and the next one is asked for.
Dispatch ==
    LET l == Head(inbox) IN
    /\ stage = "on" /\ reading /\ inbox # <<>>
    /\ \E m \in SendMsg(l) :
          \/ /\ wire' = wire \o Pong(l) \o m
             /\ ReadOn
             /\ UNCHANGED stage
          \/ /\ Pong(l) \o m # <<>> /\ stage' = "stopped" /\ reading' = FALSE
             /\ UNCHANGED <<wire, inbox>>
    /\ UNCHANGED <<withPass, arrived>>

\* The connection ends: dispatch() is called with an error and stops.
ReadFails ==
    /\ stage = "on" /\ reading
    /\ stage' = "stopped" /\ reading' = FALSE
    /\ UNCHANGED <<withPass, inbox, arrived, wire>>

IrcNext == \/ ConnectIrc \/ OnResolveIrc \/ OnConnectIrc \/ Dispatch \/ ReadFails
           \/ \E l \in ServerLines : ServerSends(l)

-----------------------------------------------------------------------------
(* Properties.                                                             *)

Count(x, s) == Len(SelectSeq(s, LAMBDA y : y = x))

\* While the connection lasts, every PING the server has sent is answered, and
\* with one PONG each, whatever other lines come in between and whatever the
\* application sends from its callbacks: the read loop never stops by itself
\* (irc/client.hpp:119-173).
PingsAnswered ==
    [](stage = "on" => <>(stage # "on" \/ Count("PONG", wire) = Count("PING", arrived)))
=============================================================================
