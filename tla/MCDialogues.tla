---------------------------- MODULE MCDialogues ----------------------------
(***************************************************************************)
(* The parts that talk to a peer by turns: the clients of SMTP and IRC,    *)
(* the proxy and the pinger, each by itself: "dialogue" is the one that    *)
(* takes place, the others stay in one initial state.  The pinger has two: *)
(* "ping", without the last ping, and "round", where seq_ comes round.     *)
(***************************************************************************)
EXTENDS SmtpClient, Irc, HttpProxy, Pinger

CONSTANT LastPing
VARIABLE dialogue

Chunk(n, data) == <<Size(n)>> \o data \o CRLF

\* A request without a body, with one of known length and with chunks; two that
\* are followed by a byte too many, and one that cannot be read.
BrowserSends ==
    {<<Header("none", 0)>>, <<Header("none", 0), <<"extra">>>>, <<Header("bad", 0)>>,
     <<Header("length", 2), Datum(1), Datum(2)>>,
     <<Header("length", 2), Datum(1), Datum(2), <<"extra">>>>,
     <<Header("chunked", 0)>> \o Chunk(1, <<Datum(1)>>) \o Chunk(0, <<>>)}

\* A response without a body, with one of known and of unknown length and with
\* two chunks, and one that cannot be read.
OriginSends ==
    {<<Header("none", 0)>>, <<Header("bad", 0)>>,
     <<Header("unknown", 0), Datum(3), Datum(4), Datum(5)>>,
     <<Header("length", 3), Datum(3), Datum(4), Datum(5)>>,
     <<Header("chunked", 0)>> \o Chunk(1, <<Datum(3)>>) \o Chunk(2, <<Datum(4), Datum(5)>>)
                             \o Chunk(0, <<>>)}

Init == /\ dialogue \in {"smtp", "irc", "proxy", "ping", "round"}
        /\ SmtpInit /\ IrcInit /\ ProxyInit /\ PingerInit
        /\ dialogue # "smtp" => flags = [starttls |-> TRUE, plaintext |-> TRUE, style |-> "throw"]
        /\ dialogue # "irc" => withPass = FALSE
        /\ dialogue # "proxy" => toSend = [browser |-> <<Header("none", 0)>>,
                                          origin |-> <<Header("none", 0)>>]

\* The pings in an order that ends with the last one.
InOrder == CHOOSE s \in [1..Cardinality(Pings) -> Pings] :
              /\ \A p \in Pings : \E i \in DOMAIN s : s[i] = p
              /\ s[Cardinality(Pings)] = LastPing

\* All pings are sent, in order and to hosts that resolve, over a socket that
\* stays open; the ones sent earlier expire earlier, and all of them at once.
SentInOrder ==
    /\ isOpen' => listening'
    /\ (\E p \in Pings : phase'[p] # "idle") => isOpen' /\ now' = MaxNow
    /\ \A p \in Pings : phase'[p] \in {"idle", "resolving", "sending"}
    /\ \A i, j \in DOMAIN InOrder :
          i < j /\ phase'[InOrder[j]] = "sending" => phase'[InOrder[i]] = "sending"
    /\ \A i \in DOMAIN InOrder : phase'[InOrder[i]] # "idle" => expire'[InOrder[i]] = i - 1

Next == /\ UNCHANGED dialogue
        /\ \/ dialogue = "smtp" /\ SmtpNext /\ UNCHANGED <<ircVars, proxyVars, pingerVars>>
           \/ dialogue = "irc" /\ IrcNext /\ UNCHANGED <<smtpVars, proxyVars, pingerVars>>
           \/ dialogue = "proxy" /\ ProxyNext /\ UNCHANGED <<smtpVars, ircVars, pingerVars>>
           \/ /\ dialogue \in {"ping", "round"} /\ PingerNext
              /\ IF dialogue = "ping" THEN phase'[LastPing] = "idle" ELSE SentInOrder
              /\ UNCHANGED <<smtpVars, ircVars, proxyVars>>

On(d, A) == dialogue = d /\ A
Pinging(A) == dialogue \in {"ping", "round"} /\ A

\* What the code's scheduling justifies.  A server that is asked answers;
\* io_service::run() calls the handler of an operation that has completed (that
\* of the proxy is called by ten threads); the clock and the timer of the pinger
\* go on, and the queued calls of its on_wait() are taken in the order they were
\* queued, so that none is passed over for ever.
Fairness ==
    /\ WF_smtpVars(On("smtp", ServerAnswers)) /\ WF_smtpVars(On("smtp", Receive))
    /\ WF_ircVars(On("irc", Dispatch))
    /\ WF_proxyVars(On("proxy", ~Released /\ Handler))
    /\ WF_pingerVars(Pinging(Tick)) /\ WF_pingerVars(Pinging(Fire))
    /\ \A t \in Threads : WF_pingerVars(Pinging(Step(t))) /\ SF_pingerVars(Pinging(OnWait(t)))

Spec == Init /\ [][Next]_<<dialogue, smtpVars, ircVars, proxyVars, pingerVars>> /\ Fairness
=============================================================================
