----------------------------- MODULE SmtpClient -----------------------------
(***************************************************************************)
(* smtp::client (asio/smtp/client.ipp) in its coroutine, and the server it *)
(* talks to.  A method sends a command and waits for a reply; ehlo(),      *)
(* login() and data() go on from there.  "style" is how errors reach the   *)
(* application: "throw", which ends the coroutine, or "code", where the    *)
(* application may go on after a refusal (a code of 400 or more) and gives *)
(* up when a method returns 0 with an error.                               *)
(***************************************************************************)
EXTENDS Integers, Sequences, FiniteSets

CONSTANTS MaxCalls,       \* bound on the calls of the application
          MaxReplyLines   \* bound on the lines of a reply

ASSUME SmtpAssumption == MaxCalls \in Nat /\ MaxReplyLines \in Nat \ {0}

VARIABLES
    flags,      \* client_flags, and the style of error handling
    link,       \* "down", "up", or "over" once it is closed or given up
    tls,        \* enable_tls_
    auth,       \* enable_auth_...: the mechanisms seen in any answer to EHLO
    awaiting,   \* where the method under way waits for a reply, or "idle"
    asked,      \* the commands the server has yet to answer
    lines,      \* lines not read yet, in recvbuf_ or on their way
    useTls,     \* use_starttls of ehlo()
    result,     \* what the last method returned: a code, "0", or "exception"
    matched,    \* whether that was the answer to the last command of the method
    calls,      \* how many methods have been called
    offered,    \* what the server has offered since the connection came up
    leaked,     \* how the password has been sent: pairs of tls and starttls offered
    strayed     \* a reply to another command than EHLO has had several lines

smtpVars == <<flags, link, tls, auth, awaiting, asked, lines, useTls, result, matched, calls,
              offered, leaked, strayed>>

Codes == {"ok", "challenge", "go", "refused", "garbled"}
\* PLAIN is LOGIN as well: login() answers both with auth_plain().
Features == {"PLAIN", "CRAM-MD5", "STARTTLS"}
Line(cmd, code, more, feature) == [cmd |-> cmd, code |-> code, more |-> more, feature |-> feature]

SmtpInit ==
    /\ flags \in [starttls : BOOLEAN, plaintext : BOOLEAN, style : {"throw", "code"}]
    /\ flags.starttls \/ flags.plaintext        \* client_flags is no bit set
    /\ link = "down" /\ tls = FALSE /\ auth = {}
    /\ awaiting = "idle" /\ asked = <<>> /\ lines = <<>> /\ useTls = FALSE
    /\ result = "ok" /\ matched = TRUE /\ calls = 0
    /\ offered = {} /\ leaked = {} /\ strayed = FALSE

-----------------------------------------------------------------------------
(* The server: it answers the commands in turn, each in one line or in     *)
(* several that say there is more; the lines of EHLO name its features.    *)

Answers(cmd) ==
    {"refused", "garbled"} \cup (IF cmd = "AUTH CRAM-MD5" THEN {"challenge"}
                                ELSE IF cmd = "DATA" THEN {"go", "ok"} ELSE {"ok"})

\* A reply in n lines, with the same code in each of them; a server that takes
\* EHLO names a feature, or none, in each.
Replies(cmd, n) ==
    {[i \in 1..n |-> Line(cmd, c, i < n, IF c = "ok" THEN f[i] ELSE "none")] :
        c \in IF n = 1 THEN Answers(cmd) ELSE Answers(cmd) \ {"garbled"},
        f \in [1..n -> IF cmd = "EHLO" THEN Features \cup {"none"} ELSE {"none"}]}

ServerAnswers ==
    /\ link = "up" /\ asked # <<>>
    /\ asked' = Tail(asked)
    /\ \E n \in 1..MaxReplyLines : \E a \in Replies(Head(asked), n) :
          /\ lines' = lines \o a
          /\ offered' = offered \cup {a[i].feature : i \in 1..n}
          /\ strayed' = (strayed \/ (Head(asked) # "EHLO" /\ n > 1))
    /\ UNCHANGED <<flags, link, tls, auth, awaiting, useTls, result, matched, calls, leaked>>

-----------------------------------------------------------------------------
(* The client.                                                             *)

\* send_message() and the reply the method waits for next.  (What an error of
\* async_write() does is in ConnectionLost.)
Ask(cmd, wait) == asked' = Append(asked, cmd) /\ awaiting' = wait

\* A method returns code c, or throws.  Without an error code of its own, an
\* error ends the coroutine and with it the client; an application that is given
\* 0 and an error gives up too.
Return(c, error) ==
    /\ awaiting' = "idle"
    /\ UNCHANGED asked
    /\ result' = IF error /\ flags.style = "throw" THEN "exception" ELSE c
    /\ link' = IF error /\ (flags.style = "throw" \/ c = "0") THEN "over" ELSE link

IsError(c) == c \in {"refused", "garbled"}
Value(c) == IF c = "garbled" THEN "0" ELSE c    \* parse_response_code()

\* connect(): the greeting is a reply nobody asked for.
ConnectSmtp ==
    /\ link = "down" /\ awaiting = "idle" /\ calls < MaxCalls
    /\ calls' = calls + 1
    /\ \/ /\ link' = "up"
          /\ Ask("greeting", "simple")
          /\ UNCHANGED result
       \/ Return("0", TRUE)
    /\ UNCHANGED <<flags, tls, auth, lines, useTls, matched, offered, leaked, strayed>>

Ready == link = "up" /\ awaiting = "idle" /\ calls < MaxCalls /\ calls' = calls + 1

\* helo(), mail(), rcpt(), data() and quit() up to their first reply.
Command ==
    /\ Ready
    /\ \E p \in {<<"HELO", "simple">>, <<"MAIL", "simple">>, <<"RCPT", "simple">>,
                 <<"DATA", "data">>, <<"QUIT", "quit">>} : Ask(p[1], p[2])
    /\ UNCHANGED <<flags, link, tls, auth, lines, useTls, result, matched, offered, leaked, strayed>>

Ehlo ==
    /\ Ready
    /\ Ask("EHLO", "ehlo")
    /\ useTls' = FALSE
    /\ UNCHANGED <<flags, link, tls, auth, lines, result, matched, offered, leaked, strayed>>

\* Mutant: the flag is not looked at.
MutMayPlain == "PLAIN" \in auth

\* A password in the clear is allowed, and the server takes one.
MayPlain == flags.plaintext /\ "PLAIN" \in auth

\* auth_plain().
AuthPlain ==
    /\ Ask("AUTH PLAIN", "simple")
    /\ leaked' = leaked \cup {[tls |-> tls, offered |-> "STARTTLS" \in offered]}

\* login(): CRAM-MD5 first; without a mechanism it returns 0 and no error.
Login ==
    /\ Ready
    /\ \/ /\ "CRAM-MD5" \in auth
          /\ Ask("AUTH CRAM-MD5", "cram1")
          /\ UNCHANGED <<leaked, result, link>>
       \/ /\ "CRAM-MD5" \notin auth /\ MayPlain
          /\ AuthPlain
          /\ UNCHANGED <<result, link>>
       \/ /\ "CRAM-MD5" \notin auth /\ ~MayPlain
          /\ Return("0", FALSE)
          /\ UNCHANGED leaked
    /\ UNCHANGED <<flags, tls, auth, lines, useTls, matched, offered, strayed>>

\* Mutant: the first line is taken for the whole answer.
MutReceiveEhlo(l) ==
    /\ auth' = auth \cup ({l.feature} \ {"STARTTLS", "none"})
    /\ Return(Value(l.code), IsError(l.code))
    /\ UNCHANGED <<tls, leaked, useTls>>

\* A line of the answer to EHLO: the mechanisms are added to those known.
\* STARTTLS is asked for when a line named it, whatever the code is, unless
\* the code has thrown.
ReceiveEhlo(l) ==
    LET thrown == IsError(l.code) /\ flags.style = "throw"
        known == l.code # "garbled" /\ ~thrown
    IN
    /\ auth' = IF known THEN auth \cup ({l.feature} \ {"STARTTLS", "none"}) ELSE auth
    /\ useTls' = (useTls \/ (known /\ l.feature = "STARTTLS" /\ ~tls /\ flags.starttls))
    /\ IF known /\ l.more
       THEN UNCHANGED <<awaiting, asked, link, result>>
       ELSE IF useTls' /\ ~thrown
            THEN Ask("STARTTLS", "starttls") /\ UNCHANGED <<link, result>>
            ELSE Return(Value(l.code), IsError(l.code))
    /\ UNCHANGED <<tls, leaked>>

\* start_tls(): the handshake follows any code but 0; it can succeed when the
\* server has agreed and nothing it sent before is still on its way (what has
\* come along with the line may be in recvbuf_).  It also clears the error of a
\* refusal.  EHLO is sent again after a code below 400.
ReceiveStartTls(l) ==
    /\ \/ /\ l.code = "garbled" \/ (l.code = "refused" /\ flags.style = "throw")
          /\ Return(Value(l.code), TRUE)
          /\ UNCHANGED <<tls, useTls>>
       \/ /\ l.code # "garbled" /\ (l.code = "refused" => flags.style = "code")
          /\ \E i \in DOMAIN lines : lines[i].cmd = "STARTTLS" /\ lines[i].code = "ok"
          /\ tls' = TRUE
          /\ IF l.code = "refused"
             THEN Return(l.code, FALSE) /\ UNCHANGED useTls
             ELSE Ask("EHLO", "ehlo") /\ useTls' = FALSE /\ UNCHANGED <<link, result>>
       \/ /\ l.code # "garbled" /\ (l.code = "refused" => flags.style = "code")
          /\ Return("0", TRUE)
          /\ UNCHANGED <<tls, useTls>>
    /\ UNCHANGED <<auth, leaked>>

\* auth_cram_md5(), and login() after it: when the server refuses, the password
\* is tried.
ReceiveCram(l) ==
    /\ IF l.code = "refused" /\ flags.style = "code" /\ MayPlain
       THEN AuthPlain /\ UNCHANGED <<link, result>>
       ELSE /\ IF awaiting = "cram1" /\ ~IsError(l.code)
               THEN Ask("RESPONSE", "cram2") /\ UNCHANGED <<link, result>>
               ELSE Return(Value(l.code), IsError(l.code))
            /\ UNCHANGED leaked
    /\ UNCHANGED <<tls, auth, useTls>>

\* Mutant: data() waits for the answer to the content before it sends it.
MutReceiveData(l) ==
    /\ IF l.code = "go" THEN awaiting' = "simple" /\ UNCHANGED <<asked, link, result>>
                        ELSE Return(Value(l.code), IsError(l.code))
    /\ UNCHANGED <<tls, auth, useTls, leaked>>

\* data() goes on after 354 only.
ReceiveData(l) ==
    /\ IF l.code = "go" THEN Ask("CONTENT", "simple") /\ UNCHANGED <<link, result>>
                        ELSE Return(Value(l.code), IsError(l.code))
    /\ UNCHANGED <<tls, auth, useTls, leaked>>

\* quit() disconnects, unless the reply makes no sense.
ReceiveQuit(l) ==
    /\ IF l.code = "garbled" THEN Return("0", TRUE)
       ELSE /\ awaiting' = "idle" /\ UNCHANGED asked
            /\ result' = l.code /\ link' = "over"
    /\ UNCHANGED <<tls, auth, useTls, leaked>>

\* helo(), mail(), rcpt(), connect(), and the last reply of the other methods.
ReceiveSimple(l) ==
    /\ Return(Value(l.code), IsError(l.code))
    /\ UNCHANGED <<tls, auth, useTls, leaked>>

\* The last command the method under way has sent.
SentFor == [simple |-> {"greeting", "HELO", "MAIL", "RCPT", "AUTH PLAIN", "CONTENT"},
            ehlo |-> {"EHLO"}, starttls |-> {"STARTTLS"}, cram1 |-> {"AUTH CRAM-MD5"},
            cram2 |-> {"RESPONSE"}, data |-> {"DATA"}, quit |-> {"QUIT"}]
LastSent == SentFor[awaiting]

\* async_read_until() has a line.
Receive ==
    LET l == Head(lines) IN
    /\ link = "up" /\ awaiting # "idle" /\ lines # <<>>
    /\ lines' = Tail(lines)
    /\ matched' = (l.cmd \in LastSent)
    /\ \/ awaiting = "ehlo" /\ ReceiveEhlo(l)
       \/ awaiting = "starttls" /\ ReceiveStartTls(l)
       \/ awaiting \in {"cram1", "cram2"} /\ ReceiveCram(l)
       \/ awaiting = "data" /\ ReceiveData(l)
       \/ awaiting = "quit" /\ ReceiveQuit(l)
       \/ awaiting = "simple" /\ ReceiveSimple(l)
    /\ UNCHANGED <<flags, calls, offered, strayed>>

\* A read or a write fails: the method returns 0.
ConnectionLost ==
    /\ link = "up" /\ awaiting # "idle"
    /\ Return("0", TRUE)
    /\ UNCHANGED <<flags, tls, auth, lines, useTls, matched, calls, offered, leaked, strayed>>

SmtpNext == \/ ServerAnswers \/ ConnectSmtp \/ Command \/ Ehlo \/ Login
            \/ Receive \/ ConnectionLost

SmtpSpec == SmtpInit /\ [][SmtpNext]_smtpVars

-----------------------------------------------------------------------------
(* Properties.                                                             *)

\* The client never reads the answer to an earlier command as the answer to the
\* last one, and leaves none unread when a method returns: after ehlo() with its
\* STARTTLS and second EHLO, a login() that falls back, and a data() that is
\* turned down.  It is so until a reply to another command than EHLO has more
\* than the one line that receive_code() reads (client.ipp:93-193, 433-447).
InStep == ~strayed => matched /\ (awaiting = "idle" /\ link = "up" => lines = <<>> /\ asked = <<>>)

\* A password is sent in the clear only if the flags allow it, and, by a client
\* in step, never outside TLS when the server has offered STARTTLS and the flags
\* allow that (client.ipp:151, 159-193, 385-396).
PasswordKept ==
    leaked # {} =>
        /\ flags.plaintext
        /\ ~strayed /\ flags.starttls => [tls |-> FALSE, offered |-> TRUE] \notin leaked

\* A method that waits for a server that answers returns.
MethodReturns == awaiting # "idle" ~> awaiting = "idle"
=============================================================================
