----------------------------- MODULE HttpProxy -----------------------------
(***************************************************************************)
(* The session of the transparent HTTP proxy (example/thttpproxy.cpp), one *)
(* coroutine between a browser and an origin server, whose handlers run on *)
(* ten threads, with the reads of a given size of asio/read_until.hpp.     *)
(*                                                                         *)
(* buf["browser"] is server_buffer_ and buf["origin"] is client_buffer_;   *)
(* each of them is where its peer's bytes are received and where the bytes *)
(* for the peer wait.  What is sent is a sequence of tokens: a header with *)
(* what it says of its body, the line of a chunk's size, a byte of data,   *)
(* and CR and LF.  A header counts one byte.                               *)
(***************************************************************************)
EXTENDS Integers, Sequences, SequencesExt

CONSTANTS Requests,     \* what a browser may send, in sequences of tokens
          Responses     \* what an origin may answer

VARIABLES at,           \* the operation under way, or "ended"
          dir,          \* whose body is forwarded: "browser" or "origin"
          match,        \* match_buffer_size: how much was searched, what is missing
          header,       \* header_: what it says of the body
          length,       \* content_length_
          buf,          \* server_buffer_ and client_buffer_
          dummy,        \* the read that watches the browser: "off", "pending"
          aborted,      \* the operations that cancel() has hit
          net,          \* sent by a peer, not read
          toSend,       \* not sent by a peer yet
          closed,       \* the peers that closed their side
          sent,         \* all that a peer has sent
          got           \* what a peer has received

peers == <<net, toSend, closed, sent>>
proxyVars == <<at, dir, match, header, length, buf, dummy, aborted, peers, got>>

Peers == {"browser", "origin"}
Other(p) == IF p = "browser" THEN "origin" ELSE "browser"
Header(body, n) == <<"header", body, n>>
Size(n) == <<"size", n>>
Datum(c) == <<"data", c>>
CRLF == <<<<"CR">>, <<"LF">>>>

\* The operations that read, the peer they read from, and those that write.
Reads == {"readRequest", "readResponse", "readLength", "chunk1", "chunk3", "unknown"}
Source == CASE at = "readRequest" -> "browser" [] at \in {"readResponse", "unknown"} -> "origin"
            [] OTHER -> dir
Writes == {"writeRequest", "writeResponse", "writeBody", "chunk2", "chunk4"}
Target == CASE at = "writeRequest" -> "origin" [] at = "writeResponse" -> "browser"
            [] OTHER -> Other(dir)

\* What peers send begins with a header, and the line of a size has a size.
IsMessage(s) ==
    /\ s \in Seq(ToSet(s)) /\ s # <<>>
    /\ s[1] = Header(s[1][2], s[1][3]) /\ s[1][3] \in Nat
    /\ s[1][2] = "bad" => s[1][3] = 0
    /\ \A i \in DOMAIN s : s[i][1] = "size" => s[i] = Size(s[i][2]) /\ s[i][2] \in Nat

\* What an origin sends is as long as its header says: chunk after chunk, the
\* last of size 0, or a body of the length given, or of none.
IsFramed(s) ==
    IF s[1][2] = "chunked"
    THEN /\ Len(s) > 1 /\ s[2][1] = "size"
         /\ \A i \in DOMAIN s : s[i][1] = "size" =>
              IF s[i][2] = 0 THEN Len(s) = i + 2
              ELSE i + s[i][2] + 3 \in DOMAIN s /\ s[i + s[i][2] + 3][1] = "size"
    ELSE /\ \A i \in DOMAIN s : s[i][1] # "size"
         /\ s[1] = Header("unknown", 0) \/ s[1][2] = "bad" \/ Len(s) = s[1][3] + 1

ASSUME ProxyAssumption == /\ \A q \in Requests : IsMessage(q)
                          /\ \A r \in Responses : IsMessage(r) /\ IsFramed(r)

-----------------------------------------------------------------------------
(* The completion condition of async_read_until()                          *)

EndsIn(kinds, b) == {i \in DOMAIN b : b[i][1] \in kinds}

\* match_buffer_size, called on what was not searched yet.
Matcher(m, b) ==
    LET d == Len(b) - m.searched
    IN  IF m.left <= d THEN m ELSE [searched |-> Len(b), left |-> m.left - d]

\* Where the first of a delimiter ends, or 0.
FirstEnd(kinds, b) == IF EndsIn(kinds, b) = {} THEN 0
                      ELSE CHOOSE i \in EndsIn(kinds, b) : \A j \in EndsIn(kinds, b) : i <= j

\* The size a read completes with, or 0.
MatchedSize ==
    LET b == buf[Source]
    IN  CASE at \in {"readRequest", "readResponse"} -> FirstEnd({"header"}, b)
          [] at = "chunk1" -> FirstEnd({"size", "LF"}, b)
          [] at \in {"readLength", "chunk3"} ->
                IF match.left <= Len(b) - match.searched THEN match.searched + match.left ELSE 0
          [] OTHER -> 0

\* Starting an operation.  Whether it is a read of n bytes is known by its name.
Begin(op, n) ==
    /\ at' = op
    /\ match' = [searched |-> 0, left |-> n]
    /\ aborted' = aborted \ {"main"}

\* No operation of the coroutine is started any more.
Stop == /\ at' = "ended" /\ aborted' = aborted \ {"main"} /\ UNCHANGED match

\* The bytes of the front of from's buffer are moved (move_buffer()).
MoveBuffer(from, n) ==
    buf' = [buf EXCEPT ![from] = SubSeq(@, n + 1, Len(@)),
                       ![Other(from)] = @ \o SubSeq(buf[from], 1, n)]

-----------------------------------------------------------------------------
(* The coroutine                                                           *)

ProxyInit ==
    /\ at = "connect" /\ dir = "browser" /\ match = [searched |-> 0, left |-> 0]
    /\ header = <<"none", 0>> /\ length = 0
    /\ buf = [p \in Peers |-> <<>>] /\ dummy = "off" /\ aborted = {}
    /\ net = [p \in Peers |-> <<>>] /\ closed = {} /\ sent = net /\ got = net
    /\ \E q \in Requests, r \in Responses : toSend = [p \in Peers |-> IF p = "browser" THEN q ELSE r]

\* start()'s async_connect().
Connected ==
    /\ at = "connect"
    /\ (Begin("readRequest", 0) \/ Stop)
    /\ UNCHANGED <<dir, header, length, buf, dummy, peers, got>>

\* After the request's header: it is rewritten for the origin.
OnRequest ==
    LET n == MatchedSize
        h == buf["browser"][n]
    IN  /\ at = "readRequest" /\ n > 0
        /\ IF h[2] = "bad" THEN Stop /\ UNCHANGED <<buf, header>>
           ELSE /\ buf' = [buf EXCEPT !["browser"] = SubSeq(@, n + 1, Len(@)),
                                      !["origin"] = Append(@, h)]
                /\ header' = <<h[2], h[3]>>
                /\ Begin("writeRequest", 0)
        /\ UNCHANGED <<dir, length, dummy, peers, got>>

\* What the body that the header speaks of is read with first.
BeginBody(p) ==
    /\ dir' = p /\ length' = header[2] /\ UNCHANGED <<header, dummy>>
    /\ Begin(IF header[1] = "chunked" THEN "chunk1" ELSE "readLength", header[2])

\* Mutant: it is kept, in the buffer of what goes back to it.
MutAwaitResponse(b) == buf' = b /\ Begin("readResponse", 0)

\* Before the response is read, what the browser has sent too much is dropped.
AwaitResponse(b) == /\ buf' = [b EXCEPT !["browser"] = <<>>] /\ Begin("readResponse", 0)

HasBody == header[1] = "chunked" \/ header[2] > 0

\* After the response's header.
OnResponse ==
    LET n == MatchedSize
        h == buf["origin"][n]
    IN  /\ at = "readResponse" /\ n > 0
        /\ IF h[2] = "bad"
           THEN Stop /\ buf' = [buf EXCEPT !["browser"] = Append(@, h)] /\ UNCHANGED header
           ELSE /\ buf' = [buf EXCEPT !["origin"] = SubSeq(@, n + 1, Len(@)),
                                      !["browser"] = Append(@, h)]
                /\ header' = <<h[2], h[3]>>
                /\ Begin("writeResponse", 0)
        /\ UNCHANGED <<dir, length, dummy, peers, got>>

\* The coroutine goes on when header or body have been written.  The connection
\* is never kept alive.
AfterWrite(b) ==
    CASE at = "writeRequest" /\ HasBody ->
            buf' = b /\ BeginBody("browser")
      [] (at = "writeRequest" /\ ~HasBody) \/ (at = "writeBody" /\ dir = "browser") ->
            AwaitResponse(b) /\ UNCHANGED <<dir, header, length, dummy>>
      [] at = "writeResponse" /\ HasBody ->
            buf' = b /\ BeginBody("origin")
      [] at = "writeResponse" /\ ~HasBody /\ header[1] = "unknown" ->
            /\ buf' = b /\ dir' = "origin" /\ Begin("unknown", 0) /\ dummy' = "pending"
            /\ UNCHANGED <<header, length>>
      [] at = "writeResponse" /\ ~HasBody /\ header[1] # "unknown" ->
            buf' = b /\ Stop /\ UNCHANGED <<dir, header, length, dummy>>
      [] at = "writeBody" /\ dir = "origin" ->
            /\ buf' = b /\ UNCHANGED <<dir, header, length, dummy>>
            /\ IF dummy # "off" THEN Begin("unknown", 0) ELSE Stop
      [] at = "chunk2" -> buf' = b /\ Begin("chunk3", length) /\ UNCHANGED <<dir, header, length, dummy>>
      [] at = "chunk4" -> buf' = b /\ Begin("chunk1", 0) /\ UNCHANGED <<dir, header, length, dummy>>

\* async_write() of a whole buffer.
Written ==
    /\ at \in Writes
    /\ got' = [got EXCEPT ![Target] = @ \o buf[Target]]
    /\ AfterWrite([buf EXCEPT ![Target] = <<>>])
    /\ UNCHANGED peers

\* The peer is gone, or cancel() came when a part of it had been written.
WriteFails ==
    /\ at \in Writes /\ (Target \in closed \/ "main" \in aborted)
    /\ \E n \in 0..(Len(buf[Target]) - 1) : got' = [got EXCEPT ![Target] = @ \o SubSeq(buf[Target], 1, n)]
    /\ Stop
    /\ UNCHANGED <<dir, header, length, buf, dummy, peers>>

\* async_content_length()
OnContentLength ==
    /\ at = "readLength" /\ MatchedSize > 0
    /\ MoveBuffer(dir, MatchedSize) /\ Begin("writeBody", 0)
    /\ UNCHANGED <<dir, header, length, dummy, peers, got>>

\* async_chunked_length().  The line of size 0 is the last thing forwarded.
OnChunkSize ==
    LET n == MatchedSize
        size == IF buf[dir][1][1] = "size" THEN buf[dir][1][2] ELSE 0
    IN  /\ at = "chunk1" /\ n > 0
        /\ MoveBuffer(dir, n)
        /\ length' = IF size = 0 THEN 0 ELSE size + 2
        /\ Begin(IF size = 0 THEN "writeBody" ELSE "chunk2", 0)
        /\ UNCHANGED <<dir, header, dummy, peers, got>>

\* async_chunked_length3()
OnChunk ==
    /\ at = "chunk3" /\ MatchedSize > 0
    /\ MoveBuffer(dir, MatchedSize) /\ Begin("chunk4", 0)
    /\ UNCHANGED <<dir, header, length, dummy, peers, got>>

\* read_some() of an operation that is not complete: match_buffer_size has looked
\* at all of the buffer.
ReadSome(n) ==
    LET p == Source
    IN  /\ at \in Reads /\ n <= Len(net[p]) /\ MatchedSize = 0
        /\ buf' = [buf EXCEPT ![p] = @ \o SubSeq(net[p], 1, n)]
        /\ net' = [net EXCEPT ![p] = SubSeq(@, n + 1, Len(@))]
        /\ match' = Matcher(match, buf[p])
        /\ UNCHANGED <<at, dir, header, length, dummy, aborted, toSend, closed, sent, got>>

\* The end of the stream, or an aborted read.
ProxyReadFails ==
    LET p == Source IN
    /\ at \in Reads \ {"unknown"} /\ MatchedSize = 0
    /\ (p \in closed /\ net[p] = <<>>) \/ "main" \in aborted
    /\ Stop
    /\ UNCHANGED <<dir, header, length, buf, dummy, peers, got>>

\* async_check_connected(): cancel() aborts what is pending on either socket.
Cancel(ops) == aborted' = ops

\* Mutant: the read that watches the browser is left alone.
MutOnUnknown ==
    /\ at = "unknown" /\ (("origin" \in closed /\ net["origin"] = <<>>) \/ "main" \in aborted)
    /\ IF buf["origin"] # <<>>
       THEN MoveBuffer("origin", Len(buf["origin"])) /\ Begin("writeBody", 0)
       ELSE at' = "ended" /\ Cancel({}) /\ UNCHANGED <<buf, match>>
    /\ UNCHANGED <<dir, header, length, dummy, peers, got>>

\* async_unknown_length(), at the end of the stream or when the read was aborted:
\* what has been read is forwarded; nothing ends the exchange.
OnUnknown ==
    /\ at = "unknown" /\ (("origin" \in closed /\ net["origin"] = <<>>) \/ "main" \in aborted)
    /\ IF buf["origin"] # <<>>
       THEN MoveBuffer("origin", Len(buf["origin"])) /\ Begin("writeBody", 0)
       ELSE at' = "ended" /\ Cancel({"dummy"}) /\ UNCHANGED <<buf, match>>
    /\ UNCHANGED <<dir, header, length, dummy, peers, got>>

\* The watching read ends: the browser sent a byte, which is lost, or closed, or
\* the read was aborted.  Everything that is pending is cancelled, by a thread of
\* its own and without the mutex.
OnDummy ==
    /\ dummy = "pending" /\ (net["browser"] # <<>> \/ "browser" \in closed \/ "dummy" \in aborted)
    /\ dummy' = "done"
    /\ net' = [net EXCEPT !["browser"] = IF @ = <<>> THEN @ ELSE Tail(@)]
    /\ Cancel(IF at = "ended" THEN {} ELSE {"main"})
    /\ UNCHANGED <<at, dir, match, header, length, buf, toSend, closed, sent, got>>

-----------------------------------------------------------------------------
(* The peers.  The origin answers when it has got something.               *)

PeerSends(p) ==
    /\ p \notin closed /\ toSend[p] # <<>> /\ (p = "origin" => got["origin"] # <<>>)
    /\ net' = [net EXCEPT ![p] = Append(@, Head(toSend[p]))]
    /\ toSend' = [toSend EXCEPT ![p] = Tail(@)]
    /\ sent' = [sent EXCEPT ![p] = Append(@, Head(toSend[p]))]
    /\ UNCHANGED <<at, dir, match, header, length, buf, dummy, aborted, closed, got>>

PeerCloses(p) ==
    /\ p \notin closed /\ closed' = closed \cup {p}
    /\ UNCHANGED <<at, dir, match, header, length, buf, dummy, aborted, net, toSend, sent, got>>

Handler == \/ Connected \/ OnRequest \/ OnResponse \/ Written \/ WriteFails \/ OnContentLength
           \/ OnChunkSize \/ OnChunk \/ (\E n \in 1..Len(net[Source]) : ReadSome(n)) \/ ProxyReadFails
           \/ OnUnknown \/ OnDummy

Released == at = "ended" /\ dummy # "pending"

ProxyNext == \/ ~Released /\ Handler
             \/ ~Released /\ \E p \in Peers : PeerSends(p) \/ PeerCloses(p)

ProxySpec == ProxyInit /\ [][ProxyNext]_proxyVars

-----------------------------------------------------------------------------
(* Properties.                                                             *)

\* A peer receives what the other one sent, in order, without a loss or a byte
\* twice, however reads split it and whichever buffer it went through
\* (thttpproxy.cpp:41-275, read_until.hpp:25-37).
Forwarded == \A p \in Peers : IsPrefix(got[p], sent[Other(p)])

\* All but the empty line after the last chunk, which is not forwarded.
Whole(s) == IF Len(s) > 2 /\ s[Len(s) - 2] = Size(0) THEN SubSeq(s, 1, Len(s) - 2) ELSE s

\* When the session is over the browser has the whole response, of known or of
\* unknown length, if the origin got all that the browser sent and answered and
\* the browser did not close.  A byte too many, be it the end of a chunked
\* request, may cut a response of unknown length (thttpproxy.cpp:157-257).
ResponseComplete ==
    /\ Released /\ "browser" \notin closed
    /\ toSend = [p \in Peers |-> <<>>] /\ got["origin"] = sent["browser"]
    /\ Header("bad", 0) \notin ToSet(sent["origin"])
    => got["browser"] = Whole(sent["origin"])

\* The two together: nothing is lost, neither on the way nor at the end
\* (thttpproxy.cpp:41-275).
NothingLost == Forwarded /\ ResponseComplete

\* A session whose origin has closed is over before long, also when the browser
\* keeps its connection: no read is left behind (thttpproxy.cpp:176-186, 243-257).
ProxyEnds == (toSend["browser"] = <<>> /\ "origin" \in closed) ~> Released
=============================================================================
