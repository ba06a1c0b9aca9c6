------------------------------ MODULE Packets ------------------------------
(***************************************************************************)
(* Parsing received packets (network/parse.hpp and the headers' files) and *)
(* the Internet checksum (network/detail/checkable.hpp).  A frame is the   *)
(* chain of its headers, with the fields that parsing looks at, and the    *)
(* number of its bytes; a pointer is an offset.  The host is little-endian.*)
(***************************************************************************)
EXTENDS Integers, Sequences, SequencesExt

CONSTANTS Frames,       \* records: headers, and the number of bytes of the frame
          Octets,       \* the bytes a message is made of
          MaxOctets     \* bound on their number

VARIABLES frame,        \* the frame that was received
          received,     \* how many of its bytes
          end,          \* where the application takes its end to be
          found,        \* the headers found: type and offset
          octets        \* a message with a checksum in its bytes 3 and 4

packetVars == <<frame, received, end, found, octets>>

-----------------------------------------------------------------------------
(* Headers                                                                 *)

\* sizeof() of the headers.
SizeOf == [eth |-> 14, arp |-> 28, ip4 |-> 20, ip6 |-> 40, udp |-> 8, tcp |-> 20, icmp |-> 8,
           icmp6 |-> 8, neighbor |-> 24]

\* header_size(): with the options of IPv4.
HeaderSize(h) == IF h.t = "ip4" THEN h.hl * 4 ELSE SizeOf[h.t]

\* Mutant: a length beyond the buffer is believed.
MutShrink4(h, size) == IF size - h.len < size THEN size - h.len ELSE 0

\* shrink_into_end(): how far end moves back, for size bytes from the header on.
\* For IPv6 it moves forward when the header claims more than there is.
Shrink4(h, size) == LET len == size - h.len IN IF 0 < len /\ len < size THEN len ELSE 0
Shrink6(h, size) == LET len == size - (h.len + SizeOf["ip6"]) IN IF len < size THEN len ELSE 0
Shrink(h, size) == CASE h.t = "ip4" -> Shrink4(h, size) [] h.t = "ip6" -> Shrink6(h, size)
                     [] OTHER -> 0

\* The is_match_condition of two headers.
MatchEthernet(from, t) == t \in {"ip4", "ip6", "arp"} /\ from.proto = t
MatchIp4(from, t, to) == \/ t \in {"udp", "tcp"} /\ from.proto = t
                         \/ t = "icmp" /\ from.proto = "icmp" /\ to.type \in {"request", "reply"}
MatchIp6(from, t, to) ==
    \/ t \in {"udp", "tcp"} /\ from.proto = t
    \/ t = "icmp6" /\ from.proto = "icmp6" /\ to.type \in {"request", "reply"}
    \/ t = "neighbor" /\ from.proto = "icmp6" /\ to.type \in {"solicitation", "advertisement"}
Followers == [eth |-> {"ip4", "ip6", "arp"}, ip4 |-> {"udp", "tcp", "icmp"},
              ip6 |-> {"udp", "tcp", "icmp6", "neighbor"}]
IsMatch(from, t, to) == CASE from.t = "eth" -> MatchEthernet(from, t)
                          [] from.t = "ip4" -> MatchIp4(from, t, to)
                          [] from.t = "ip6" -> MatchIp6(from, t, to)

-----------------------------------------------------------------------------
(* parse()                                                                 *)

HeaderAt(i) == frame.headers[i]
Offset(i) == FoldLeft(LAMBDA n, h : n + HeaderSize(h), 0, SubSeq(frame.headers, 1, i - 1))

PacketInit ==
    /\ frame \in Frames
    /\ received \in 1..frame.size /\ end = received
    /\ found = <<>> /\ octets = <<>>

\* parse<Hdr>(beg, end)
ParseFirst ==
    LET h == HeaderAt(1) IN
    /\ found = <<>> /\ octets = <<>>
    /\ SizeOf[h.t] < end /\ HeaderSize(h) < end
    /\ found' = <<[t |-> h.t, off |-> 0]>>
    /\ end' = end - Shrink(h, end)
    /\ UNCHANGED <<frame, received, octets>>

\* parse<Hdr>(hdr, end): the size of the next header is compared from where hdr
\* begins.
ParseNext(t) ==
    LET n == Len(found)
        h == HeaderAt(n)
        beg == found[n].off
        next == HeaderAt(n + 1)
    IN  /\ n \in 1..(Len(frame.headers) - 1) /\ h.t \in DOMAIN Followers /\ t \in Followers[h.t]
        /\ beg + HeaderSize(h) < end
        /\ IsMatch(h, t, next)
        /\ beg + HeaderSize([next EXCEPT !.t = t]) < end
        /\ found' = Append(found, [t |-> t, off |-> beg + HeaderSize(h)])
        /\ end' = end - Shrink(next, end - (beg + HeaderSize(h)))
        /\ UNCHANGED <<frame, received, octets>>

-----------------------------------------------------------------------------
(* The checksum                                                            *)

Swap(w) == (w % 256) * 256 + w \div 256
Fold(sum) == (sum % 65536) + (sum \div 65536)

\* total_checksum()
TotalChecksum(b) ==
    LET even == Len(b) - (Len(b) % 2)
        start == IF even = Len(b) THEN 0 ELSE Swap(b[Len(b)])
    IN  Swap(FoldLeft(LAMBDA sum, i : Fold(sum + b[2 * i - 1] * 256 + b[2 * i]), start,
                      [i \in 1..(even \div 2) |-> i]))

\* check_checksum() and compute_checksum() of IPv4, ICMP and ICMPv6.
CheckChecksum(b) == Fold(Fold(TotalChecksum(b))) = 65535
ComputeChecksum(b) ==
    LET sum == 65535 - Fold(Fold(TotalChecksum([b EXCEPT ![3] = 0, ![4] = 0])))
    IN  [b EXCEPT ![3] = sum % 256, ![4] = sum \div 256]

AddOctet(o) ==
    /\ found = <<>> /\ Len(octets) < MaxOctets /\ end = frame.size
    /\ frame = CHOOSE f \in Frames : TRUE
    /\ octets' = Append(octets, o)
    /\ UNCHANGED <<frame, received, end, found>>

PacketNext == ParseFirst \/ (\E t \in DOMAIN SizeOf : ParseNext(t)) \/ (\E o \in Octets : AddOctet(o))

-----------------------------------------------------------------------------
(* Properties.                                                             *)

\* Every header that is found is one of the frame's, at its place and of its type;
\* when the frame was received whole the end is, after the last header, that of
\* the datagram without the padding of the link layer, and of a frame that was cut
\* short nothing is believed to follow the bytes received, but for IPv6
\* (parse.hpp:39-127, ipv4_header.ipp:16-25, ipv6_header.ipp:19-28).
ParsedAsSent ==
    LET has(t) == \E i \in DOMAIN found : HeaderAt(i).t \in t IN
    /\ \A i \in DOMAIN found : found[i].off = Offset(i) /\ found[i].t = HeaderAt(i).t
    /\ received = frame.size /\ has({"ip4", "ip6"}) => end = frame.size - frame.padding
    /\ received < frame.size /\ ~has({"ip6"}) => end <= received

\* The sum of RFC 1071 over big-endian words, the last one filled with a zero.
Rfc1071(b) ==
    FoldLeft(LAMBDA sum, i : sum + b[i] * (IF i % 2 = 1 THEN 256 ELSE 1), 0,
             [i \in 1..Len(b) |-> i]) % 65535

\* A message with its computed checksum, of odd or even length, adds up to zero as
\* RFC 1071 wants it and is accepted, and is refused once any single byte of it is
\* another (checkable.hpp:22-95).
ChecksumDetects ==
    Len(octets) >= 4 =>
        LET b == ComputeChecksum(octets) IN
        /\ Rfc1071(b) = 0 /\ CheckChecksum(b)
        /\ \A i \in DOMAIN b, x \in Octets : x # b[i] => ~CheckChecksum([b EXCEPT ![i] = x])

\* A header is found where the sender put it, and a message that is whole passes
\* its checksum (parse.hpp:39-127, checkable.hpp:18-94).
PacketsRead == ParsedAsSent /\ ChecksumDetects
=============================================================================
