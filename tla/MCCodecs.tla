------------------------------ MODULE MCCodecs ------------------------------
(***************************************************************************)
(* The parts that convert one form of data into another and keep little or *)
(* no state: "codec" is the one that is used, the others stay in one       *)
(* initial state.                                                          *)
(***************************************************************************)
EXTENDS Filters, Json, Email, MimeHeader, Addresses, AddressText, Packets, Codecvt

VARIABLE codec

UpTo(S, n) == UNION {[1..k -> S] : k \in 1..n}

-----------------------------------------------------------------------------
(* Instances                                                               *)

\* CR and LF, a blank, '=', a letter, a byte that is written with letters in base 16
\* and one that is written with figures.
SomeBytes == {10, 13, 32, 61, 65, 171, 16}

\* Texts of JSON around one construct each: arrays, objects, escapes, numbers,
\* literals and nesting.
Input(prefix, chars, max) == [prefix |-> prefix, chars |-> chars, max |-> max]
JsonTexts ==
    {Input(<<>>, {"[", "]", ",", "1", " "}, 6),
     Input(<<"{">>, {"}", "\"", ":", ",", "1", "\n"}, 7),
     Input(<<"\"", "\\">>, {"\"", "\\", "u", "d", "8"}, 8),
     Input(<<"[">>, {"]", "1", "-", ".", "e", "0", ","}, 6),
     Input(<<"[">>, {"]", "n", "u", "l", " "}, 7),
     Input(<<>>, {"1", "-", "e", " "}, 5),
     Input(<<"[">>, {"[", "]", "{", "}", ",", "\""}, 6)}

\* What is written to the parser of mail: headers, folded lines, newlines and
\* halves of them, the end of a mail, a boundary and a line of text.
MailPieces ==
    {<<"a", ":", " ", "b">>, <<"b", ":">>, <<" ", " ", "a">>, <<"\r">>, <<"\n">>,
     <<".", "\r", "\n">>, <<"M", "\n">>, <<"--X">>, <<"a">>}

\* Mails with and without headers, parts and a last newline.  A mail without
\* headers is no text.
Mail(headers, isText, body, parts) ==
    [headers |-> headers, text |-> isText, body |-> body, parts |-> parts]
Subpart == Mail(<<<<<<"a">>, <<"b">>>>>>, TRUE, <<"b">>, <<>>)
Mails ==
    {Mail(h, t, b, p) :
        h \in {<<<<<<"a">>, <<"b">>>>, <<<<"b">>, <<"a", "b">>>>>>, <<<<<<"M">>, <<"X">>>>>>},
        t \in BOOLEAN,
        b \in {<<>>, <<"a">>, <<"a", "\n", "b", "\n">>, <<"\n", ".", "\n", "b">>},
        p \in {<<>>, <<Subpart>>}}
    \cup {Mail(<<>>, FALSE, b, <<>>) : b \in {<<>>, <<"a", "\n">>}}

\* What is added to an address of two bytes: a negative number, a sum of 1, 2, 4 ...
\* that carries, and more than a byte's worth that is no such sum.
Addends == {-1, 255, 300}
FirstAddresses == {<<0, 0>>}

TypedChars == [v4 |-> {"0", "5", ".", NUL}, link |-> {"7", "a", ":", "-", NUL}]
TypedSizes == [v4 |-> 7, link |-> 6]
\* The bytes at the ends of the classes, and addresses of the scopes of IPv6.
EdgeBytes == {0, 9, 10, 99, 100, 127, 128, 160, 191, 192, 224, 239, 240, 255}
Address6(a) == [i \in 1..16 |-> CASE i \in {1, 2} -> a[i] [] i \in {11, 12} -> a[i - 8]
                                  [] i \in {15, 16} -> a[i - 10] [] OTHER -> 0]
Addresses6 == {Address6(a) : a \in {0, 254, 255} \X {0, 1, 2, 5, 8, 14, 128, 192}
                                   \X {0, 255} \X {0, 255} \X {0, 1} \X {0, 1, 2}}

HeaderRec(t, proto, hl, len, type) == [t |-> t, proto |-> proto, hl |-> hl, len |-> len, type |-> type]
Eth(proto) == HeaderRec("eth", proto, 0, 0, "")
Ip4(proto, hl, size) == HeaderRec("ip4", proto, hl, hl * 4 + size, "")
Ip6(proto, size) == HeaderRec("ip6", proto, 0, size, "")
Upper(t, type) == HeaderRec(t, "", 0, 0, type)
\* The frame of the given headers, its bytes of data and its padding.
FrameOf(headers, data, pad) ==
    [headers |-> headers, padding |-> pad,
     size |-> FoldLeft(LAMBDA n, h : n + HeaderSize(h), data + pad, headers)]
FrameSamples ==
    {FrameOf(<<Eth("arp"), Upper("arp", "")>>, 0, 18)} \cup
    UNION {{FrameOf(<<Eth("ip4"), Ip4("udp", hl, 8 + n), Upper("udp", "")>>, n, pad),
            FrameOf(<<Ip4("tcp", hl, 20 + n), Upper("tcp", "")>>, n, pad),
            FrameOf(<<Ip4("icmp", hl, 8 + n), Upper("icmp", "reply")>>, n, pad),
            FrameOf(<<Ip4("other", hl, 8 + n), Upper("udp", "")>>, n, pad),
            FrameOf(<<Eth("ip4"), Ip4("icmp", hl, 8 + n), Upper("icmp", "other")>>, n, pad),
            FrameOf(<<Eth("ip6"), Ip6("icmp6", 24), Upper("neighbor", "solicitation")>>, 0, pad),
            FrameOf(<<Eth("ip6"), Ip6("icmp6", 8 + n), Upper("icmp6", "request")>>, n, pad),
            FrameOf(<<Ip6("tcp", 20 + n), Upper("tcp", "")>>, n, pad)} :
               hl \in {5, 6}, n \in {0, 3}, pad \in {0, 4}}
SomeOctets == {0, 1, 128, 254, 255}

TextPieces == UpTo({"a", "\r", "\n"}, 3)
LineTexts == UpTo({"a", "b", "\r", "\n"}, 4)
\* A character of n bytes is the number n, 0 an illegal one.
WideSamples == UpTo(0..4, 4)

-----------------------------------------------------------------------------
(* The composition                                                         *)

allVars == <<filterVars, jsonVars, emailVars, mimeVars, addressVars, textVars, packetVars,
             codecvtVars>>

\* An initial state of the packets, the addresses' texts and the converters,
\* which have many.
PacketIdle == /\ frame = (CHOOSE f \in Frames : TRUE) /\ received = 1 /\ end = 1
              /\ found = <<>> /\ octets = <<>>
TextIdle == typed = <<>> /\ subject = "v4" /\ looked = <<>>
CodecvtIdle == /\ way = "out" /\ given = <<>> /\ unread = <<>> /\ writes = 0 /\ kept = <<>>
               /\ lastChar = "none" /\ taken = <<>> /\ hashed = <<>> /\ asked = 0 /\ ended = FALSE

Init ==
    /\ codec \in {"filters", "json", "email", "mime", "address", "text", "packet", "codecvt"}
    /\ FilterInit
    /\ codec # "filters" => enc.kind = "ascii" /\ enc.nl = "none" /\ \A n \in LineSizes : enc.size <= n
    /\ JsonInit
    /\ codec # "json" => source = (CHOOSE s \in JsonInputs : TRUE)
    /\ EmailInit
    /\ codec # "email" => mode = "parse"
    /\ MimeInit
    /\ AddressInit
    /\ IF codec = "text" THEN TextInit ELSE TextIdle
    /\ IF codec = "packet" THEN PacketInit ELSE PacketIdle
    /\ IF codec = "codecvt" THEN CodecvtInit ELSE CodecvtIdle

Next ==
    /\ UNCHANGED codec
    /\ \/ /\ codec = "filters" /\ FilterNext
          /\ UNCHANGED <<jsonVars, emailVars, mimeVars, addressVars, textVars, packetVars, codecvtVars>>
       \/ /\ codec = "json" /\ JsonNext
          /\ UNCHANGED <<filterVars, emailVars, mimeVars, addressVars, textVars, packetVars, codecvtVars>>
       \/ /\ codec = "email" /\ EmailNext
          /\ UNCHANGED <<filterVars, jsonVars, mimeVars, addressVars, textVars, packetVars, codecvtVars>>
       \/ /\ codec = "mime" /\ MimeNext
          /\ UNCHANGED <<filterVars, jsonVars, emailVars, addressVars, textVars, packetVars, codecvtVars>>
       \/ /\ codec = "address" /\ AddressNext
          /\ UNCHANGED <<filterVars, jsonVars, emailVars, mimeVars, textVars, packetVars, codecvtVars>>
       \/ /\ codec = "text" /\ TextNext
          /\ UNCHANGED <<filterVars, jsonVars, emailVars, mimeVars, addressVars, packetVars, codecvtVars>>
       \/ /\ codec = "packet" /\ PacketNext
          /\ UNCHANGED <<filterVars, jsonVars, emailVars, mimeVars, addressVars, textVars, codecvtVars>>
       \/ /\ codec = "codecvt" /\ CodecvtNext
          /\ UNCHANGED <<filterVars, jsonVars, emailVars, mimeVars, addressVars, textVars, packetVars>>

Spec == Init /\ [][Next]_<<codec, allVars>>
=============================================================================
