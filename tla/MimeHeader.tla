----------------------------- MODULE MimeHeader -----------------------------
(***************************************************************************)
(* Header values with words of RFC 2047 and parameters of RFC 2231, as     *)
(* email/encode_mimeheader.ipp writes them and decode_mimeheader.ipp reads *)
(* them.  "a" is a printable character, "U" one of three bytes in UTF-8.   *)
(* What is written is a sequence of items: a character, a line break, or   *)
(* an encoded word with its bytes, which base64 keeps.                     *)
(***************************************************************************)
EXTENDS Integers, Sequences, SequencesExt

CONSTANTS LineMax,      \* max_ (78)
          NameSize,     \* the length of the names of header and parameters
          MaxValue      \* bound on the characters of value and parameters

ASSUME MimeAssumption == LineMax \in Nat \ {0} /\ NameSize \in Nat \ {0} /\ MaxValue \in Nat

VARIABLES value,        \* the value of a header
          params        \* its parameters: sequence of values, the names differ

mimeVars == <<value, params>>

Char(c) == [c |-> c]
NL == Char("NL")
Word(b) == [word |-> b]
IsWord(x) == "word" \in DOMAIN x
Chars(s) == [i \in DOMAIN s |-> Char(s[i])]
IsSpace(x) == x \in {" ", "TAB"}

\* The bytes of a text, and the text of bytes: what is not a whole character in
\* the character set is skipped.
Utf8(s) == FlattenSeq([i \in DOMAIN s |-> IF s[i] = "U" THEN <<"u1", "u2", "u3">> ELSE <<s[i]>>])
IsLead(b, i) == i + 2 <= Len(b) /\ b[i] = "u1" /\ b[i + 1] = "u2" /\ b[i + 2] = "u3"
FromUtf8(b) == FlattenSeq([i \in DOMAIN b |-> CASE b[i] \in {"u2", "u3"} -> <<>>
                                                [] b[i] = "u1" -> IF IsLead(b, i) THEN <<"U">> ELSE <<>>
                                                [] OTHER -> <<b[i]>>])
FromAscii(b) == SelectSeq(b, LAMBDA x : x \notin {"u1", "u2", "u3"})

-----------------------------------------------------------------------------
(* The encoder.  cnt is cnt_, the place in the line.                       *)

IsAscii(s) == "U" \notin ToSet(s)

FindFrom(s, i, P(_)) == CHOOSE j \in i..(Len(s) + 1) : (j > Len(s) \/ P(s[j])) /\ \A k \in i..(j - 1) : ~P(s[k])

\* plain_encode() from the word at a, whose end is b.  After a break cnt_ is not
\* set back.
RECURSIVE PlainWords(_, _, _, _)
PlainWords(cnt, s, a, b) ==
    LET c == FindFrom(s, b, LAMBDA x : ~IsSpace(x))
        d == FindFrom(s, c, IsSpace)
        fits == cnt + (d - a) < LineMax
        out == IF fits THEN Chars(SubSeq(s, a, c - 1))
               ELSE Chars(SubSeq(s, a, b - 1)) \o <<NL>> \o Chars(SubSeq(s, b, c - 1))
    IN  IF b > Len(s) \/ c > Len(s)
        THEN [out |-> Chars(SubSeq(s, a, Len(s))), cnt |-> cnt + Len(s) + 1 - a]
        ELSE LET rest == PlainWords(cnt + (IF fits THEN c - a ELSE c - b), s, c, d)
             IN  [rest EXCEPT !.out = out \o @]

PlainEncode(cnt, s) == PlainWords(cnt, s, 1, FindFrom(s, 1, IsSpace))

\* Mutant: a piece ends in the middle of a character.
MutCutText(s) ==
    LET b == Utf8(s)
        n == LineMax \div 2 + 1
        k == Len(b) \div n
    IN  Append([i \in 1..k |-> SubSeq(b, (i - 1) * n + 1, i * n)], SubSeq(b, k * n + 1, Len(b)))

\* The pieces that rfc2047_encode() and rfc2231_encode() cut a text into, all of
\* them longer than half a line but perhaps the last, and never within a
\* character.  from_utf() skips what is no character.
CutText(s) ==
    LET step(acc, c) == LET b == Last(acc) \o Utf8(<<c>>)
                        IN  IF Len(b) > LineMax \div 2 THEN Front(acc) \o <<b, <<>> >>
                            ELSE Append(Front(acc), b)
    IN  FoldLeft(step, << <<>> >>, s)

\* rfc2047_encode(): every full piece is followed by a break, also when nothing
\* is left.
Rfc2047Encode(s) ==
    LET ps == CutText(s)
        word(b) == Word(Utf8(FromUtf8(b)))
    IN  FlattenSeq([i \in 1..(Len(ps) - 1) |-> <<word(ps[i]), NL, Char("TAB")>>])
        \o (IF Last(ps) = <<>> THEN <<>> ELSE <<word(Last(ps))>>)

\* operator()(key, val), behind the header's name
EncodeValue(s) ==
    CASE s = <<>> -> <<>>
      [] s # <<>> /\ IsAscii(s) /\ ~IsSpace(Head(s)) /\ ~IsSpace(Last(s)) ->
            PlainEncode(NameSize + 2, s).out
      [] OTHER -> Rfc2047Encode(s)

\* What the e-mail parser makes of a value's lines: one blank for each fold (email_parser.ipp:70-75).
Unfold(items) ==
    FlattenSeq([i \in DOMAIN items |->
        CASE ~IsWord(items[i]) /\ items[i] = NL -> <<Char(" ")>>
          [] i > 1 /\ ~IsWord(items[i]) /\ items[i] # NL /\ IsSpace(items[i].c)
             /\ (\E j \in 1..(i - 1) : items[j] = NL /\ \A k \in (j + 1)..i : ~IsWord(items[k]) /\ IsSpace(items[k].c)) -> <<>>
          [] OTHER -> <<items[i]>>])

\* rfc2231_encode(): pieces numbered when there are several, with the character
\* set in the first of several only, and a break behind every full one.
Rfc2231Encode(name, s) ==
    LET ps == CutText(s)
        used == IF Last(ps) = <<>> THEN Len(ps) - 1 ELSE Len(ps)
    IN  [i \in 1..used |-> [name |-> name, charset |-> i = 1 /\ Len(ps) > 1, ext |-> TRUE,
                            bytes |-> Utf8(FromUtf8(ps[i])), broken |-> i < Len(ps)]]

PercentSize(s) == FoldLeft(LAMBDA n, b : n + (IF b = "a" THEN 1 ELSE 3), 0, Utf8(s))

\* operator()(params) for one parameter, which begins with ';'.  Of an empty one
\* only the name is written; a plain one is in quotes, and its words are folded
\* like those of a value.
EncodeParam(acc, name, s) ==
    LET cnt == IF acc.cnt - 2 < LineMax THEN acc.cnt + 2 ELSE 1
        plain == PlainEncode(cnt, s)
        text == Unfold(plain.out)
        piece == [name |-> name, charset |-> FALSE, ext |-> FALSE, bytes |-> <<>>, broken |-> FALSE]
    IN  CASE s = <<>> -> [cnt |-> cnt + NameSize, pieces |-> Append(acc.pieces, piece)]
          [] s # <<>> /\ IsAscii(s) ->
               [cnt |-> plain.cnt + NameSize + 3,
                pieces |-> Append(acc.pieces, [piece EXCEPT !.bytes = [i \in DOMAIN text |-> text[i].c]])]
          [] OTHER -> [cnt |-> cnt + PercentSize(s), pieces |-> acc.pieces \o Rfc2231Encode(name, s)]

EncodeParams(v, ps) ==
    FoldLeft(LAMBDA acc, i : EncodeParam(acc, i, ps[i]),
             [cnt |-> PlainEncode(NameSize + 2, v).cnt, pieces |-> <<>>], [i \in DOMAIN ps |-> i]).pieces

-----------------------------------------------------------------------------
(* The decoder                                                             *)

\* A piece without '=' and a value.
Bare(p) == ~p.ext /\ p.bytes = <<>>

\* rfc2047_decode(): adjacent words are put together before they are converted.
Rfc2047Decode(items) ==
    LET step(d, x) ==
            IF ~IsWord(x) THEN [d EXCEPT !.gap = Append(@, x.c)]
            ELSE IF \A i \in DOMAIN d.gap : IsSpace(d.gap[i])
                 THEN [d EXCEPT !.gap = <<>>, !.encoded = @ \o x.word]
                 ELSE [gap |-> <<>>, encoded |-> x.word, out |-> d.out \o FromUtf8(d.encoded) \o d.gap]
        end == FoldLeft(step, [gap |-> <<>>, encoded |-> <<>>, out |-> <<>>], items)
    IN  end.out \o FromUtf8(end.encoded) \o end.gap

\* percent_decode() of a piece, of the parameter that is collected or of a new
\* one, whose character set is looked for.  An unquoted value reaches up to the
\* next blank: the ';' of a parameter that follows without a break belongs to it.
Collect(d, p, last) ==
    LET bytes == IF last \/ p.broken THEN p.bytes ELSE Append(p.bytes, ";")
    IN  IF d.key = p.name THEN [d EXCEPT !.encoded = @ \o bytes]
        ELSE [d EXCEPT !.key = p.name, !.encoded = bytes, !.charset = p.charset]

\* params[key] = text.  A key that runs over several names is no parameter's.
Store(params_, key, text) ==
    IF Len(key) = 1 THEN [params_ EXCEPT ![key[1]] = text] ELSE params_

\* write_utf(params[oldkey], ...); without a character set it is US-ASCII.
Flush(d) ==
    IF d.key = <<>> THEN d
    ELSE [d EXCEPT !.params = Store(@, d.key, IF d.charset THEN FromUtf8(d.encoded)
                                              ELSE FromAscii(d.encoded)),
                   !.encoded = <<>>, !.charset = FALSE]

\* rfc2231_decode(), where a key is all that stands before a '=': the names without
\* one, and the ';' between them, are part of the next key.  Where no '=' follows,
\* qi::parse() fails without moving beg, and the loop does not end.  A parameter
\* without '*' does not end the one before, which is written again, empty, unless
\* another one follows.
Rfc2231Decode(pieces, n) ==
    LET step(d, i) ==
            LET key == Append(d.names, pieces[i].name)
                p == [pieces[i] EXCEPT !.name = key]
            IN  CASE Bare(p) -> [d EXCEPT !.names = key]
                  [] ~Bare(p) /\ ~p.ext ->
                       LET e == Flush(d) IN [e EXCEPT !.params = Store(@, key, p.bytes), !.names = <<>>]
                  [] OTHER -> Collect([(IF d.key # key THEN Flush(d) ELSE d) EXCEPT !.names = <<>>],
                                      p, i = Len(pieces))
        start == [key |-> <<>>, encoded |-> <<>>, charset |-> FALSE, names |-> <<>>,
                  params |-> [i \in 1..n |-> <<>>]]
        end == FoldLeft(step, start, [i \in DOMAIN pieces |-> i])
    IN  [ends |-> end.names = <<>>, params |-> Flush(end).params]

-----------------------------------------------------------------------------

MimeInit == value = <<>> /\ params = <<>>

UsedSpace == Len(value) + Len(FlattenSeq(params))

AddToValue(c) == /\ UsedSpace < MaxValue /\ params = <<>>
                 /\ value' = Append(value, c) /\ UNCHANGED params
NewParam == /\ Len(params) < 2 /\ ToSet(value) \subseteq {"a"}
            /\ params' = Append(params, <<>>) /\ UNCHANGED value
AddToParam(c) == /\ UsedSpace < MaxValue /\ params # <<>>
                 /\ params' = Append(Front(params), Append(Last(params), c)) /\ UNCHANGED value

MimeNext == NewParam \/ \E c \in {"a", " ", "U"} : AddToValue(c) \/ AddToParam(c)

-----------------------------------------------------------------------------
(* Properties.                                                             *)

\* Runs of blanks as one.
Collapse(s) == FlattenSeq([i \in DOMAIN s |-> IF i > 1 /\ s[i] = " " /\ s[i - 1] = " " THEN <<>> ELSE <<s[i]>>])

\* A value comes back from a header that was encoded, folded, unfolded by the
\* parser and decoded: runs of blanks may be one if it was plain, and a blank may
\* follow it if it was encoded (encode_mimeheader.ipp:36-155,
\* decode_mimeheader.ipp:89-123).
ValueKept ==
    LET back == Rfc2047Decode(Unfold(EncodeValue(value)))
    IN  IF \E i \in DOMAIN EncodeValue(value) : IsWord(EncodeValue(value)[i])
        THEN back \in {value, Append(value, " ")}
        ELSE Collapse(back) = Collapse(value)

\* The decoder ends unless the last parameter is empty, when it does not
\* (README 5.20), and what follows an empty parameter is lost.  Else a plain
\* parameter comes back, but for runs of blanks.  So does one longer than half a
\* line that is encoded, and that no plain one follows; the ';' of the next
\* parameter may be left at its end.  A shorter one is written without its
\* character set and keeps its ASCII only; one before a plain one is overwritten
\* (encode_mimeheader.ipp:55-86, 157-203, decode_mimeheader.ipp:125-204).
ParamsKept ==
    LET back == Rfc2231Decode(EncodeParams(value, params), Len(params))
        long(s) == Len(Utf8(s)) > LineMax \div 2
    IN  /\ back.ends = (params # <<>> => Last(params) # <<>>)
        /\ \A i \in DOMAIN params :
             (i > 1 => params[i - 1] # <<>>) =>
               IF IsAscii(params[i]) THEN Collapse(back.params[i]) = Collapse(params[i])
               ELSE (long(params[i]) /\ \A j \in DOMAIN params : j > i => ~IsAscii(params[j]))
                    => back.params[i] \in {params[i], Append(params[i], ";")}

\* A header comes back from the decoder as it was given to the encoder, its value
\* and the parameters that ParamsKept names (encode_mimeheader.ipp:36-203, decode_mimeheader.ipp:53-204).
HeaderKept == ValueKept /\ ParamsKept
=============================================================================
