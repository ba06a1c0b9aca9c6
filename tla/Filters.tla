------------------------------ MODULE Filters ------------------------------
(***************************************************************************)
(* The text filters: base64 (iostreams/base64_filter.hpp), quoted-printable*)
(* (qprint_filter.hpp) and format=flowed (ascii_filter.hpp), with the line *)
(* breaks of newline_category.hpp.  An encoder is fed byte by byte, as by  *)
(* an output filter; what it would have written if it were closed now is   *)
(* decoded again.  Bytes and characters are numbers; a letter of base64 is *)
(* the number it stands for (enc() and dec() are inverse tables), followed *)
(* by '=' and the newlines.                                                *)
(***************************************************************************)
EXTENDS Integers, Sequences, SequencesExt

CONSTANTS Bytes,        \* the bytes an application writes
          MaxText,      \* bound on how many it writes
          LineSizes     \* the line lengths it asks for

ASSUME FilterAssumption == Bytes \subseteq 0..255 /\ MaxText \in Nat /\ LineSizes \subseteq Nat

VARIABLES text,     \* the bytes written so far
          enc       \* the encoder: its kind, nl_, max_, cnt_, prior_ and what it wrote

filterVars == <<text, enc>>

CR == 13
LF == 10
SP == 32
EQ == 61        \* '=' of quoted-printable
Eof == -1
Unlimited == 1000
Letters == 0..63
Base64Pad == 64
Base64CR == 65
Base64LF == 66

Newlines == {"none", "cr", "ln", "crln"}
Emit(e, s) == [e EXCEPT !.out = @ \o s]
NewlineOf(nl, cr, lf) == CASE nl = "none" -> <<>> [] nl = "cr" -> <<cr>>
                           [] nl = "ln" -> <<lf>> [] nl = "crln" -> <<cr, lf>>

-----------------------------------------------------------------------------
(* base64                                                                  *)

\* max_ counts the letters of a line and is a multiple of four.  Sizes below 4
\* leave it uninitialised and are not used here.
Base64Max(nl, size) ==
    LET room == CASE nl = "none" -> Unlimited [] nl = "crln" -> size - 2 [] OTHER -> size - 1
    IN  room - (room % 4)

PutBreak(e) == [Emit(e, NewlineOf(e.nl, Base64CR, Base64LF)) EXCEPT !.cnt = 0]

\* Mutant: the last letter of a group is not counted.
MutBase64Put(e, ch) ==
    LET b == IF e.cnt % 4 = 0 /\ e.cnt >= e.max THEN PutBreak(e) ELSE e
        p == e.prior
    IN  [Emit(b, CASE b.cnt % 4 = 0 -> <<ch \div 4>>
                   [] b.cnt % 4 = 1 -> <<(p % 4) * 16 + ch \div 16>>
                   [] OTHER -> <<(p % 16) * 4 + ch \div 64, ch % 64>>)
         EXCEPT !.cnt = @ + 1, !.prior = ch]

\* put(): three bytes make four letters.
Base64Put(e, ch) ==
    LET b == IF e.cnt % 4 = 0 /\ e.cnt >= e.max THEN PutBreak(e) ELSE e
        p == e.prior
        s == CASE b.cnt % 4 = 0 -> <<ch \div 4>>
               [] b.cnt % 4 = 1 -> <<(p % 4) * 16 + ch \div 16>>
               [] b.cnt % 4 = 2 -> <<(p % 16) * 4 + ch \div 64, ch % 64>>
    IN  [Emit(b, s) EXCEPT !.cnt = @ + Len(s), !.prior = ch]

Base64Close(e) ==
    LET pad(n) == IF e.pad THEN [i \in 1..n |-> Base64Pad] ELSE <<>>
        s == CASE e.cnt % 4 = 1 -> <<(e.prior % 4) * 16>> \o pad(2)
               [] e.cnt % 4 = 2 -> <<(e.prior % 16) * 4>> \o pad(1)
               [] OTHER -> <<>>
    IN  IF e.cnt > 0 THEN PutBreak(Emit(e, s)) ELSE e

\* get_break(): the result EOF is "eof".
GetBreak(e) ==
    CASE e.nl = "crln" /\ e.cnt = e.max -> [Emit(e, <<Base64CR>>) EXCEPT !.cnt = @ + 1]
      [] e.nl = "none" -> [e EXCEPT !.cnt = 0, !.eof = TRUE]
      [] OTHER -> [Emit(e, <<IF e.nl = "cr" THEN Base64CR ELSE Base64LF>>) EXCEPT !.cnt = 0]

\* get(), of an encoder used as an input filter: one call.  e.src is what the
\* source still has; taking from it when it is empty gives EOF.
Base64Get(e) ==
    LET ch == IF e.src = <<>> THEN Eof ELSE Head(e.src)
        low == IF ch = Eof THEN 0 ELSE ch
        took(c) == [Emit(e, <<c>>) EXCEPT !.cnt = @ + 1, !.prior = ch,
                                          !.src = IF ch = Eof THEN @ ELSE Tail(@)]
        last == GetBreak([e EXCEPT !.max = e.cnt, !.prior = Eof])
        pad(m) == [Emit(e, <<Base64Pad>>) EXCEPT !.cnt = @ + 1, !.max = m]
    IN CASE e.cnt % 4 = 0 ->
              CASE e.cnt >= e.max /\ e.nl # "none" -> GetBreak(e)
                [] e.prior = Eof \/ (ch = Eof /\ e.cnt = 0) ->
                     [e EXCEPT !.eof = TRUE, !.prior = Eof]
                [] e.prior # Eof /\ ch = Eof /\ e.cnt > 0 -> last
                [] OTHER -> took(ch \div 4)
         [] e.cnt % 4 = 1 ->
              IF e.cnt >= e.max THEN GetBreak(e) ELSE took((e.prior % 4) * 16 + low \div 16)
         [] e.cnt % 4 = 2 ->
              CASE e.prior = Eof /\ e.pad -> pad(e.max)
                [] e.prior = Eof /\ ~e.pad -> last
                [] OTHER -> took((e.prior % 16) * 4 + low \div 64)
         [] e.cnt % 4 = 3 ->
              CASE e.prior = Eof /\ e.pad -> pad(e.cnt + 1)
                [] e.prior = Eof /\ ~e.pad -> last
                [] OTHER -> [Emit(e, <<e.prior % 64>>) EXCEPT !.cnt = @ + 1]

RECURSIVE Base64GetAll(_)
Base64GetAll(e) == IF e.eof THEN e.out ELSE Base64GetAll(Base64Get(e))

\* get() and put() of the decoder are the same: newlines and '=' are skipped, and
\* a byte has eight bits.
Base64Decode(s) ==
    LET Step(d, ch) ==
            IF ch \notin Letters THEN d
            ELSE [cnt |-> d.cnt + 1, prior |-> ch,
                  out |-> d.out \o
                    CASE d.cnt % 4 = 0 -> <<>>
                      [] d.cnt % 4 = 1 -> <<d.prior * 4 + ch \div 16>>
                      [] d.cnt % 4 = 2 -> <<(d.prior % 16) * 16 + ch \div 4>>
                      [] d.cnt % 4 = 3 -> <<((d.prior % 16) * 64 + ch) % 256>>]
    IN  FoldLeft(Step, [cnt |-> 0, prior |-> 0, out |-> <<>>], s).out

-----------------------------------------------------------------------------
(* newline_base, quoted-printable and format=flowed                        *)

PutLn(e) == [Emit(e, NewlineOf(e.nl, CR, LF)) EXCEPT !.cnt = 0]
PutNoBreak(e, ch) == [Emit(e, <<ch>>) EXCEPT !.cnt = @ + 1]

\* line_break() of each class: a soft break ends in '=' or a blank.
LineBreak(e) == PutLn(Emit(e, IF e.kind = "qprint" THEN <<EQ>> ELSE <<SP>>))

PutBreaking(e, ch) == PutNoBreak(IF e.cnt >= e.max THEN LineBreak(e) ELSE e, ch)

HexDigit(n) == IF n < 10 THEN 48 + n ELSE 55 + n

Escape(e, ch) ==
    PutNoBreak(PutNoBreak(PutBreaking(e, EQ), HexDigit(ch \div 16)), HexDigit(ch % 16))

\* A blank waits in prior_ for what follows it.  A newline is written as it is,
\* and does not start the count of the line again.
QprintPut(e, ch) ==
    LET newline == ch \in {CR, LF}
        blank == IF e.prior = 0 THEN e
                 ELSE [IF newline THEN Escape(e, e.prior) ELSE PutBreaking(e, e.prior)
                       EXCEPT !.prior = 0]
    IN  CASE ch = CR -> blank
          [] ch = LF -> Emit(blank, <<LF>>)
          [] ch \in {SP, 9} -> [blank EXCEPT !.prior = ch]
          [] ch \notin {CR, LF, SP, 9} /\ (ch = EQ \/ ch < 33 \/ ch > 126) -> Escape(blank, ch)
          [] OTHER -> PutBreaking(blank, ch)

QprintClose(e) == IF e.prior = 0 THEN e ELSE Emit(e, <<e.prior>>)

\* unescape(): the letters count from 0, and of the second digit's only 'A' is one.
Unescape(u, l) ==
    LET value(c, top) == CASE c \in 48..57 -> c - 48 [] c \in 65..top -> c - 65
                           [] c \in 97..(top + 32) -> c - 97 [] OTHER -> -1
    IN  IF value(u, 70) = -1 \/ value(l, 65) = -1 THEN -1 ELSE value(u, 70) * 16 + value(l, 65)

\* get() of the decoder, to the end of s.  What follows a soft break is returned
\* as it is; -1 is taken for the end of the text.
RECURSIVE QprintDecode(_)
QprintDecode(s) ==
    LET at(i) == IF i \in DOMAIN s THEN s[i] ELSE Eof
        from(i) == SubSeq(s, i, Len(s))
        next(ch, i) == IF ch = Eof THEN <<>> ELSE <<ch>> \o QprintDecode(from(i))
        skip == IF at(3) = LF THEN 4 ELSE 3
    IN  CASE at(1) # EQ -> next(at(1), 2)
          [] at(1) = EQ /\ at(2) \in {CR, LF} -> next(at(skip), skip + 1)
          [] at(1) = EQ /\ at(2) \notin {CR, LF} ->
                IF at(2) = Eof \/ at(3) = Eof THEN <<>> ELSE next(Unescape(at(2), at(3)), 4)

AsciiPut(e, ch) == CASE ch = CR -> e [] ch = LF -> PutLn(e) [] OTHER -> PutBreaking(e, ch)

\* get() of the decoder, to the end: a blank before a newline joins two lines.
\* The character in prior_, 0 for none, comes before the source's.
RECURSIVE AsciiDecode(_, _)
AsciiDecode(prior, s) ==
    LET src == IF prior = 0 THEN s ELSE <<prior>> \o s
        at(i) == IF i \in DOMAIN src THEN src[i] ELSE Eof
        from(i) == SubSeq(src, i, Len(src))
        afterCR == IF at(2) = CR THEN 3 ELSE 2
        i == IF at(afterCR) = LF THEN afterCR + 1 ELSE afterCR
        out(ch, p, rest) == IF ch = Eof THEN <<>> ELSE <<ch>> \o AsciiDecode(p, rest)
    IN  CASE at(1) \in {SP, 9} /\ i = 2 ->
                out(at(1), IF at(2) = Eof THEN 0 ELSE at(2), from(3))
          [] at(1) \in {SP, 9} /\ i > 2 -> out(at(i), 0, from(i + 1))
          [] at(1) = CR -> IF at(2) = LF THEN out(LF, 0, from(3))
                           ELSE out(LF, IF at(2) = Eof THEN 0 ELSE at(2), from(3))
          [] OTHER -> out(at(1), 0, from(2))

-----------------------------------------------------------------------------

FilterInit ==
    /\ text = <<>>
    /\ \E k \in {"base64", "base64_url", "qprint", "ascii"}, nl \in Newlines, size \in LineSizes :
          /\ k \in {"base64", "base64_url"} => size >= 4
          /\ enc = [kind |-> k, nl |-> nl, pad |-> k = "base64", cnt |-> 0, prior |-> 0,
                    out |-> <<>>, size |-> size,
                    max |-> CASE k \in {"base64", "base64_url"} -> Base64Max(nl, size)
                              [] k \in {"qprint", "ascii"} ->
                                   IF nl = "none" THEN Unlimited ELSE size]

WriteByte(b) ==
    /\ Len(text) < MaxText
    /\ text' = Append(text, b)
    /\ enc' = CASE enc.kind \in {"base64", "base64_url"} -> Base64Put(enc, b)
                [] enc.kind = "qprint" -> QprintPut(enc, b)
                [] enc.kind = "ascii" -> AsciiPut(enc, b)

FilterNext == \E b \in Bytes : WriteByte(b)

-----------------------------------------------------------------------------
(* Properties.                                                             *)

\* The length of the longest line, breaks included.
LineLengths(s, newline) ==
    LET ends == {0, Len(s)} \cup {i \in DOMAIN s : s[i] \in newline}
        lines == {<<a, b>> \in ends \X ends : a < b /\ \A c \in ends : c <= a \/ c >= b}
    IN  {x[2] - x[1] : x \in lines}

\* An encoder that writes and one that is read produce the same letters (but for
\* a CR too many before the last newline without padding), no line with its
\* newline is longer than asked for, and the decoder gives the bytes back
\* (base64_filter.hpp:74-317).
Base64RoundTrip ==
    LET out == Base64Close(enc).out
        got == Base64GetAll([enc EXCEPT !.cnt = 0, !.prior = 0, !.out = <<>>,
                                        !.max = Base64Max(enc.nl, enc.size)]
                            @@ [src |-> text, eof |-> FALSE])
        twice == enc.nl = "crln" /\ ~enc.pad /\ Len(text) % 3 = 1
    IN  enc.kind \in {"base64", "base64_url"} /\ enc.max > 0 =>
          /\ IF twice THEN got = SubSeq(out, 1, Len(out) - 1) \o <<Base64CR, Base64LF>>
                      ELSE got = out
          /\ Base64Decode(out) = text /\ Base64Decode(got) = text
          /\ enc.nl # "none" => \A n \in LineLengths(out, {IF enc.nl = "cr" THEN Base64CR ELSE Base64LF}) :
                                   n <= enc.size

WithoutCR(s) == SelectSeq(s, LAMBDA c : c # CR)

\* What RFC 2045 makes of a quoted-printable text.
Value16(c) == IF c \in 48..57 THEN c - 48 ELSE c - 55
RECURSIVE Rfc2045(_)
Rfc2045(s) ==
    CASE s = <<>> -> <<>>
      [] s # <<>> /\ Head(s) # EQ -> <<Head(s)>> \o Rfc2045(Tail(s))
      [] s # <<>> /\ Head(s) = EQ /\ s[2] \in {CR, LF} ->
            Rfc2045(SubSeq(s, IF SubSeq(s, 2, 3) = <<CR, LF>> THEN 4 ELSE 3, Len(s)))
      [] OTHER -> <<Value16(s[2]) * 16 + Value16(s[3])>> \o Rfc2045(SubSeq(s, 4, Len(s)))

\* What quoted-printable encoders write means the text without its CRs; lines
\* stay within the length asked for and an escape with its soft break; and the
\* library's own decoder reads it where no digit is a letter and no escape
\* follows a soft break (qprint_filter.hpp:31-155).
QprintRoundTrip ==
    LET out == QprintClose(enc).out
        hard == \E i \in DOMAIN out : /\ out[i] = EQ /\ i + 1 < Len(out) /\ out[i + 1] \notin {CR, LF}
                                      /\ {out[i + 1], out[i + 2]} \cap (65..70) # {}
        soft == \E i \in 3..Len(out) : out[i] = EQ /\ out[i - 1] \in {CR, LF} /\
                    (out[i - 2] = EQ \/ (i > 3 /\ out[i - 3] = EQ /\ out[i - 2] = CR))
    IN  enc.kind = "qprint" =>
          /\ Rfc2045(out) = WithoutCR(text)
          /\ hard \/ soft \/ QprintDecode(out) = WithoutCR(text)
          /\ enc.nl # "none" => \A n \in LineLengths(out, {CR, LF}) : n <= enc.size + 4

\* Texts without blanks before a newline come back from format=flowed, however
\* its lines were broken (ascii_filter.hpp:34-86).
AsciiRoundTrip ==
    enc.kind = "ascii" /\ enc.nl # "none"
      /\ (\A i \in 1..(Len(text) - 1) : text[i] \in {SP, 9} => text[i + 1] \notin {CR, LF})
    => AsciiDecode(0, enc.out) = WithoutCR(text)

\* Whatever is written through an encoder comes back through its decoder, for all
\* of the filters (base64_filter.hpp, qprint_filter.hpp, ascii_filter.hpp).
RoundTrips == Base64RoundTrip /\ QprintRoundTrip /\ AsciiRoundTrip
=============================================================================
