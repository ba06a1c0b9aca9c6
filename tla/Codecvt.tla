------------------------------ MODULE Codecvt -------------------------------
(***************************************************************************)
(* The converters between an application's streams and text in a character *)
(* set: iostreams/ostream_codecvt.hpp, iostreams/istream_codecvt.hpp, and  *)
(* the hash filter through which the text passes on its way                *)
(* (iostreams/crypto/basic_hash_filter.hpp).  "way" is "out" when text is  *)
(* written in pieces, "in" when it is read by lines, and "wide" when code  *)
(* points are read as UTF-8.  Which characters a character set has is      *)
(* abstracted: a converted character is itself.  A code point is the       *)
(* number of its bytes in UTF-8, or 0 if it is illegal.                    *)
(***************************************************************************)
EXTENDS Integers, Sequences, SequencesExt

CONSTANTS CvPieces,     \* what is written in one call
          MaxWrites,    \* how many calls
          CvTexts,      \* the texts read by lines
          WideTexts,    \* the texts read by code points
          CvReads       \* how much is read in one call

ASSUME CodecvtAssumption == MaxWrites \in Nat /\ CvReads \subseteq Nat \ {0}

VARIABLES way,
          given,        \* what has been written; the text to be read
          writes,       \* the number of calls of write()
          unread,       \* what is left of the text to be read
          kept,         \* line_
          lastChar,     \* last_
          taken,        \* what the stream buffer, or the reader, has got
          hashed,       \* what update() of the hash has been given
          asked,        \* how much was asked for in the first read
          ended         \* close(), or EOF

codecvtVars == <<way, given, writes, unread, kept, lastChar, taken, hashed, asked, ended>>

CodecvtInit ==
    /\ \/ way = "out" /\ given = <<>>
       \/ way = "in" /\ given \in CvTexts
       \/ way = "wide" /\ given \in WideTexts
    /\ unread = given
    /\ writes = 0 /\ kept = <<>> /\ lastChar = "none" /\ taken = <<>> /\ hashed = <<>>
    /\ asked = 0 /\ ended = FALSE

Smaller(m, n) == IF m < n THEN m ELSE n
Drop(s, n) == SubSeq(s, n + 1, Len(s))

-----------------------------------------------------------------------------
(* basic_ostream_locale_codecvt                                            *)

IsBreak(c) == c \in {"\r", "\n"}
BreakIn(s) == SelectInSeq(s, LAMBDA c : IsBreak(c))

\* The loop of write(): a line is converted when its break is seen, and line_
\* keeps what follows the last one.
RECURSIVE ConvertLines(_)
ConvertLines(w) ==
    LET i == BreakIn(w.rest)
        afterCR == IF w.rest[i] = "\r" THEN i + 1 ELSE i
        next == IF afterCR <= Len(w.rest) /\ w.rest[afterCR] = "\n" THEN afterCR + 1 ELSE afterCR
    IN  IF i = 0 THEN [w EXCEPT !.line = @ \o w.rest, !.rest = <<>>]
        ELSE LET v == [rest |-> Drop(w.rest, next - 1), line |-> <<>>,
                       out |-> Append(w.out \o w.line \o SubSeq(w.rest, 1, i - 1), "\n")]
             IN  IF v.rest = <<>> THEN v ELSE ConvertLines(v)

\* Mutant: the LF after a CR at the end of the last write is a second break.
MutSkipSplit(s) == s

\* The LF of a CRLF that two calls of write() share is skipped.
SkipSplit(s) == IF lastChar = "\r" /\ Head(s) = "\n" THEN Tail(s) ELSE s

\* write(), behind write() of the hash filter.
WriteConverted(s) ==
    /\ way = "out" /\ ~ended /\ writes < MaxWrites
    /\ LET w == ConvertLines([rest |-> SkipSplit(s), line |-> kept, out |-> taken]) IN
       kept' = w.line /\ taken' = w.out
    /\ lastChar' = Last(s)
    /\ hashed' = hashed \o s
    /\ given' = given \o s /\ writes' = writes + 1
    /\ UNCHANGED <<way, unread, asked, ended>>

CloseConverted ==
    /\ way = "out" /\ ~ended
    /\ ended' = TRUE
    /\ taken' = taken \o kept /\ kept' = <<>>
    /\ UNCHANGED <<way, given, writes, unread, lastChar, hashed, asked>>

-----------------------------------------------------------------------------
(* basic_istream_locale_codecvt                                            *)

\* trim_crln()
RECURSIVE TrimBreaks(_)
TrimBreaks(s) == IF s # <<>> /\ IsBreak(Last(s)) THEN TrimBreaks(Front(s)) ELSE s

\* std::getline(): how much of s is the line, with its LF.
LineSize(s) == IF "\n" \in ToSet(s) THEN SelectInSeq(s, LAMBDA c : c = "\n") ELSE Len(s)

\* The loop of read(): r.left is what the reader still wants.  A break goes before
\* the line that follows it.
RECURSIVE ReadLines(_)
ReadLines(r) ==
    IF r.left = 0 \/ r.src = <<>> THEN r
    ELSE LET n == LineSize(r.src)
             line == TrimBreaks(SubSeq(r.src, 1, n))
             buf == r.line \o line
             width == Smaller(Len(buf), r.left)
             s == IF line = <<>> THEN [r EXCEPT !.src = Drop(@, n)]
                  ELSE [r EXCEPT !.src = Drop(@, n), !.out = @ \o SubSeq(buf, 1, width),
                                 !.line = Drop(buf, width), !.left = @ - width]
         IN  ReadLines([s EXCEPT !.line = IF s.left > 0 THEN Append(@, "\n") ELSE @])

\* Before it: what line_ has kept, if it is more than one character, is erased and
\* not copied, so that the reader gets what was in its buffer.
SkipKept(n) ==
    LET width == IF Len(kept) > 1 THEN Smaller(Len(kept), n) ELSE 0 IN
    [src |-> unread, left |-> n - width, out |-> [i \in 1..width |-> "garbage"],
     line |-> IF width > 0 /\ width < n THEN Append(Drop(kept, width), "\n") ELSE Drop(kept, width)]

\* What a reader gets, through read() of the hash filter; nothing is EOF.
Got(s, n) ==
    /\ taken' = taken \o s /\ hashed' = hashed \o s
    /\ asked' = IF asked = 0 THEN n ELSE asked
    /\ ended' = (s = <<>>)

ReadConverted(n) ==
    /\ way = "in" /\ ~ended
    /\ LET r == ReadLines(SkipKept(n)) IN
       Got(r.out, n) /\ unread' = r.src /\ kept' = r.line
    /\ UNCHANGED <<way, given, writes, lastChar>>

-----------------------------------------------------------------------------
(* basic_istream_codecvt                                                   *)

\* The bytes of a code point in UTF-8.
BytesOf(cp) == [i \in 1..cp |-> <<cp, i>>]

\* The loop of read(): it ends when there is enough, and the last code point may
\* be longer than what was left.  Illegal ones are skipped.
DecodeWide(r, n) ==
    LET Text(k) == FoldLeft(LAMBDA s, cp : s \o BytesOf(cp), <<>>, SubSeq(r, 1, k))
        used == CHOOSE k \in 0..Len(r) : /\ \A j \in 0..(k - 1) : Len(Text(j)) < n
                                         /\ k = Len(r) \/ Len(Text(k)) >= n
    IN  [src |-> Drop(r, used), out |-> Text(used)]

ReadWide(n) ==
    /\ way = "wide" /\ ~ended
    /\ LET r == DecodeWide(unread, n) IN Got(r.out, n) /\ unread' = r.src
    /\ UNCHANGED <<way, given, writes, kept, lastChar>>

CodecvtNext ==
    \/ \E s \in CvPieces : WriteConverted(s)
    \/ CloseConverted
    \/ \E n \in CvReads : ReadConverted(n) \/ ReadWide(n)

-----------------------------------------------------------------------------
(* Properties.                                                             *)

\* CR, LF and CRLF each are one break.
Breaks(s) ==
    LET breaks == {i \in DOMAIN s : ~(s[i] = "\n" /\ i > 1 /\ s[i - 1] = "\r")}
        order == SelectSeq([i \in DOMAIN s |-> i], LAMBDA i : i \in breaks)
    IN  [k \in DOMAIN order |-> IF IsBreak(s[order[k]]) THEN "\n" ELSE s[order[k]]]
\* The lines of a text that LF separates, each without the CRs at its end.
ByLines(s) ==
    LET stay == {i \in DOMAIN s : \E j \in i..(Len(s) + 1) :
                    /\ j = Len(s) + 1 \/ s[j] # "\r"
                    /\ \A n \in i..(j - 1) : s[n] = "\r"
                    /\ i = j \/ (j <= Len(s) /\ s[j] # "\n")}
        order == SelectSeq([i \in DOMAIN s |-> i], LAMBDA i : i \in stay)
    IN  [k \in DOMAIN order |-> s[order[k]]]
Legal(s) == FoldLeft(LAMBDA t, cp : t \o BytesOf(cp), <<>>, s)

\* However a text is cut into writes, the same lines come out, and all of it after
\* close(); code points come in order and complete, whatever is asked for;
\* a text that is read at one go comes by lines, without
\* the breaks at its end.  The hash is that of what went through
\* (ostream_codecvt.hpp:79-116, istream_codecvt.hpp:36-56, 90-133,
\* basic_hash_filter.hpp:93-117).
TextConverted ==
    /\ way = "out" => taken \o kept = Breaks(given) /\ hashed = given
    /\ way = "wide" => /\ taken \o Legal(unread) = Legal(given)
                       /\ ended => unread = <<>>
    /\ way = "in" /\ asked >= Len(given) => IsPrefix(TrimBreaks(ByLines(given)), taken)
    /\ way # "out" => hashed = taken
=============================================================================
