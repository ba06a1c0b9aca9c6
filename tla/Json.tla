-------------------------------- MODULE Json --------------------------------
(***************************************************************************)
(* The JSON parser (iostreams/json_parser.ipp), which is fed character by  *)
(* character in writes of any size and builds its tree through json_adapt. *)
(* The parsers that are inside one another are a stack, the innermost last;*)
(* a value is a tagged tuple.  Numbers keep decimal_, exponent_ and        *)
(* fraction_ (the code divides and multiplies them in the end).            *)
(***************************************************************************)
EXTENDS Integers, Sequences, SequencesExt

CONSTANT JsonInputs     \* records: a prefix, the characters that may follow, and how many

VARIABLES source,       \* which of JsonInputs
          input,        \* the characters written
          parser        \* the parser's stack, its state and the tree

jsonVars == <<source, input, parser>>

Blank == {" ", "\t", "\r", "\n"}
Digits == {"0", "1", "8"}
DigitValue == [d \in Digits |-> CASE d = "0" -> 0 [] d = "1" -> 1 [] d = "8" -> 8]
HexDigits == Digits \cup {"d", "e", "f"}
Printable(ch) == ch \notin {"\t", "\r", "\n"}

AnyParser == [k |-> "any"]
StringParser(key) == [k |-> "str", key |-> key, escape |-> FALSE, hex |-> <<>>, text |-> <<>>]
ArrayParser == [k |-> "arr", started |-> FALSE, items |-> <<>>]
ObjectParser == [k |-> "obj", at |-> "first", key |-> <<>>, items |-> <<>>]
NumberParser(decimal, minus) ==
    [k |-> "num", n |-> "decimal", decimal |-> decimal, fraction |-> 1, exponent |-> 0, minus |-> minus]

Fail(p) == [p EXCEPT !.state = "error", !.stack = <<>>]
Become(p, q) == [p EXCEPT !.stack = Append(Front(@), q)]
Push(p, q) == [p EXCEPT !.stack = Append(@, q)]

\* complete(): the value goes to the parser around this one.  The key of an
\* object is not a value of its own.
Complete(p, v) ==
    LET rest == Front(p.stack)
        up == Last(rest)
    IN  IF rest = <<>> THEN [state |-> "done", stack |-> <<>>, tree |-> v]
        ELSE CASE up.k = "arr" ->
                    [p EXCEPT !.stack = Append(Front(rest), [up EXCEPT !.items = Append(@, v)])]
               [] up.k = "obj" /\ Last(p.stack).k = "str" /\ Last(p.stack).key ->
                    [p EXCEPT !.stack = Append(Front(rest), [up EXCEPT !.at = "colon", !.key = v[2]])]
               [] OTHER ->
                    [p EXCEPT !.stack = Append(Front(rest),
                                 [up EXCEPT !.at = "after", !.items = Append(@, <<up.key, v>>)])]

-----------------------------------------------------------------------------
(* One character for the innermost parser.  "again" says that the call     *)
(* returned false: the character is parsed once more, by the parser around.*)

Used(p) == [p |-> p, again |-> FALSE]
Again(p) == [p |-> p, again |-> TRUE]

ParseAny(p, ch) ==
    Used(CASE ch \in Blank -> p
           [] ch = "n" -> Become(p, [k |-> "lit", word |-> "null", left |-> <<"u", "l", "l">>])
           [] ch = "t" -> Become(p, [k |-> "lit", word |-> "true", left |-> <<"r", "u", "e">>])
           [] ch = "\"" -> Become(p, StringParser(FALSE))
           [] ch = "[" -> Become(p, ArrayParser)
           [] ch = "{" -> Become(p, ObjectParser)
           [] ch \in {"-", "+"} -> Become(p, NumberParser(0, ch = "-"))
           [] ch \in Digits -> Become(p, NumberParser(DigitValue[ch], FALSE))
           [] OTHER -> Fail(p))

\* A literal is complete at the character after it.
ParseLiteral(p, q, ch) ==
    CASE q.left = <<>> -> Again(Complete(p, <<"lit", q.word>>))
      [] q.left # <<>> /\ ch = Head(q.left) -> Used(Become(p, [q EXCEPT !.left = Tail(@)]))
      [] OTHER -> Used(Fail(p))

Signed(q, n) == IF q.minus THEN -n ELSE n
NumberValue(decimal, exponent, fraction) == <<"num", decimal, exponent, fraction>>

\* Mutant: the sign of the exponent is not reset.
MutParseExp(q, ch) ==
    [q EXCEPT !.n = "exponent", !.exponent = IF ch \in Digits THEN DigitValue[ch] ELSE 0,
              !.minus = @ \/ ch = "-"]

\* The first character of the exponent.
ParseExp(q, ch) ==
    [q EXCEPT !.n = "exponent", !.exponent = IF ch \in Digits THEN DigitValue[ch] ELSE 0,
              !.minus = ch = "-"]

ParseNumber(p, q, ch) ==
    LET mantissa == q.n \in {"decimal", "fraction"}
    IN  CASE mantissa /\ ch = "e" ->
               Used(Become(p, [q EXCEPT !.n = "exp", !.decimal = Signed(q, @)]))
          [] q.n = "decimal" /\ ch = "." -> Used(Become(p, [q EXCEPT !.n = "fraction"]))
          [] mantissa /\ ch \in Digits ->
               Used(Become(p, [q EXCEPT !.decimal = @ * 10 + DigitValue[ch],
                                        !.fraction = IF q.n = "fraction" THEN @ * 10 ELSE @]))
          [] q.n = "exp" /\ ch \in Digits \cup {"+", "-"} -> Used(Become(p, ParseExp(q, ch)))
          [] q.n = "exponent" /\ ch \in Digits ->
               Used(Become(p, [q EXCEPT !.exponent = @ * 10 + DigitValue[ch]]))
          [] mantissa /\ ch \notin Digits \cup {"e"} /\ ~(q.n = "decimal" /\ ch = ".") ->
               Again(Complete(p, NumberValue(Signed(q, q.decimal), 0, q.fraction)))
          [] q.n = "exponent" /\ ch \notin Digits ->
               Again(Complete(p, NumberValue(q.decimal, Signed(q, q.exponent), q.fraction)))
          [] OTHER -> Used(Fail(p))

\* unescape(): a half of a surrogate pair is no code point and adds nothing.
Unescape4(hex) == IF hex[1] = "d" /\ hex[2] \in {"8", "d", "e", "f"} THEN <<>> ELSE <<hex>>

\* hex_ holds the 'u' of an escape and the digits after it.
ParseString(p, q, ch) ==
    LET escaped == [q EXCEPT !.escape = FALSE]
        hex == Append(q.hex, ch)
    IN  CASE q.escape /\ q.hex = <<>> ->
               CASE ch \in {"\"", "\\", "/", "b", "f", "n", "r", "t"} ->
                      Used(Become(p, [escaped EXCEPT !.text = Append(@, <<"\\", ch>>)]))
                 [] ch = "u" -> Used(Become(p, [q EXCEPT !.hex = <<"u">>]))
                 [] OTHER -> Used(Fail(p))
          [] q.escape /\ q.hex # <<>> /\ ch \in HexDigits ->
               Used(Become(p, IF Len(hex) < 5 THEN [q EXCEPT !.hex = hex]
                              ELSE [escaped EXCEPT !.text = @ \o Unescape4(Tail(hex)), !.hex = <<>>]))
          [] ~q.escape /\ ch = "\"" -> Used(Complete(p, <<"str", q.text>>))
          [] ~q.escape /\ ch = "\\" -> Used(Become(p, [q EXCEPT !.escape = TRUE, !.hex = <<>>]))
          [] ~q.escape /\ ch \notin {"\"", "\\"} /\ Printable(ch) ->
               Used(Become(p, [q EXCEPT !.text = Append(@, ch)]))
          [] OTHER -> Used(Fail(p))

\* The first character after '[' that is not ']' starts an element, be it a blank.
ParseArray(p, q, ch) ==
    CASE ch = "]" -> Used(Complete(p, <<"arr", q.items>>))
      [] ch # "]" /\ ~q.started -> Again(Push(Become(p, [q EXCEPT !.started = TRUE]), AnyParser))
      [] q.started /\ ch = "," -> Used(Push(p, AnyParser))
      [] q.started /\ ch \in Blank -> Used(p)
      [] OTHER -> Used(Fail(p))

ParseObject(p, q, ch) ==
    CASE q.at \in {"after", "first"} /\ ch = "}" -> Used(Complete(p, <<"obj", q.items>>))
      [] q.at = "after" /\ ch = "," -> Used(Become(p, [q EXCEPT !.at = "key"]))
      [] q.at \in {"first", "key"} /\ ch = "\"" -> Used(Push(p, StringParser(TRUE)))
      [] q.at = "colon" /\ ch = ":" -> Used(Push(Become(p, [q EXCEPT !.at = "value"]), AnyParser))
      [] ch \in Blank -> Used(p)
      [] OTHER -> Used(Fail(p))

Parse1(p, ch) ==
    LET q == Last(p.stack)
    IN  CASE q.k = "any" -> ParseAny(p, ch)
          [] q.k = "lit" -> ParseLiteral(p, q, ch)
          [] q.k = "num" -> ParseNumber(p, q, ch)
          [] q.k = "str" -> ParseString(p, q, ch)
          [] q.k = "arr" -> ParseArray(p, q, ch)
          [] q.k = "obj" -> ParseObject(p, q, ch)

\* write(), for one character of it: as long as the parsers return false, the
\* character is parsed again.  Nothing is parsed after the end of the value;
\* after an exception the stream is bad.
RECURSIVE Feed(_, _)
Feed(p, ch) ==
    IF p.state # "busy" THEN p
    ELSE LET r == Parse1(p, ch) IN IF r.again THEN Feed(r.p, ch) ELSE r.p

JsonInit ==
    /\ source \in JsonInputs
    /\ input = source.prefix
    /\ parser = FoldLeft(Feed, [state |-> "busy", stack |-> <<AnyParser>>, tree |-> <<>>], input)

WriteChar(ch) ==
    /\ Len(input) < source.max
    /\ input' = Append(input, ch)
    /\ parser' = Feed(parser, ch)
    /\ UNCHANGED source

JsonNext == \E ch \in source.chars : WriteChar(ch)

-----------------------------------------------------------------------------
(* The language: the pairs of a value at position i of s and the position  *)
(* after it.  Numbers may lack digits ("-", "1.") and have leading zeros   *)
(* and a '+'; an empty array has no blanks inside.                         *)

CharAt(s, i) == IF i \in DOMAIN s THEN s[i] ELSE "end"
Four(s, i) == [k \in 1..4 |-> CharAt(s, i + k - 1)]
RECURSIVE SkipBlanks(_, _), SkipDigits(_, _), TextAt(_, _), ValueAt(_, _), ElementsAt(_, _), MembersAt(_, _)
SkipBlanks(s, i) == IF CharAt(s, i) \in Blank THEN SkipBlanks(s, i + 1) ELSE i
SkipDigits(s, i) == IF CharAt(s, i) \in Digits THEN SkipDigits(s, i + 1) ELSE i
NatAt(s, i, j) == FoldLeft(LAMBDA n, d : IF d = "." THEN n ELSE n * 10 + DigitValue[d], 0, SubSeq(s, i, j - 1))

NumberAt(s, i) ==
    LET a == IF CharAt(s, i) \in {"-", "+"} THEN i + 1 ELSE i
        dot == SkipDigits(s, a)
        b == IF CharAt(s, dot) = "." THEN SkipDigits(s, dot + 1) ELSE dot
        hasExp == CharAt(s, b) = "e" /\ CharAt(s, b + 1) \in Digits \cup {"+", "-"}
        x == IF CharAt(s, b + 1) \in {"+", "-"} THEN b + 2 ELSE b + 1
        c == IF hasExp THEN SkipDigits(s, x) ELSE b
        sign(j, n) == IF CharAt(s, j) = "-" THEN -n ELSE n
    IN  IF CharAt(s, b) = "e" /\ ~hasExp THEN {}
        ELSE {<<<<"num", sign(i, NatAt(s, a, b)), IF hasExp THEN sign(b + 1, NatAt(s, x, c)) ELSE 0,
                 10 ^ (IF b > dot THEN b - dot - 1 ELSE 0)>>, c>>}

\* The rest of a string, after its first quotation mark.
TextAt(s, i) ==
    LET more(piece, j) == {<<piece \o r[1], r[2]>> : r \in TextAt(s, j)}
        hex == Four(s, i + 2)
    IN  CASE CharAt(s, i) = "\"" -> {<< <<>>, i + 1>>}
          [] CharAt(s, i) = "\\" ->
               CASE CharAt(s, i + 1) = "u" ->
                      IF ToSet(hex) \subseteq HexDigits
                      THEN more(Unescape4(hex), i + 6) ELSE {}
                 [] CharAt(s, i + 1) \in {"\"", "\\", "/", "b", "f", "n", "r", "t"} ->
                      more(<< <<"\\", CharAt(s, i + 1)>> >>, i + 2)
                 [] OTHER -> {}
          [] CharAt(s, i) \notin {"\"", "\\", "end"} /\ Printable(CharAt(s, i)) -> more(<<CharAt(s, i)>>, i + 1)
          [] OTHER -> {}

ElementsAt(s, i) ==
    UNION {LET j == SkipBlanks(s, r[2]) IN
           CASE CharAt(s, j) = "]" -> {<< <<r[1]>>, j + 1>>}
             [] CharAt(s, j) = "," -> {<< <<r[1]>> \o t[1], t[2]>> : t \in ElementsAt(s, j + 1)}
             [] OTHER -> {} : r \in ValueAt(s, i)}

MembersAt(s, i) ==
    LET k == SkipBlanks(s, i)
        keys == IF CharAt(s, k) = "\"" THEN TextAt(s, k + 1) ELSE {}
        colon(t) == SkipBlanks(s, t[2])
        pairs == UNION {{<< <<t[1], r[1]>>, SkipBlanks(s, r[2])>> : r \in ValueAt(s, colon(t) + 1)} :
                          t \in {u \in keys : CharAt(s, colon(u)) = ":"}}
    IN  UNION {CASE CharAt(s, r[2]) = "}" -> {<< <<r[1]>>, r[2] + 1>>}
                 [] CharAt(s, r[2]) = "," -> {<< <<r[1]>> \o t[1], t[2]>> : t \in MembersAt(s, r[2] + 1)}
                 [] OTHER -> {} : r \in pairs}

ValueAt(s, j) ==
    LET i == SkipBlanks(s, j)
        tagged(tag, rs) == {<< <<tag, r[1]>>, r[2]>> : r \in rs}
    IN  CASE CharAt(s, i) = "\"" -> tagged("str", TextAt(s, i + 1))
          [] CharAt(s, i) = "[" -> IF CharAt(s, i + 1) = "]" THEN {<< <<"arr", <<>> >>, i + 2>>}
                               ELSE tagged("arr", ElementsAt(s, i + 1))
          [] CharAt(s, i) = "{" -> IF CharAt(s, SkipBlanks(s, i + 1)) = "}"
                               THEN {<< <<"obj", <<>> >>, SkipBlanks(s, i + 1) + 1>>}
                               ELSE tagged("obj", MembersAt(s, i + 1))
          [] CharAt(s, i) \in Digits \cup {"-", "+"} -> NumberAt(s, i)
          [] Four(s, i) = <<"n", "u", "l", "l">> -> {<< <<"lit", "null">>, i + 4>>}
          [] Four(s, i) = <<"t", "r", "u", "e">> -> {<< <<"lit", "true">>, i + 4>>}
          [] OTHER -> {}

-----------------------------------------------------------------------------
(* Properties.                                                             *)

\* The parser stops with a tree exactly when the characters so far begin with a
\* string, array or object, and the tree is that value: it neither stops early,
\* nor refuses or misreads a value, however its parsers hand characters to one
\* another.  A number or literal at the root ends at the character after it
\* (json_parser.ipp:25-491).
ParsesTheLanguage ==
    LET start == SkipBlanks(input, 1)
        values == ValueAt(input, 1)
    IN  IF CharAt(input, start) \in {"[", "{", "\""}
        THEN IF values = {} THEN parser.state # "done"
             ELSE parser.state = "done" /\ {v[1] : v \in values} = {parser.tree}
        ELSE parser.state = "done" => \E v \in values : v[1] = parser.tree /\ v[2] <= Len(input)
=============================================================================
