------------------------------- MODULE Email -------------------------------
(***************************************************************************)
(* The e-mail parser (email/email_parser.ipp) and the generator            *)
(* (email/email_generator.ipp).  In mode "parse" an application writes     *)
(* pieces of text to the parser; in mode "pipe" a message is generated,    *)
(* read in amounts of any size and written to a parser.                    *)
(*                                                                         *)
(* Text is a sequence of characters; "M" stands for the characters of a    *)
(* Content-Type header with boundary X, and "--X" for those of a boundary. *)
(* The transfer encodings, which are filters of their own, and character   *)
(* sets are left out.  Subparts are never made by the parser: it looks for *)
(* the closing boundary of the parent where it should look for the opening *)
(* boundary of a child, and only subparts have a parent.                   *)
(***************************************************************************)
EXTENDS Integers, Sequences, SequencesExt

CONSTANTS Pieces,       \* what is written to the parser in one call
          MaxPieces,    \* bound on the calls
          Messages,     \* the messages that are generated
          ReadSizes     \* how much is read of them in one call

VARIABLES mode,         \* "parse" or "pipe"
          written,      \* all that was written to the parser
          pieces,       \* in how many calls
          mail,         \* the parser
          gen,          \* the generator
          message       \* the message generated

emailVars == <<mode, written, pieces, mail, gen, message>>

Blanks == {" "}

-----------------------------------------------------------------------------
(* The parser.                                                             *)

NewParser == [at |-> "header", name |-> <<>>, params |-> <<>>, headers |-> <<>>, child |-> FALSE,
              body |-> <<>>, inProgress |-> TRUE, line |-> <<>>, last |-> "none"]

Position(s, c) == CHOOSE i \in DOMAIN s : s[i] \in c /\ \A j \in 1..(i - 1) : s[j] \notin c
RECURSIVE SkipBlank(_)
SkipBlank(s) == IF s # <<>> /\ Head(s) \in Blanks THEN SkipBlank(Tail(s)) ELSE s

\* headers[name] += value: a header that is there already grows.
AddHeader(hs, name, value) ==
    IF \E i \in DOMAIN hs : hs[i][1] = name
    THEN [i \in DOMAIN hs |-> IF hs[i][1] = name THEN <<name, hs[i][2] \o value>> ELSE hs[i]]
    ELSE Append(hs, <<name, value>>)

\* append()
AppendHeader(p) ==
    IF p.name # <<>> /\ p.params # <<>>
    THEN [p EXCEPT !.headers = AddHeader(@, p.name, p.params)] ELSE p

\* get_encoding_params(): the boundary is that of Content-Type; to_payload().
HasBoundary(hs) == \E i \in DOMAIN hs : hs[i][1] = <<"M">>
ToPayload(p) == [p EXCEPT !.at = "payload", !.child = HasBoundary(p.headers)]

\* A header's value grows by a folded line.
AddLine(p, rest) == [p EXCEPT !.params = IF @ = <<>> THEN rest ELSE Append(@, " ") \o rest]

HasColon(line) == \E i \in DOMAIN line : line[i] \in {":", "M"}
HeaderName(line) == IF line[Position(line, {":", "M"})] = "M" THEN <<"M">>
                    ELSE SubSeq(line, 1, Position(line, {":", "M"}) - 1)
HeaderValue(line) == LET i == Position(line, {":", "M"}) IN
                     IF line[i] = "M" THEN <<"X">>
                     ELSE SkipBlank(SubSeq(line, i + 1, Len(line)))

\* complete(); payload_parser.
CompleteMessage(p) == [p EXCEPT !.inProgress = FALSE, !.at = "header"]
ParsePayload(p, line) ==
    IF line = <<".">> \/ (p.child /\ line = <<"--X">>)
    THEN CompleteMessage(p)
    ELSE [p EXCEPT !.body = @ \o line]

\* header_parser.  A line that is no header is body; the header before it has
\* not been added to the message yet and is lost.
ParseHeader(p, line) ==
    CASE line = <<>> -> ToPayload(AppendHeader(p))
      [] line = <<".">> -> ParsePayload(ToPayload(AppendHeader(p)), line)
      [] line \notin {<<>>, <<".">>} /\ Head(line) \notin Blanks /\ ~HasColon(line) ->
            ParsePayload(ToPayload(p), line)
      [] line \notin {<<>>, <<".">>} /\ Head(line) \notin Blanks /\ HasColon(line) ->
            AddLine([AppendHeader(p) EXCEPT !.name = HeaderName(line), !.params = <<>>],
                    HeaderValue(line))
      [] OTHER -> AddLine(p, SkipBlank(Tail(line)))

ParseLine(p, line) == IF p.at = "header" THEN ParseHeader(p, line) ELSE ParsePayload(p, line)

\* The loop of write() over the lines that end in s.  line_ keeps the rest.
RECURSIVE WriteLines(_, _)
WriteLines(p, s) ==
    IF \A i \in DOMAIN s : s[i] \notin {"\r", "\n"} THEN [p EXCEPT !.line = @ \o s]
    ELSE LET i == Position(s, {"\r", "\n"})
             q == [ParseLine(p, p.line \o SubSeq(s, 1, i - 1)) EXCEPT !.line = <<>>]
             j == IF s[i] = "\r" /\ i < Len(s) /\ s[i + 1] = "\n" THEN i + 2 ELSE i + 1
         IN  IF j > Len(s) \/ ~q.inProgress THEN q ELSE WriteLines(q, SubSeq(s, j, Len(s)))

\* Mutant: the newline that was split between two writes counts twice.
MutWrite(p, s) == IF ~p.inProgress \/ s = <<>> THEN p
                  ELSE WriteLines([p EXCEPT !.last = Last(s)], s)

\* write(): the LF of a CRLF that was split between two writes is skipped.  After
\* the end of the message write() returns EOF.
Write(p, s) ==
    IF ~p.inProgress \/ s = <<>> THEN p
    ELSE WriteLines([p EXCEPT !.last = Last(s)], IF p.last = "\r" /\ Head(s) = "\n" THEN Tail(s) ELSE s)

-----------------------------------------------------------------------------
(* The generator.  Its frames are the message and the subpart under way.   *)

Frame(m) == [m |-> m, at |-> "header", i |-> 1, rest |-> m.body, good |-> TRUE, part |-> 1]
NewGenerator(m) == [frames |-> <<Frame(m)>>, buf |-> <<>>, eof |-> FALSE]
Terminator == <<"\r", "\n", ".", "\r", "\n">>

\* encode_mimeheader() for a value that needs neither encoding nor folding.
HeaderLine(h) == IF h[1] = <<"M">> THEN <<"M">> ELSE h[1] \o <<":", " ">> \o h[2]

\* getline(), without its newline; read() of what is left.
UpToLine(s) == IF "\n" \in ToSet(s) THEN Position(s, {"\n"}) ELSE Len(s) + 1

\* One call of generate(): what it writes is added to buf_, frames is the stack
\* after it.
Wrote(g, s, frames) == [g EXCEPT !.buf = @ \o s, !.frames = frames]

\* The last frame of g becomes f; payload and complete() of a frame.
WithFrame(g, f) == Append(Front(g.frames), f)
PayloadFrame(f) == [f EXCEPT !.at = "payload"]
CompleteFrame(g) == Front(g.frames)

GenerateHeader(g, f) ==
    IF f.i > Len(f.m.headers) THEN Wrote(g, <<"\r", "\n">>, WithFrame(g, PayloadFrame(f)))
    ELSE Wrote(g, HeaderLine(f.m.headers[f.i]) \o <<"\r", "\n">>, WithFrame(g, [f EXCEPT !.i = @ + 1]))

\* A line of a text, or the whole of another body.
GenerateBody(g, f) ==
    LET n == IF f.m.text THEN UpToLine(f.rest) ELSE Len(f.rest) + 1 IN
    Wrote(g, SubSeq(f.rest, 1, n - 1),
          WithFrame(g, [f EXCEPT !.rest = SubSeq(@, n + 1, Len(@)), !.good = n <= Len(f.rest)]))

\* The subparts are given no boundary and end like the message.
GenerateParts(g, f) ==
    IF f.part > Len(f.m.parts) \/ ~HasBoundary(f.m.headers) THEN Wrote(g, Terminator, CompleteFrame(g))
    ELSE Wrote(g, <<"--X", "\n", "\n">>,
               Append(WithFrame(g, [f EXCEPT !.part = @ + 1]), Frame(f.m.parts[f.part])))

Generate(g) ==
    LET f == Last(g.frames)
        spent == [f EXCEPT !.good = FALSE]
    IN  CASE f.at = "header" -> GenerateHeader(g, f)
          [] f.at = "payload" /\ f.good /\ f.rest # <<>> -> GenerateBody(g, f)
          [] OTHER -> GenerateParts([g EXCEPT !.frames = WithFrame(g, spent)], spent)

\* read(): the characters and the generator after it.  The loop ends with the
\* message, whether buf_ is empty or not.
RECURSIVE Read(_, _, _)
Read(g, size, got) ==
    IF g.frames = <<>> \/ size = 0 THEN [g |-> g, got |-> got]
    ELSE LET h == IF g.buf = <<>> THEN Generate(g) ELSE g
             n == IF Len(h.buf) < size THEN Len(h.buf) ELSE size
         IN  Read([h EXCEPT !.buf = SubSeq(@, n + 1, Len(@))], size - n, got \o SubSeq(h.buf, 1, n))

-----------------------------------------------------------------------------

EmailInit ==
    /\ mode \in {"parse", "pipe"}
    /\ written = <<>> /\ pieces = 0 /\ mail = NewParser
    /\ message \in IF mode = "pipe" THEN Messages ELSE {CHOOSE m \in Messages : TRUE}
    /\ gen = NewGenerator(message)

WritePiece(s) ==
    /\ mode = "parse" /\ pieces < MaxPieces /\ mail.inProgress
    /\ written' = written \o s /\ pieces' = pieces + 1
    /\ mail' = Write(mail, s)
    /\ UNCHANGED <<mode, gen, message>>

\* The generator's read() and the parser's write(); EOF once the message is over.
Pump(size) ==
    LET r == Read(gen, size, <<>>) IN
    /\ mode = "pipe" /\ ~gen.eof
    /\ IF gen.frames = <<>>
       THEN gen' = [gen EXCEPT !.eof = TRUE] /\ UNCHANGED <<written, mail>>
       ELSE /\ gen' = r.g
            /\ written' = IF mail.inProgress THEN written \o r.got ELSE written
            /\ mail' = Write(mail, r.got)
    /\ UNCHANGED <<mode, pieces, message>>

EmailNext == (\E s \in Pieces : WritePiece(s)) \/ (\E n \in ReadSizes : Pump(n))

-----------------------------------------------------------------------------
(* Properties.                                                             *)

\* The lines of s that have ended, for CRLF, CR and LF alike.
RECURSIVE LinesOf(_)
LinesOf(s) ==
    IF \A i \in DOMAIN s : s[i] \notin {"\r", "\n"} THEN <<>>
    ELSE LET i == Position(s, {"\r", "\n"})
             j == IF s[i] = "\r" /\ i < Len(s) /\ s[i + 1] = "\n" THEN i + 2 ELSE i + 1
         IN  << SubSeq(s, 1, i - 1) >> \o LinesOf(SubSeq(s, j, Len(s)))

EndsHeader(line) == line \in {<<>>, <<".">>} \/ (Head(line) \notin Blanks /\ ~HasColon(line))

\* The value of the field that begins at line i, with the lines folded into it.
RECURSIVE Unfolded(_, _, _)
Unfolded(ls, i, value) ==
    IF i > Len(ls) \/ (ls[i] # <<>> /\ Head(ls[i]) \notin Blanks) THEN value
    ELSE Unfolded(ls, i + 1, (IF value = <<>> THEN <<>> ELSE Append(value, " ")) \o SkipBlank(ls[i]))

\* However the text is cut into writes, the parser has seen its lines: the
\* headers it has are the fields of the lines above the first one that ends them,
\* unfolded, in order and with those of the same name run together, but for the
\* last field when no empty line or "." follows it; the lines below are the body
\* up to "." or a boundary (email_parser.ipp:39-90, 173-203, 292-329).
ParsedByLines ==
    LET ls == LinesOf(written)
        ends == {i \in DOMAIN ls : EndsHeader(ls[i])}
        n == IF ends = {} THEN Len(ls) ELSE (CHOOSE i \in ends : \A j \in ends : i <= j) - 1
        hs == SubSeq(ls, 1, n)
        starts == {i \in 1..n : Head(hs[i]) \notin Blanks}
        known == IF n < Len(ls) /\ ls[n + 1] \in {<<>>, <<".">>} THEN starts
                 ELSE {i \in starts : \E j \in starts : i < j}
        fields == [i \in 1..n |-> <<HeaderName(hs[i]), Unfolded(hs, i + 1, HeaderValue(hs[i]))>>]
        add(acc, i) == IF i \in known /\ fields[i][1] # <<>> /\ fields[i][2] # <<>>
                       THEN AddHeader(acc, fields[i][1], fields[i][2]) ELSE acc
        headers == FoldLeft(add, <<>>, [i \in 1..n |-> i])
        multipart == HasBoundary(headers)
        body == SubSeq(ls, IF n < Len(ls) /\ ls[n + 1] = <<>> THEN n + 2 ELSE n + 1, Len(ls))
        stops == {i \in DOMAIN body : body[i] = <<".">> \/ (multipart /\ body[i] = <<"--X">>)}
        stop == IF stops = {} THEN Len(body) + 1 ELSE CHOOSE i \in stops : \A j \in stops : i <= j
    IN  /\ mail.headers = headers
        /\ mail.inProgress = (stops = {})
        /\ mail.body = FlattenSeq(SubSeq(body, 1, stop - 1))

WithoutNewlines(s) == SelectSeq(s, LAMBDA c : c \notin {"\r", "\n"})

\* A message of one part without "." comes back from the generator through the
\* parser, but for its newlines, whatever amounts it is read in; at most the tail
\* of the line that ends it is not read, when the last read() was too small
\* (email_generator.ipp:136-168, 251-270).
ReadBack ==
    mode = "pipe" /\ gen.eof /\ message.parts = <<>> /\ "." \notin ToSet(message.body) =>
        /\ gen.buf = <<>> => ~mail.inProgress
        /\ Len(gen.buf) < Len(Terminator)
        /\ mail.headers = FoldLeft(LAMBDA hs, h : AddHeader(hs, h[1], IF h[1] = <<"M">> THEN <<"X">> ELSE h[2]),
                                   <<>>, message.headers)
        /\ mail.body = WithoutNewlines(message.body)

\* Neither how a message is cut on its way into the parser nor how it is read from
\* the generator changes it (email_parser.ipp:292-329, email_generator.ipp:248-270).
MailKept == ParsedByLines /\ ReadBack
=============================================================================
