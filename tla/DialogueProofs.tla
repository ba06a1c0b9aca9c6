--------------------------- MODULE DialogueProofs ---------------------------
(***************************************************************************)
(* The two dialogues that are proved about, each by itself.                *)
(*                                                                         *)
(* First smtp::client: it reads each reply as the answer to the command it *)
(* sent last and keeps the password, for every number of calls and every   *)
(* length of an answer to EHLO, until another reply has several lines.     *)
(*                                                                         *)
(* Then the proxy: it passes on what it is sent and all of it, for every   *)
(* request and every response that is framed as its header says, however   *)
(* the reads cut them.                                                     *)
(***************************************************************************)
EXTENDS SmtpClient, HttpProxy, SequenceLemmas

-----------------------------------------------------------------------------
(***************************************************************************)
(* The SMTP client: the inductive invariant.                               *)
(***************************************************************************)
Commands == {"greeting", "HELO", "MAIL", "RCPT", "AUTH PLAIN", "CONTENT", "EHLO", "STARTTLS",
             "AUTH CRAM-MD5", "RESPONSE", "DATA", "QUIT"}
Waits == {"idle", "simple", "data", "quit", "ehlo", "starttls", "cram1", "cram2"}
Lines == [cmd : Commands, code : Codes, more : BOOLEAN, feature : Features \cup {"none"}]

SmtpTypes ==
    /\ flags \in [starttls : BOOLEAN, plaintext : BOOLEAN, style : {"throw", "code"}]
    /\ link \in {"down", "up", "over"}
    /\ tls \in BOOLEAN /\ useTls \in BOOLEAN /\ matched \in BOOLEAN
    /\ auth \subseteq Features
    /\ awaiting \in Waits
    /\ asked = <<>> \/ \E c \in Commands : asked = <<c>>
    /\ lines \in Seq(Lines)
    /\ offered \subseteq Features \cup {"none"}
    /\ leaked \subseteq [tls : BOOLEAN, offered : BOOLEAN]

\* Lines s are what is left of one answer to command c: the last one ends it,
\* and, in step, only an answer to EHLO has more than one.
RestOfAnswer(s, c) ==
    /\ s # <<>>
    /\ \A i \in 1..Len(s) : s[i].cmd = c /\ (s[i].more <=> i < Len(s))
    /\ \A i \in 1..Len(s) : s[i].more => s[i].code # "garbled"
    /\ c # "EHLO" => Len(s) = 1

\* While a method waits, either its last command is still to be answered or the
\* lines not read yet are the rest of the answer to it; otherwise nothing is
\* under way.
Dialogue ==
    /\ link = "down" => awaiting = "idle" /\ offered = {}
    /\ link # "over" /\ awaiting = "idle" => lines = <<>> /\ asked = <<>>
    /\ link = "up" /\ awaiting # "idle" =>
          \/ lines = <<>> /\ \E c \in LastSent : asked = <<c>>
          \/ asked = <<>> /\ \E c \in LastSent : RestOfAnswer(lines, c)

\* STARTTLS has been offered, it may be used and the connection is in the clear.
TlsDue == flags.starttls /\ "STARTTLS" \in offered /\ ~tls

\* Then ehlo() has not returned: it knows about STARTTLS, is about to read the
\* line that offers it, or waits for the answer to STARTTLS.
TlsFirst ==
    link = "up" /\ TlsDue =>
       \/ awaiting = "starttls"
       \/ /\ awaiting = "ehlo"
          /\ useTls \/ \E i \in 1..Len(lines) : lines[i].feature = "STARTTLS"

\* A client in step.
Steady == SmtpTypes /\ ~strayed /\ matched /\ Dialogue /\ TlsFirst /\ PasswordKept

\* It is in step until it strays; a client without the flag never sends the password.
SmtpInv == (strayed \/ Steady) /\ (leaked # {} => flags.plaintext)

-----------------------------------------------------------------------------
(* The answers of a server.                                                *)

\* A reply is a sequence of lines of which the last one ends it.
LEMMA ReplyIs ==
    ASSUME NEW cmd \in Commands, NEW n \in 1..MaxReplyLines, NEW a \in Replies(cmd, n),
           cmd # "EHLO" => n = 1
    PROVE  /\ a \in Seq(Lines) /\ Len(a) = n
           /\ RestOfAnswer(a, cmd)
           /\ cmd # "EHLO" => \A i \in 1..n : a[i].feature = "none"
<1>1. n \in Nat /\ n >= 1
  BY SmtpAssumption DEF SmtpAssumption
<1> DEFINE F == [1..n -> IF cmd = "EHLO" THEN Features \cup {"none"} ELSE {"none"}]
           C == IF n = 1 THEN Answers(cmd) ELSE Answers(cmd) \ {"garbled"}
<1>2. PICK c \in C, f \in F : a = [i \in 1..n |-> Line(cmd, c, i < n, IF c = "ok" THEN f[i] ELSE "none")]
  BY DEF Replies
<1>3. c \in Codes /\ (n # 1 => c # "garbled")
  BY <1>2 DEF Answers, Codes, Commands
<1>4. \A i \in 1..n : /\ f[i] \in Features \cup {"none"}
                      /\ cmd # "EHLO" => f[i] = "none"
  BY <1>2
<1> HIDE DEF F, C
<1>5. \A i \in 1..n : /\ a[i] \in Lines /\ a[i].cmd = cmd /\ a[i].code = c /\ (a[i].more <=> i < n)
                      /\ cmd # "EHLO" => a[i].feature = "none"
  <2> SUFFICES ASSUME NEW i \in 1..n
               PROVE  /\ a[i] \in Lines /\ a[i].cmd = cmd /\ a[i].code = c /\ (a[i].more <=> i < n)
                      /\ cmd # "EHLO" => a[i].feature = "none"
    OBVIOUS
  <2> DEFINE g == IF c = "ok" THEN f[i] ELSE "none"
             m == i < n
  <2>1. g \in Features \cup {"none"} /\ (cmd # "EHLO" => g = "none")
    BY <1>4
  <2>2. m \in BOOLEAN /\ (m <=> i < n)
    BY <1>1
  <2>3. a[i] = [cmd |-> cmd, code |-> c, more |-> m, feature |-> g]
    BY <1>2 DEF Line
  <2> HIDE DEF g, m
  <2>4. a[i] \in Lines
    BY <1>3, <2>1, <2>2, <2>3 DEF Lines
  <2>5. a[i].cmd = cmd /\ a[i].code = c /\ a[i].more = m /\ a[i].feature = g
    BY <2>3
  <2> QED
    BY <2>1, <2>2, <2>4, <2>5
<1>6. a \in Seq(Lines) /\ Len(a) = n
  BY <1>1, <1>2, <1>5
<1>7. a # <<>>
  BY <1>1, <1>6
<1> QED
  BY <1>1, <1>3, <1>5, <1>6, <1>7 DEF RestOfAnswer

\* The line read first belongs to the answer; it is the last one of the answer
\* unless it says that more follow, which only happens after EHLO.
LEMMA FirstLine ==
    ASSUME NEW s \in Seq(Lines), NEW c \in Commands, RestOfAnswer(s, c)
    PROVE  /\ Head(s) \in Lines /\ Head(s).cmd = c /\ Tail(s) \in Seq(Lines)
           /\ ~Head(s).more => Tail(s) = <<>>
           /\ Head(s).more => c = "EHLO" /\ RestOfAnswer(Tail(s), c)
           /\ Head(s).more => Head(s).code # "garbled"
           /\ \A i \in 1..Len(s) : \/ s[i] = Head(s)
                                   \/ \E j \in 1..Len(Tail(s)) : Tail(s)[j] = s[i]
<1>1. s # <<>> /\ Len(s) \in Nat /\ Len(s) >= 1
  BY DEF RestOfAnswer
<1>2. Head(s) = s[1] /\ 1 \in 1..Len(s) /\ Head(s) \in Lines
  BY <1>1
<1>3. /\ Tail(s) \in Seq(Lines) /\ Len(Tail(s)) = Len(s) - 1
      /\ \A i \in 1..Len(Tail(s)) : Tail(s)[i] = s[i + 1]
  BY <1>1
<1>4. Head(s).cmd = c /\ (Head(s).more <=> 1 < Len(s))
  BY <1>2 DEF RestOfAnswer
<1>5. ~Head(s).more => Tail(s) = <<>>
  BY <1>1, <1>3, <1>4
<1>6. Head(s).more => c = "EHLO" /\ RestOfAnswer(Tail(s), c)
  <2> SUFFICES ASSUME Head(s).more PROVE c = "EHLO" /\ RestOfAnswer(Tail(s), c)
    OBVIOUS
  <2>1. Len(s) > 1 /\ Len(Tail(s)) # 0
    BY <1>1, <1>3, <1>4
  <2>0. Tail(s) # <<>>
    BY <1>3, <2>1
  <2>2. c = "EHLO"
    BY <2>1 DEF RestOfAnswer
  <2>3. \A i \in 1..Len(Tail(s)) :
           /\ Tail(s)[i].cmd = c
           /\ Tail(s)[i].more <=> i < Len(Tail(s))
           /\ Tail(s)[i].more => Tail(s)[i].code # "garbled"
    BY <1>1, <1>3, <2>2 DEF RestOfAnswer
  <2> QED
    BY <2>0, <2>1, <2>2, <2>3 DEF RestOfAnswer
<1>7. Head(s).more => Head(s).code # "garbled"
  BY <1>2 DEF RestOfAnswer
<1>8. ASSUME NEW i \in 1..Len(s)
      PROVE  s[i] = Head(s) \/ \E j \in 1..Len(Tail(s)) : Tail(s)[j] = s[i]
  <2>1. CASE i = 1
    BY <1>2, <2>1
  <2>2. CASE i # 1
    <3>1. i - 1 \in 1..Len(Tail(s)) /\ Tail(s)[i - 1] = s[i]
      BY <1>1, <1>3, <2>2
    <3> QED
      BY <3>1
  <2> QED
    BY <2>1, <2>2
<1> QED
  BY <1>2, <1>3, <1>4, <1>5, <1>6, <1>7, <1>8
-----------------------------------------------------------------------------
(* The invariant.                                                          *)

\* A client that has been constructed has sent and read nothing.
LEMMA InitSteady == SmtpInit => Steady
<1> SUFFICES ASSUME SmtpInit PROVE Steady
  OBVIOUS
<1>1. SmtpTypes
  <2>1. <<>> \in Seq(Lines)
    OBVIOUS
  <2>2. link \in {"down", "up", "over"} /\ awaiting \in Waits /\ asked = <<>>
    BY DEF SmtpInit, Waits
  <2>3. tls \in BOOLEAN /\ useTls \in BOOLEAN /\ matched \in BOOLEAN
    BY DEF SmtpInit
  <2> QED
    BY <2>1, <2>2, <2>3 DEF SmtpInit, SmtpTypes
<1>2. Dialogue /\ TlsFirst /\ PasswordKept
  BY DEF SmtpInit, Dialogue, TlsFirst, PasswordKept
<1> QED
  BY <1>1, <1>2 DEF Steady, SmtpInit

\* What a method has sent last is one command; only ehlo() waits for EHLO.
LEMMA SentForFacts ==
    ASSUME NEW w \in Waits \ {"idle"}
    PROVE  /\ SentFor[w] \subseteq Commands
           /\ "EHLO" \in SentFor[w] <=> w = "ehlo"
<1>1. CASE w = "simple"
  BY <1>1 DEF SentFor, Commands
<1>2. CASE w = "data"
  BY <1>2 DEF SentFor, Commands
<1>3. CASE w = "quit"
  BY <1>3 DEF SentFor, Commands
<1>4. CASE w = "ehlo"
  BY <1>4 DEF SentFor, Commands
<1>5. CASE w = "starttls"
  BY <1>5 DEF SentFor, Commands
<1>6. CASE w = "cram1"
  BY <1>6 DEF SentFor, Commands
<1>7. CASE w = "cram2"
  BY <1>7 DEF SentFor, Commands
<1> QED
  BY <1>1, <1>2, <1>3, <1>4, <1>5, <1>6, <1>7 DEF Waits

\* The server's answer is the answer to the last command sent.
LEMMA ServerAnswersSteady == Steady /\ ServerAnswers => strayed' \/ Steady'
<1> SUFFICES ASSUME Steady, ServerAnswers, ~strayed' PROVE Steady'
  OBVIOUS
<1> USE DEF Steady, SmtpTypes
<1>1. /\ link = "up" /\ asked # <<>> /\ asked' = Tail(asked) /\ link' = "up"
      /\ UNCHANGED <<flags, tls, auth, awaiting, useTls, matched, leaked>>
  BY DEF ServerAnswers
<1>2. awaiting # "idle" /\ lines = <<>> /\ \E c \in LastSent : asked = <<c>>
  BY <1>1 DEF Dialogue
<1>3. PICK c \in LastSent : asked = <<c>>
  BY <1>2
<1>4. LastSent \subseteq Commands /\ Head(asked) = c /\ asked' = <<>>
  BY <1>1, <1>2, <1>3, SentForFacts DEF LastSent
<1>5a. PICK n \in 1..MaxReplyLines : \E a \in Replies(c, n) :
        /\ lines' = lines \o a
        /\ offered' = offered \cup {a[i].feature : i \in 1..n}
        /\ c # "EHLO" => ~(n > 1)
  BY <1>4 DEF ServerAnswers
<1>5. PICK a \in Replies(c, n) :
        /\ lines' = lines \o a
        /\ offered' = offered \cup {a[i].feature : i \in 1..n}
        /\ c # "EHLO" => ~(n > 1)
  BY <1>5a
<1>6. c # "EHLO" => n = 1
  BY <1>5, SmtpAssumption DEF SmtpAssumption
<1>7. /\ a \in Seq(Lines) /\ Len(a) = n /\ RestOfAnswer(a, c)
      /\ c # "EHLO" => \A i \in 1..n : a[i].feature = "none"
  BY <1>3, <1>4, <1>6, ReplyIs
<1>8. lines' = a
  BY <1>2, <1>5, <1>7
<1>9. LastSent' = LastSent /\ PasswordKept'
  BY <1>1 DEF LastSent, PasswordKept
<1>10. SmtpTypes'
  <2>1. \A i \in 1..n : a[i].feature \in Features \cup {"none"}
    <3> SUFFICES ASSUME NEW i \in 1..n PROVE a[i].feature \in Features \cup {"none"}
      OBVIOUS
    <3>1. a[i] \in Lines
      BY <1>7
    <3> QED
      BY <3>1 DEF Lines
  <2> QED
    BY <1>1, <1>4, <1>5, <1>7, <1>8, <2>1
<1>11. Dialogue'
  BY <1>1, <1>2, <1>3, <1>4, <1>7, <1>8, <1>9 DEF Dialogue
<1>12. TlsFirst'
  <2> SUFFICES ASSUME TlsDue' PROVE TlsFirst'
    BY DEF TlsFirst
  <2>1. CASE c # "EHLO"
    <3>1. TlsDue
      BY <1>1, <1>5, <1>7, <2>1 DEF TlsDue
    <3>2. awaiting # "ehlo"
      <4> SUFFICES ASSUME awaiting = "ehlo" PROVE FALSE
        OBVIOUS
      <4>1. LastSent = {"EHLO"}
        BY DEF LastSent, SentFor
      <4> QED
        BY <1>3, <2>1, <4>1
    <3> QED
      BY <1>1, <3>1, <3>2 DEF TlsFirst
  <2>2. CASE c = "EHLO"
    <3>1. awaiting = "ehlo"
      BY <1>2, <1>3, <2>2, SentForFacts DEF LastSent
    <3>2. CASE TlsDue
      BY <1>1, <1>2, <3>1, <3>2 DEF TlsFirst
    <3>3. CASE "STARTTLS" \notin offered
      <4>1. \E i \in 1..n : a[i].feature = "STARTTLS"
        BY <1>1, <1>5, <3>3 DEF TlsDue
      <4> QED
        BY <1>1, <1>7, <1>8, <3>1, <4>1 DEF TlsFirst
    <3> QED
      BY <1>1, <3>2, <3>3 DEF TlsDue
  <2> QED
    BY <2>1, <2>2
<1> QED
  BY <1>1, <1>9, <1>10, <1>11, <1>12

\* A password sent when TLS is not due is sent as the flags allow.
LEMMA PasswordSent ==
    ASSUME Steady, ~TlsDue, MayPlain, AuthPlain, UNCHANGED <<flags, strayed>>
    PROVE  /\ PasswordKept'
           /\ leaked' \subseteq [tls : BOOLEAN, offered : BOOLEAN]
<1> USE DEF Steady, SmtpTypes
<1> DEFINE way == [tls |-> tls, offered |-> "STARTTLS" \in offered]
<1>1. way \in [tls : BOOLEAN, offered : BOOLEAN]
  OBVIOUS
<1>2. leaked' = leaked \cup {way} /\ flags.plaintext /\ flags' = flags
  BY DEF AuthPlain, MayPlain
<1>3. flags.starttls => way # [tls |-> FALSE, offered |-> TRUE]
  BY DEF TlsDue
<1> HIDE DEF way
<1> QED
  BY <1>1, <1>2, <1>3 DEF PasswordKept

\* A method begins when nothing is under way, and login() sends the password
\* only outside of what TlsFirst excludes.
LEMMA CallSteady == Steady /\ (ConnectSmtp \/ Command \/ Ehlo \/ Login) => Steady'
<1> SUFFICES ASSUME Steady, ConnectSmtp \/ Command \/ Ehlo \/ Login PROVE Steady'
  OBVIOUS
<1> USE DEF Steady, SmtpTypes
<1>0. /\ link # "over" /\ awaiting = "idle" /\ lines = <<>> /\ asked = <<>>
      /\ UNCHANGED <<flags, tls, auth, lines, matched, offered, strayed>>
  BY DEF ConnectSmtp, Command, Ehlo, Login, Ready, Dialogue
<1>1. /\ link # "over" /\ awaiting = "idle" /\ lines = <<>> /\ asked = <<>>
      /\ UNCHANGED <<flags, tls, auth, lines, matched, offered, strayed>>
      /\ \A c \in Commands : Append(asked, c) = <<c>>
  BY <1>0
<1>2. link = "up" => ~TlsDue
  BY <1>1 DEF TlsFirst
<1>3. CASE ConnectSmtp
  <2>1. CASE link' = "up" /\ Ask("greeting", "simple")
    <3>1. asked' = <<"greeting">> /\ awaiting' = "simple" /\ LastSent' = SentFor.simple
      BY <1>1, <2>1 DEF Ask, LastSent, SentFor, Commands
    <3>2. SmtpTypes'
      BY <1>1, <1>3, <2>1, <3>1 DEF ConnectSmtp, Commands, Waits
    <3>3. Dialogue'
      BY <1>1, <2>1, <3>1 DEF Dialogue, SentFor
    <3>4. TlsFirst' /\ PasswordKept'
      BY <1>1, <1>3 DEF ConnectSmtp, Dialogue, TlsFirst, TlsDue, PasswordKept
    <3> QED
      BY <1>1, <3>2, <3>3, <3>4
  <2>2. CASE Return("0", TRUE)
    <3>1. link' = "over" /\ awaiting' = "idle" /\ asked' = asked
      BY <2>2 DEF Return
    <3> QED
      BY <1>1, <1>3, <3>1 DEF ConnectSmtp, Dialogue, TlsFirst, PasswordKept, Waits
  <2> QED
    BY <1>3, <2>1, <2>2 DEF ConnectSmtp
<1>4. CASE Command
  <2>1. link = "up" /\ ~TlsDue
    BY <1>1, <1>2, <1>4 DEF Command, Ready
  <2>2. link' = "up" /\ UNCHANGED <<useTls, leaked>>
    BY <1>4, <2>1 DEF Command
  <2>3. PICK cmd \in Commands :
           /\ asked' = <<cmd>>
           /\ \/ cmd \in {"HELO", "MAIL", "RCPT"} /\ awaiting' = "simple"
              \/ cmd = "DATA" /\ awaiting' = "data"
              \/ cmd = "QUIT" /\ awaiting' = "quit"
    <3>1. PICK p \in {<<"HELO", "simple">>, <<"MAIL", "simple">>, <<"RCPT", "simple">>,
                      <<"DATA", "data">>, <<"QUIT", "quit">>} : Ask(p[1], p[2])
      BY <1>4 DEF Command
    <3>2. \/ p[1] \in {"HELO", "MAIL", "RCPT"} /\ p[2] = "simple"
          \/ p[1] = "DATA" /\ p[2] = "data"
          \/ p[1] = "QUIT" /\ p[2] = "quit"
      OBVIOUS
    <3>3. p[1] \in Commands
      BY <3>2 DEF Commands
    <3>4. asked' = <<p[1]>> /\ awaiting' = p[2]
      BY <1>1, <3>1, <3>3 DEF Ask
    <3> QED
      BY <3>2, <3>3, <3>4
  <2>4. cmd \in LastSent' /\ awaiting' \in Waits
    <3>1. CASE awaiting' = "simple"
      BY <2>3, <3>1 DEF LastSent, SentFor, Waits
    <3>2. CASE awaiting' = "data"
      BY <2>3, <3>2 DEF LastSent, SentFor, Waits
    <3>3. CASE awaiting' = "quit"
      BY <2>3, <3>3 DEF LastSent, SentFor, Waits
    <3> QED
      BY <2>3, <3>1, <3>2, <3>3
  <2> QED
    BY <1>1, <2>1, <2>2, <2>3, <2>4 DEF Dialogue, TlsFirst, TlsDue, PasswordKept
<1>5. CASE Ehlo
  <2>1. link = "up" /\ ~TlsDue
    BY <1>1, <1>2, <1>5 DEF Ehlo, Ready
  <2>2. /\ link' = "up" /\ UNCHANGED leaked /\ useTls' = FALSE
        /\ asked' = <<"EHLO">> /\ awaiting' = "ehlo"
    BY <1>1, <1>5, <2>1 DEF Ehlo, Ask, Commands
  <2>3. "EHLO" \in LastSent' /\ awaiting' \in Waits /\ "EHLO" \in Commands
    BY <2>2 DEF LastSent, SentFor, Waits, Commands
  <2> QED
    BY <1>1, <2>1, <2>2, <2>3 DEF Dialogue, TlsFirst, TlsDue, PasswordKept
<1>6. CASE Login
  <2>1. link = "up" /\ ~TlsDue /\ UNCHANGED useTls
    BY <1>1, <1>2, <1>6 DEF Login, Ready
  <2>2. CASE /\ Ask("AUTH CRAM-MD5", "cram1")
             /\ UNCHANGED <<leaked, result, link>>
    <3>1. asked' = <<"AUTH CRAM-MD5">> /\ awaiting' = "cram1"
      BY <1>1, <2>2 DEF Ask, Commands
    <3>2. "AUTH CRAM-MD5" \in LastSent' /\ awaiting' \in Waits /\ "AUTH CRAM-MD5" \in Commands
      BY <3>1 DEF LastSent, SentFor, Waits, Commands
    <3> QED
      BY <1>1, <2>1, <2>2, <3>1, <3>2 DEF Dialogue, TlsFirst, TlsDue, PasswordKept
  <2>3. CASE MayPlain /\ AuthPlain /\ UNCHANGED <<result, link>>
    <3>1. asked' = <<"AUTH PLAIN">> /\ awaiting' = "simple"
      BY <1>1, <2>3 DEF AuthPlain, Ask, Commands
    <3>2. "AUTH PLAIN" \in LastSent' /\ awaiting' \in Waits /\ "AUTH PLAIN" \in Commands
      BY <3>1 DEF LastSent, SentFor, Waits, Commands
    <3>3. PasswordKept' /\ leaked' \subseteq [tls : BOOLEAN, offered : BOOLEAN]
      BY <1>1, <2>1, <2>3, PasswordSent
    <3> QED
      BY <1>1, <2>1, <2>3, <3>1, <3>2, <3>3 DEF Dialogue, TlsFirst, TlsDue
  <2>4. CASE Return("0", FALSE) /\ UNCHANGED leaked
    <3>1. link' = link /\ awaiting' = "idle" /\ asked' = asked
      BY <2>4 DEF Return
    <3> QED
      BY <1>1, <2>1, <2>4, <3>1 DEF Dialogue, TlsFirst, TlsDue, PasswordKept
  <2> QED
    BY <1>6, <2>2, <2>3, <2>4 DEF Login
<1> QED
  BY <1>3, <1>4, <1>5, <1>6

\* After the last line of an answer nothing is left: a method may return, and
\* one that sends its next command waits for the answer to that one.
LEMMA SteadyOnLastLine ==
    ASSUME Steady, link = "up", UNCHANGED <<flags, offered, strayed>>, matched',
           lines' \in Seq(Lines), lines' = <<>> \/ link' = "over",
           asked = <<>>, tls' \in BOOLEAN, useTls' \in BOOLEAN, auth' \subseteq Features,
           leaked' \subseteq [tls : BOOLEAN, offered : BOOLEAN], PasswordKept',
           \/ link' = "over" /\ awaiting' = "idle" /\ asked' = asked
           \/ link' = "up" /\ awaiting' = "idle" /\ asked' = asked /\ ~TlsDue'
           \/ /\ link' = "up" /\ awaiting' \in Waits \ {"idle"}
              /\ \E c \in LastSent' : asked' = <<c>>
              /\ ~TlsDue' \/ awaiting' = "starttls"
    PROVE  Steady'
<1> USE DEF Steady, SmtpTypes
<1>1. awaiting' \in Waits /\ (asked' = <<>> \/ \E c \in Commands : asked' = <<c>>)
  <2>1. CASE awaiting' = "idle"
    BY <2>1 DEF Waits
  <2>2. CASE awaiting' # "idle"
    <3>1. LastSent' \subseteq Commands
      BY <2>2, SentForFacts DEF LastSent
    <3> QED
      BY <2>2, <3>1
  <2> QED
    BY <2>1, <2>2
<1>2. SmtpTypes'
  BY <1>1
<1>3. Dialogue'
  BY DEF Dialogue
<1>4. TlsFirst'
  BY DEF TlsFirst
<1> QED
  BY <1>2, <1>3, <1>4

\* Every line is read as part of the answer it belongs to.
LEMMA ReceiveSteady == Steady /\ Receive => Steady'
<1> SUFFICES ASSUME Steady, Receive PROVE Steady'
  OBVIOUS
<1> USE DEF Steady
<1> DEFINE l == Head(lines)
<1>1. /\ link = "up" /\ awaiting \in Waits \ {"idle"} /\ lines # <<>>
      /\ lines' = Tail(lines) /\ UNCHANGED <<flags, offered, strayed>>
  BY DEF Receive, SmtpTypes
<1>2a. asked = <<>> /\ \E c \in LastSent : RestOfAnswer(lines, c)
  BY <1>1 DEF Dialogue
<1>2. /\ asked = <<>> /\ \E c \in LastSent : RestOfAnswer(lines, c)
      /\ \A x \in Commands : Append(asked, x) = <<x>>
  BY <1>2a
<1>3. PICK c \in LastSent : RestOfAnswer(lines, c)
  BY <1>2
<1>4. c \in Commands /\ (c = "EHLO" => awaiting = "ehlo")
  BY <1>1, <1>3, SentForFacts DEF LastSent
<1>5. /\ l \in Lines /\ l.cmd = c /\ lines' \in Seq(Lines)
      /\ ~l.more => lines' = <<>>
      /\ l.more => c = "EHLO" /\ RestOfAnswer(lines', c)
      /\ l.more => l.code # "garbled"
      /\ \A i \in 1..Len(lines) : \/ lines[i] = l
                                  \/ \E j \in 1..Len(lines') : lines'[j] = lines[i]
  BY <1>1, <1>3, <1>4, FirstLine DEF SmtpTypes
<1>6. matched'
  BY <1>3, <1>5 DEF Receive
<1>7. CASE awaiting = "ehlo"
  <2>1. ReceiveEhlo(l)
    BY <1>7 DEF Receive
  <2>2. c = "EHLO"
    BY <1>3, <1>7 DEF LastSent, SentFor
  <2>3. l.feature \in Features \cup {"none"} /\ l.more \in BOOLEAN /\ l.code \in Codes
    BY <1>5 DEF Lines
  <2> DEFINE thrown == IsError(l.code) /\ flags.style = "throw"
             known == l.code # "garbled" /\ ~thrown
  <2>4. /\ auth' \subseteq Features /\ UNCHANGED <<tls, leaked>>
        /\ useTls' = (useTls \/ (known /\ l.feature = "STARTTLS" /\ ~tls /\ flags.starttls))
    BY <2>1, <2>3 DEF ReceiveEhlo, SmtpTypes
  <2>5. /\ useTls' \in BOOLEAN /\ PasswordKept' /\ tls' \in BOOLEAN
        /\ leaked' \subseteq [tls : BOOLEAN, offered : BOOLEAN]
    BY <1>1, <2>4 DEF SmtpTypes, PasswordKept
  \* The line that offers STARTTLS is this one or one still to be read.
  <2>6. known /\ TlsDue' => useTls' \/ \E j \in 1..Len(lines') : lines'[j].feature = "STARTTLS"
    <3> SUFFICES ASSUME known, TlsDue'
                 PROVE  useTls' \/ \E j \in 1..Len(lines') : lines'[j].feature = "STARTTLS"
      OBVIOUS
    <3>1. TlsDue /\ ~tls /\ flags.starttls
      BY <1>1, <2>4 DEF TlsDue
    <3>2. useTls \/ \E i \in 1..Len(lines) : lines[i].feature = "STARTTLS"
      BY <1>1, <1>7, <3>1 DEF TlsFirst
    <3> QED
      BY <1>5, <2>4, <3>1, <3>2
  <2>7. CASE known /\ l.more
    <3>1. UNCHANGED <<awaiting, asked, link>>
      BY <2>1, <2>7 DEF ReceiveEhlo
    <3>2. SmtpTypes'
      BY <1>1, <1>5, <1>6, <2>4, <2>5, <3>1 DEF SmtpTypes
    <3>3. Dialogue'
      BY <1>1, <1>2, <1>3, <1>5, <2>7, <3>1 DEF Dialogue, LastSent
    <3>4. TlsFirst'
      BY <1>7, <2>6, <2>7, <3>1 DEF TlsFirst
    <3> QED
      BY <1>1, <1>6, <2>5, <3>2, <3>3, <3>4
  <2>8. CASE ~(known /\ l.more) /\ useTls' /\ ~thrown
    <3>1. asked' = <<"STARTTLS">> /\ awaiting' = "starttls" /\ link' = link
      BY <1>2, <2>1, <2>8 DEF ReceiveEhlo, Ask, Commands
    <3>2. "STARTTLS" \in LastSent' /\ awaiting' \in Waits \ {"idle"}
      BY <3>1 DEF LastSent, SentFor, Waits
    <3>3. lines' = <<>>
      BY <1>5, <2>3, <2>8
    <3> QED
      BY <1>1, <1>2, <1>5, <1>6, <2>4, <2>5, <3>1, <3>2, <3>3, SteadyOnLastLine
  <2>9. CASE ~(known /\ l.more) /\ (~useTls' \/ thrown)
    <3>1. Return(Value(l.code), IsError(l.code))
      BY <2>1, <2>9 DEF ReceiveEhlo
    <3>2. awaiting' = "idle" /\ asked' = asked /\ link' \in {"up", "over"}
      BY <1>1, <3>1 DEF Return
    <3>3. link' = "up" => known
      BY <3>1 DEF Return, Value, IsError
    <3>4. link' = "up" => lines' = <<>> /\ ~TlsDue'
      BY <1>5, <2>3, <2>6, <2>9, <3>3
    <3> QED
      BY <1>1, <1>2, <1>5, <1>6, <2>4, <2>5, <3>2, <3>4, SteadyOnLastLine
  <2> QED
    BY <2>7, <2>8, <2>9
<1>8. CASE awaiting # "ehlo"
  <2>1. lines' = <<>> /\ lines' \in Seq(Lines)
    BY <1>4, <1>5, <1>8
  <2>2. /\ tls \in BOOLEAN /\ useTls \in BOOLEAN /\ auth \subseteq Features
        /\ leaked \subseteq [tls : BOOLEAN, offered : BOOLEAN]
    BY DEF SmtpTypes
  <2>3. CASE awaiting = "starttls"
    <3>1. ReceiveStartTls(l) /\ UNCHANGED <<auth, leaked>>
      BY <2>3 DEF Receive, ReceiveStartTls
    <3>2. PasswordKept'
      BY <1>1, <3>1 DEF PasswordKept
    <3>3. CASE /\ l.code = "garbled" \/ (l.code = "refused" /\ flags.style = "throw")
               /\ Return(Value(l.code), TRUE)
               /\ UNCHANGED <<tls, useTls>>
      <4>1. link' = "over" /\ awaiting' = "idle" /\ asked' = asked
        BY <3>3 DEF Return, Value
      <4> QED
        BY <1>1, <1>2, <1>6, <2>1, <2>2, <3>1, <3>2, <3>3, <4>1, SteadyOnLastLine
    <3>4. CASE /\ tls' = TRUE
               /\ \/ Return(l.code, FALSE) /\ UNCHANGED useTls
                  \/ Ask("EHLO", "ehlo") /\ useTls' = FALSE /\ UNCHANGED <<link, result>>
      <4>1. \/ awaiting' = "idle" /\ asked' = asked /\ link' = link
            \/ asked' = <<"EHLO">> /\ awaiting' = "ehlo" /\ link' = link
        BY <1>1, <1>2, <3>4 DEF Ask, Return, Commands
      <4>2. awaiting' = "ehlo" => "EHLO" \in LastSent' /\ awaiting' \in Waits \ {"idle"}
        <5> SUFFICES ASSUME awaiting' = "ehlo"
                     PROVE  "EHLO" \in LastSent' /\ awaiting' \in Waits \ {"idle"}
          OBVIOUS
        <5> QED
          BY DEF LastSent, SentFor, Waits
      <4>3. ~TlsDue'
        BY <3>4 DEF TlsDue
      <4> QED
        BY <1>1, <1>2, <1>6, <2>1, <2>2, <3>1, <3>2, <3>4, <4>1, <4>2, <4>3, SteadyOnLastLine
    <3>5. CASE Return("0", TRUE) /\ UNCHANGED <<tls, useTls>>
      <4>1. link' = "over" /\ awaiting' = "idle" /\ asked' = asked
        BY <3>5 DEF Return
      <4> QED
        BY <1>1, <1>2, <1>6, <2>1, <2>2, <3>1, <3>2, <3>5, <4>1, SteadyOnLastLine
    <3> QED
      BY <3>1, <3>3, <3>4, <3>5 DEF ReceiveStartTls
  <2>4. CASE awaiting # "starttls"
    <3>1. ~TlsDue
      BY <1>1, <1>8, <2>4 DEF TlsFirst
    <3>2. UNCHANGED <<tls, auth, useTls>>
      BY <1>8, <2>4 DEF Receive, ReceiveCram, ReceiveData, ReceiveQuit, ReceiveSimple
    <3>3. ~TlsDue'
      BY <1>1, <3>1, <3>2 DEF TlsDue
    <3>4. CASE /\ awaiting' = "idle" /\ asked' = asked /\ link' \in {"up", "over"}
               /\ leaked' = leaked
      <4>1. PasswordKept'
        BY <1>1, <3>4 DEF PasswordKept
      <4> QED
        BY <1>1, <1>2, <1>6, <2>1, <2>2, <3>2, <3>3, <3>4, <4>1, SteadyOnLastLine
    <3>5. CASE /\ \/ Ask("RESPONSE", "cram2")
                  \/ Ask("CONTENT", "simple")
               /\ UNCHANGED <<link, leaked>>
      <4>1. PasswordKept'
        BY <1>1, <3>5 DEF PasswordKept
      <4>2. awaiting' \in Waits \ {"idle"} /\ \E x \in LastSent' : asked' = <<x>>
        <5>1. CASE Ask("RESPONSE", "cram2")
          BY <1>2, <5>1 DEF Ask, LastSent, SentFor, Waits, Commands
        <5>2. CASE Ask("CONTENT", "simple")
          BY <1>2, <5>2 DEF Ask, LastSent, SentFor, Waits, Commands
        <5> QED
          BY <3>5, <5>1, <5>2
      <4> QED
        BY <1>1, <1>2, <1>6, <2>1, <2>2, <3>2, <3>3, <3>5, <4>1, <4>2, SteadyOnLastLine
    <3>6. CASE MayPlain /\ AuthPlain /\ link' = link
      <4>1. PasswordKept' /\ leaked' \subseteq [tls : BOOLEAN, offered : BOOLEAN]
        BY <1>1, <3>1, <3>6, PasswordSent
      <4>2. awaiting' \in Waits \ {"idle"} /\ \E x \in LastSent' : asked' = <<x>>
        BY <1>2, <3>6 DEF AuthPlain, Ask, LastSent, SentFor, Waits, Commands
      <4> QED
        BY <1>1, <1>2, <1>6, <2>1, <2>2, <3>2, <3>3, <3>6, <4>1, <4>2, SteadyOnLastLine
    <3>7. \/ /\ awaiting' = "idle" /\ asked' = asked /\ link' \in {"up", "over"}
             /\ leaked' = leaked
          \/ /\ \/ Ask("RESPONSE", "cram2")
                \/ Ask("CONTENT", "simple")
             /\ UNCHANGED <<link, leaked>>
          \/ MayPlain /\ AuthPlain /\ link' = link
      <4>1. CASE ReceiveCram(l)
        BY <1>1, <4>1 DEF ReceiveCram, Return
      <4>2. CASE ReceiveData(l)
        BY <1>1, <4>2 DEF ReceiveData, Return
      <4>3. CASE ReceiveQuit(l)
        BY <1>1, <4>3 DEF ReceiveQuit, Return
      <4>4. CASE ReceiveSimple(l)
        BY <1>1, <4>4 DEF ReceiveSimple, Return
      <4> QED
        BY <1>8, <2>4, <4>1, <4>2, <4>3, <4>4 DEF Receive
    <3> QED
      BY <3>4, <3>5, <3>6, <3>7
  <2> QED
    BY <2>3, <2>4
<1> QED
  BY <1>7, <1>8

\* A connection that is lost ends the dialogue.
LEMMA LostSteady == Steady /\ ConnectionLost => Steady'
<1> SUFFICES ASSUME Steady, ConnectionLost PROVE Steady'
  OBVIOUS
<1>1. link' = "over" /\ awaiting' = "idle" /\ asked' = asked
  BY DEF ConnectionLost, Return
<1>2. UNCHANGED <<flags, tls, auth, lines, useTls, matched, offered, leaked, strayed>>
  BY DEF ConnectionLost
<1> QED
  BY <1>1, <1>2 DEF Steady, SmtpTypes, Waits, Dialogue, TlsFirst, PasswordKept

\* Every step of the client and of the server keeps the invariant.
LEMMA NextSteady == Steady /\ [SmtpNext]_smtpVars => strayed' \/ Steady'
<1> SUFFICES ASSUME Steady, [SmtpNext]_smtpVars PROVE strayed' \/ Steady'
  OBVIOUS
<1>1. CASE SmtpNext
  BY <1>1, ServerAnswersSteady, CallSteady, ReceiveSteady, LostSteady DEF SmtpNext
<1>2. CASE UNCHANGED smtpVars
  BY <1>2 DEF smtpVars, Steady, SmtpTypes, Dialogue, LastSent, TlsFirst, TlsDue, PasswordKept
<1> QED
  BY <1>1, <1>2

\* In step or not, login() looks at the flag before it sends the password.
LEMMA OnlyIfAllowed ==
    ASSUME [SmtpNext]_smtpVars
    PROVE  flags' = flags /\ (leaked' = leaked \/ flags.plaintext) /\ (strayed => strayed')
<1>0. CASE ServerAnswers
  <2>1. flags' = flags /\ leaked' = leaked
    BY <1>0 DEF ServerAnswers
  <2>2. \E n \in 1..MaxReplyLines : strayed' = (strayed \/ (Head(asked) # "EHLO" /\ n > 1))
    BY <1>0 DEF ServerAnswers
  <2> QED
    BY <2>1, <2>2
<1>1. CASE ConnectSmtp \/ Command \/ Ehlo \/ ConnectionLost \/ UNCHANGED smtpVars
  <2>1. UNCHANGED <<flags, leaked, strayed>>
    BY <1>1 DEF ConnectSmtp, Command, Ehlo, ConnectionLost, smtpVars
  <2> QED
    BY <2>1
<1>2. CASE Login
  BY <1>2 DEF Login, MayPlain
<1>3. CASE Receive
  <2>1. flags' = flags /\ strayed' = strayed
    BY <1>3 DEF Receive
  <2>2. leaked' = leaked \/ flags.plaintext
    <3> DEFINE l == Head(lines)
    <3>1. CASE ReceiveCram(l)
      BY <3>1 DEF ReceiveCram, MayPlain
    <3>2. CASE ReceiveEhlo(l) \/ ReceiveStartTls(l)
      BY <3>2 DEF ReceiveEhlo, ReceiveStartTls
    <3>3. CASE ReceiveData(l) \/ ReceiveQuit(l) \/ ReceiveSimple(l)
      BY <3>3 DEF ReceiveData, ReceiveQuit, ReceiveSimple
    <3> QED
      BY <1>3, <3>1, <3>2, <3>3 DEF Receive
  <2> QED
    BY <2>1, <2>2
<1> QED
  BY <1>0, <1>1, <1>2, <1>3 DEF SmtpNext

-----------------------------------------------------------------------------
\* The invariant holds for ever.
THEOREM SmtpInvariant == SmtpSpec => []SmtpInv
<1>1. SmtpInit => SmtpInv
  BY InitSteady DEF SmtpInv, SmtpInit
<1>2. SmtpInv /\ [SmtpNext]_smtpVars => SmtpInv'
  BY NextSteady, OnlyIfAllowed DEF SmtpInv
<1> QED
  BY <1>1, <1>2, PTL DEF SmtpSpec

\* smtp::client never takes the answer to one command for the answer to another,
\* and no method returns with a line of its answer unread, whatever the server
\* offers, refuses or garbles, as long as only answers to EHLO have several lines.
THEOREM SmtpInStep == SmtpSpec => []InStep
<1>1. SmtpInv => InStep
  BY DEF SmtpInv, Steady, InStep, Dialogue
<1> QED
  BY <1>1, SmtpInvariant, PTL

\* The password is never sent in the clear against the flags, in step or not, and
\* in step never before TLS once the server has offered STARTTLS to a client that
\* may use it.
THEOREM SmtpPasswordKept == SmtpSpec => []PasswordKept
<1>1. SmtpInv => PasswordKept
  BY DEF SmtpInv, Steady, PasswordKept
<1> QED
  BY <1>1, SmtpInvariant, PTL

-----------------------------------------------------------------------------
(***************************************************************************)
(* The proxy: the inductive invariant.                                     *)
(***************************************************************************)
\* What the peers have to say, and the tokens it is made of.
Script(p) == sent[p] \o toSend[p]
Tokens == UNION {ToSet(s) : s \in Requests \cup Responses}

BodyOps == {"readLength", "writeBody", "chunk1", "chunk2", "chunk3", "chunk4"}
Ops == {"connect", "readRequest", "writeRequest", "readResponse", "writeResponse", "unknown",
        "ended"} \cup BodyOps

ProxyTypes ==
  /\ at \in Ops /\ dir \in Peers
  /\ match \in [searched : Nat, left : Nat]
  /\ header = <<header[1], header[2]>> /\ header[2] \in Nat
  /\ length \in Nat
  /\ buf \in [Peers -> Seq(Tokens)] /\ net \in [Peers -> Seq(Tokens)]
  /\ toSend \in [Peers -> Seq(Tokens)] /\ sent \in [Peers -> Seq(Tokens)]
  /\ got \in [Peers -> Seq(Tokens)]
  /\ dummy \in {"off", "pending", "done"}
  /\ aborted \subseteq {"main", "dummy"} /\ closed \subseteq Peers

\* The two halves of an exchange.
InRequest == at \in {"connect", "readRequest", "writeRequest"} \/ (at \in BodyOps /\ dir = "browser")
InResponse == at \in {"readResponse", "writeResponse", "unknown"}
                \/ (at \in BodyOps /\ dir = "origin")

\* What was received, what waits to be written, what was read and what was not.
Chain(g, b, c, n) == ((g \o b) \o c) \o n

RequestInv ==
  /\ Chain(got["origin"], buf["origin"], buf["browser"], net["browser"]) = sent["browser"]
  /\ got["browser"] = <<>> /\ net["origin"] = sent["origin"]
  /\ dummy = "off"
  /\ at \in {"connect", "readRequest"} => got["origin"] = <<>>
  /\ at \notin Writes => buf["origin"] = <<>>

\* The browser's bytes that the origin will never see.
Short == Len(got["origin"]) < Len(Script("browser"))

\* How far the response has been passed on.
Moved == Len(got["browser"]) + Len(buf["browser"])
IsSize(i) == i \in 1..Len(Script("origin")) /\ Script("origin")[i][1] = "size"

PlaceInv ==
  LET s == Script("origin") IN
  /\ at # "readResponse" => header = <<s[1][2], s[1][3]>>
  /\ at \in {"writeResponse", "readLength"} => Moved = 1
  /\ at = "readLength" => header[1] # "chunked" /\ header[2] > 0
  /\ at = "writeBody" /\ dummy = "off" =>
       IF header[1] = "chunked" THEN IsSize(Moved) /\ s[Moved][2] = 0
       ELSE Moved = header[2] + 1 /\ header[2] > 0
  /\ at \in {"chunk1", "chunk4"} => header[1] = "chunked" /\ IsSize(Moved + 1)
  /\ at \in {"chunk2", "chunk3"} =>
       /\ header[1] = "chunked" /\ IsSize(Moved)
       /\ s[Moved][2] > 0 /\ length = s[Moved][2] + 2
  /\ at = "unknown" => dummy # "off" /\ dir = "origin"
  /\ dummy # "off" => /\ at \in {"unknown", "writeBody"} /\ header = <<"unknown", 0>>

ResponseInv ==
  /\ Chain(got["browser"], buf["browser"], buf["origin"], net["origin"]) = sent["origin"]
  /\ at = "readResponse" => got["browser"] = <<>>
  /\ at \notin Writes => buf["browser"] = <<>>
  /\ dummy = "done" => Short \/ "browser" \in closed

\* What the end of a session was about.
Outcome ==
  \/ "browser" \in closed \/ Short
  \/ "origin" \in closed /\ toSend["origin"] # <<>>
  \/ Header("bad", 0) \in ToSet(sent["origin"])
  \/ got["browser"] = Whole(Script("origin"))

\* The size of a read, and how much of it match_buffer_size has seen.
MatchInv ==
  /\ at \in {"readLength", "chunk3"} => match.searched <= Len(buf[dir])
  /\ at = "readLength" => match.searched + match.left = header[2] /\ header[2] > 0
  /\ at \in {"chunk2", "chunk3"} => length > 0
  /\ at = "chunk3" => match.searched + match.left = length

StreamInv ==
  /\ Script("browser") \in Requests /\ Script("origin") \in Responses
  /\ Forwarded
  /\ Len(got["origin"]) + Len(net["browser"]) <= Len(sent["browser"])

AbortInv ==
  /\ "main" \in aborted => dummy = "done" /\ at # "ended"
  /\ "dummy" \in aborted => at = "ended"

ProxyInv ==
  /\ ProxyTypes /\ StreamInv /\ MatchInv /\ AbortInv
  /\ InRequest => RequestInv
  /\ InResponse => ResponseInv /\ PlaceInv
  /\ at = "ended" => Outcome

-----------------------------------------------------------------------------
(***************************************************************************)
(* The chain of what was received, what waits, what was read and what not. *)
(***************************************************************************)
\* The places of t after the k-th are those of c.
Has(t, k, c) == \A i \in 1..Len(c) : t[k + i] = c[i]

\* A chain is a sequence, and what it holds where.
LEMMA ChainFacts ==
  ASSUME NEW S, NEW g \in Seq(S), NEW b \in Seq(S), NEW c \in Seq(S), NEW n \in Seq(S)
  PROVE  /\ Chain(g, b, c, n) \in Seq(S)
         /\ Len(Chain(g, b, c, n)) = Len(g) + Len(b) + Len(c) + Len(n)
         /\ Has(Chain(g, b, c, n), 0, g) /\ Has(Chain(g, b, c, n), Len(g), b)
         /\ Has(Chain(g, b, c, n), Len(g) + Len(b), c)
<1>1. Chain(g, b, c, n) \in Seq(S) /\ Len(Chain(g, b, c, n)) = Len(g) + Len(b) + Len(c) + Len(n)
  BY DEF Chain
<1>2. Has(Chain(g, b, c, n), 0, g)
  BY DEF Chain, Has
<1>3. Has(Chain(g, b, c, n), Len(g), b)
  BY DEF Chain, Has
<1>4. Has(Chain(g, b, c, n), Len(g) + Len(b), c)
  BY DEF Chain, Has
<1> QED
  BY <1>1, <1>2, <1>3, <1>4

\* A prefix, place by place.
LEMMA PrefixPlaces ==
  ASSUME NEW S, NEW s \in Seq(S), NEW t \in Seq(S)
  PROVE  IsPrefix(s, t) <=> Len(s) <= Len(t) /\ \A i \in 1..Len(s) : s[i] = t[i]
<1>1. Len(s) \in Nat /\ Len(t) \in Nat
  OBVIOUS
<1>2. CASE Len(s) <= Len(t)
  <2> DEFINE a == SubSeq(s, 1, Len(s))
             b == SubSeq(t, 1, Len(s))
  <2>1. a \in Seq(S) /\ Len(a) = Len(s) /\ \A i \in 1..Len(s) : a[i] = s[i]
    BY <1>1, CutTwo
  <2>2. b \in Seq(S) /\ Len(b) = Len(s) /\ \A i \in 1..Len(s) : b[i] = t[i]
    BY <1>1, <1>2, CutTwo
  <2> HIDE DEF a, b
  <2>3. (\A i \in 1..Len(s) : s[i] = t[i]) => a = b
    BY <2>1, <2>2, SameSeq
  <2>4. a = b => \A i \in 1..Len(s) : s[i] = t[i]
    BY <2>1, <2>2
  <2> QED
    BY <1>2, <2>3, <2>4 DEF IsPrefix, a, b
<1>3. CASE ~(Len(s) <= Len(t))
  BY <1>3 DEF IsPrefix
<1> QED
  BY <1>2, <1>3

\* What a peer has received is a prefix of its chain, whole writes or not.
LEMMA ChainPrefix ==
  ASSUME NEW S, NEW g \in Seq(S), NEW b \in Seq(S), NEW c \in Seq(S), NEW n \in Seq(S),
         NEW k \in 0..Len(b)
  PROVE  /\ IsPrefix(g, Chain(g, b, c, n))
         /\ g \o SubSeq(b, 1, k) \in Seq(S) /\ Len(g \o SubSeq(b, 1, k)) = Len(g) + k
         /\ IsPrefix(g \o SubSeq(b, 1, k), Chain(g, b, c, n))
<1> DEFINE t == Chain(g, b, c, n)
           a == SubSeq(b, 1, k)
<1>1. Len(g) \in Nat /\ Len(b) \in Nat /\ Len(c) \in Nat /\ Len(n) \in Nat /\ k \in Nat /\ k <= Len(b)
  OBVIOUS
<1>2. /\ t \in Seq(S) /\ Len(t) = Len(g) + Len(b) + Len(c) + Len(n)
      /\ \A i \in 1..Len(g) : t[i] = g[i]
      /\ \A i \in 1..Len(b) : t[Len(g) + i] = b[i]
  <2>1. t \in Seq(S) /\ Len(t) = Len(g) + Len(b) + Len(c) + Len(n) /\ Has(t, 0, g) /\ Has(t, Len(g), b)
    BY ChainFacts
  <2> HIDE DEF t
  <2> QED
    BY <2>1 DEF Has
<1>3. a \in Seq(S) /\ Len(a) = k /\ \A i \in 1..k : a[i] = b[i]
  BY CutTwo
<1> HIDE DEF t, a
<1>4. IsPrefix(g, t)
  <2>1. t \in Seq(S) /\ Len(g) <= Len(t) /\ \A i \in 1..Len(g) : g[i] = t[i]
    BY <1>1, <1>2
  <2> QED
    BY <2>1, PrefixPlaces, Zenon
<1>41. a \in Seq(S)
  BY <1>3
<1>42. /\ g \o a \in Seq(S) /\ Len(g \o a) = Len(g) + Len(a)
       /\ \A i \in 1..Len(g) : (g \o a)[i] = g[i]
       /\ \A i \in 1..Len(a) : (g \o a)[Len(g) + i] = a[i]
  BY <1>41, Concat
<1> DEFINE ga == g \o a
<1> HIDE DEF ga
<1>5. /\ ga \in Seq(S) /\ Len(ga) = Len(g) + k
      /\ \A i \in 1..Len(g) : ga[i] = g[i]
      /\ \A i \in 1..k : ga[Len(g) + i] = a[i]
  BY <1>3, <1>42 DEF ga
<1>6. ASSUME NEW i \in 1..(Len(g) + k)
      PROVE  ga[i] = t[i]
  <2>1. CASE i <= Len(g)
    BY <1>1, <1>2, <1>5, <2>1
  <2>2. CASE i > Len(g)
    <3>1. i - Len(g) \in 1..k /\ i - Len(g) \in 1..Len(b) /\ Len(g) + (i - Len(g)) = i
      BY <1>1, <2>2
    <3> DEFINE j == i - Len(g)
    <3>2. j \in 1..k /\ j \in 1..Len(b) /\ Len(g) + j = i
      BY <3>1
    <3> HIDE DEF j
    <3>3. ga[Len(g) + j] = a[j]
      BY <1>5, <3>2, Zenon
    <3>4. a[j] = b[j]
      BY <1>3, <3>2, Zenon
    <3>5. t[Len(g) + j] = b[j]
      BY <1>2, <3>2, Zenon
    <3> QED
      BY <3>2, <3>3, <3>4, <3>5, Zenon
  <2> QED
    BY <1>1, <2>1, <2>2
<1>7. IsPrefix(ga, t)
  <2>1. ga \in Seq(S) /\ t \in Seq(S) /\ Len(ga) <= Len(t)
    BY <1>1, <1>2, <1>5
  <2>2. \A i \in 1..Len(ga) : ga[i] = t[i]
    BY <1>5, <1>6
  <2> QED
    BY <2>1, <2>2, PrefixPlaces, Zenon
<1> QED
  BY <1>4, <1>5, <1>7 DEF t, a, ga

\* Reading, moving and writing leave a chain as it is.
LEMMA ChainSteps ==
  ASSUME NEW S, NEW g \in Seq(S), NEW b \in Seq(S), NEW c \in Seq(S), NEW n \in Seq(S)
  PROVE  /\ \A k \in 0..Len(n) :
              Chain(g, b, c \o SubSeq(n, 1, k), SubSeq(n, k + 1, Len(n))) = Chain(g, b, c, n)
         /\ \A k \in 0..Len(c) :
              Chain(g, b \o SubSeq(c, 1, k), SubSeq(c, k + 1, Len(c)), n) = Chain(g, b, c, n)
         /\ Chain(g \o b, <<>>, c, n) = Chain(g, b, c, n)
<1> DEFINE gb == g \o b
           gbc == gb \o c
<1>1. gb \in Seq(S)
  BY Concat
<1> HIDE DEF gb
<1>2. gbc \in Seq(S)
  BY <1>1, Concat
<1> HIDE DEF gbc
<1>3. Chain(g, b, c, n) = gbc \o n
  BY DEF Chain, gb, gbc
<1>4. ASSUME NEW k \in 0..Len(n)
      PROVE  Chain(g, b, c \o SubSeq(n, 1, k), SubSeq(n, k + 1, Len(n))) = Chain(g, b, c, n)
  <2> DEFINE u == SubSeq(n, 1, k)
             v == SubSeq(n, k + 1, Len(n))
  <2>1. u \in Seq(S) /\ v \in Seq(S) /\ u \o v = n
    BY CutTwo
  <2> HIDE DEF u, v
  <2>2. u \in Seq(S) /\ v \in Seq(S)
    BY <2>1
  <2>30. gb \o (c \o u) = (gb \o c) \o u
    BY ONLY <1>1, <2>2, c \in Seq(S), SMTT(40)
  <2>3. gb \o (c \o u) = gbc \o u
    BY ONLY <2>30 DEF gbc
  <2>4. (gbc \o u) \o v = gbc \o (u \o v)
    BY ONLY <1>2, <2>2, SMTT(40)
  <2>5. Chain(g, b, c \o u, v) = (gb \o (c \o u)) \o v
    BY DEF Chain, gb
  <2> QED
    BY <1>3, <2>1, <2>3, <2>4, <2>5 DEF u, v
<1>5. ASSUME NEW k \in 0..Len(c)
      PROVE  Chain(g, b \o SubSeq(c, 1, k), SubSeq(c, k + 1, Len(c)), n) = Chain(g, b, c, n)
  <2> DEFINE u == SubSeq(c, 1, k)
             v == SubSeq(c, k + 1, Len(c))
  <2>1. u \in Seq(S) /\ v \in Seq(S) /\ u \o v = c
    BY CutTwo
  <2> HIDE DEF u, v
  <2>2. u \in Seq(S) /\ v \in Seq(S)
    BY <2>1
  <2>30. g \o (b \o u) = (g \o b) \o u
    BY ONLY <2>2, g \in Seq(S), b \in Seq(S), SMTT(40)
  <2>3. g \o (b \o u) = gb \o u
    BY ONLY <2>30 DEF gb
  <2>4. (gb \o u) \o v = gb \o (u \o v)
    BY ONLY <1>1, <2>2, SMTT(40)
  <2>5. Chain(g, b \o u, v, n) = ((g \o (b \o u)) \o v) \o n
    BY DEF Chain
  <2> QED
    BY <1>3, <2>1, <2>3, <2>4, <2>5 DEF u, v, gbc
<1>6. Chain(g \o b, <<>>, c, n) = Chain(g, b, c, n)
  <2>1. gb \o <<>> = gb
    BY <1>1, ConcatEmptySeq
  <2> QED
    BY <1>3, <2>1 DEF Chain, gb, gbc
<1> QED
  BY <1>4, <1>5, <1>6

-----------------------------------------------------------------------------
(***************************************************************************)
(* What peers send, and what a read finds in it.                           *)
(***************************************************************************)
\* A message is a sequence of tokens that begins with a header.
LEMMA MessageFacts ==
  ASSUME NEW s \in Requests \cup Responses
  PROVE  /\ s \in Seq(Tokens) /\ Len(s) > 0
         /\ s[1] = <<"header", s[1][2], s[1][3]>> /\ s[1][3] \in Nat
         /\ s[1][2] = "bad" => s[1] = Header("bad", 0)
<1>1. s \in Seq(ToSet(s)) /\ s # <<>> /\ s[1] = Header(s[1][2], s[1][3]) /\ s[1][3] \in Nat
      /\ (s[1][2] = "bad" => s[1][3] = 0)
  BY ProxyAssumption DEF IsMessage
<1>2. ToSet(s) \subseteq Tokens
  BY DEF Tokens
<1>3. s \in Seq(Tokens) /\ Len(s) > 0
  BY <1>1, <1>2
<1> QED
  BY <1>1, <1>3 DEF Header

\* The line of a size has a size.
LEMMA TokenSize ==
  ASSUME NEW x \in Tokens, x[1] = "size"
  PROVE  x[2] \in Nat
<1>1. PICK s \in Requests \cup Responses : x \in ToSet(s)
  BY DEF Tokens
<1>2. PICK i \in DOMAIN s : x = s[i]
  BY <1>1 DEF ToSet
<1> QED
  BY <1>2, ProxyAssumption DEF IsMessage

\* What the frame of a response says, in terms of places.
LEMMA FrameFacts ==
  ASSUME NEW s \in Responses
  PROVE  /\ s[1][2] = "chunked" => Len(s) > 1 /\ s[2][1] = "size"
         /\ \A i \in 1..Len(s) : s[i][1] = "size" =>
              /\ s[1][2] = "chunked" /\ s[i] = Size(s[i][2]) /\ s[i][2] \in Nat
              /\ s[i][2] = 0 => Len(s) = i + 2
              /\ s[i][2] # 0 => i + s[i][2] + 3 \in 1..Len(s) /\ s[i + s[i][2] + 3][1] = "size"
         /\ s[1][2] # "chunked" => s[1] = Header("unknown", 0) \/ s[1][2] = "bad" \/ Len(s) = s[1][3] + 1
<1>1. IsMessage(s) /\ IsFramed(s)
  BY ProxyAssumption
<1>2. DOMAIN s = 1..Len(s)
  BY MessageFacts
<1>3. \A i \in 1..Len(s) : s[i][1] = "size" => s[i] = Size(s[i][2]) /\ s[i][2] \in Nat
  BY <1>1, <1>2 DEF IsMessage
<1>4. CASE s[1][2] = "chunked"
  BY <1>1, <1>2, <1>3, <1>4 DEF IsFramed
<1>5. CASE s[1][2] # "chunked"
  BY <1>1, <1>2, <1>3, <1>5 DEF IsFramed
<1> QED
  BY <1>4, <1>5

\* FirstEnd() is a place of the buffer with such a token, or there is none.
LEMMA FirstEndFacts ==
  ASSUME NEW S, NEW b \in Seq(S), NEW kinds
  PROVE  /\ FirstEnd(kinds, b) \in 0..Len(b)
         /\ FirstEnd(kinds, b) # 0 => b[FirstEnd(kinds, b)][1] \in kinds
         /\ Len(b) > 0 /\ b[1][1] \in kinds => FirstEnd(kinds, b) = 1
<1> DEFINE T == EndsIn(kinds, b)
           f == FirstEnd(kinds, b)
<1>1. T = {i \in 1..Len(b) : b[i][1] \in kinds}
  BY DEF EndsIn
<1>2. CASE T = {}
  BY <1>1, <1>2 DEF FirstEnd
<1>3. CASE T # {}
  <2>1. T \in SUBSET Nat
    BY <1>1
  <2>2. \E i \in T : \A j \in T : i <= j
    BY <1>3, <2>1, LeastNumber
  <2>3. f = CHOOSE i \in T : \A j \in T : i <= j
    BY <1>3 DEF FirstEnd
  <2> HIDE DEF T, f
  <2>4. f \in T /\ \A j \in T : f <= j
    BY <2>2, <2>3
  <2>5. f \in 1..Len(b) /\ b[f][1] \in kinds
    BY <1>1, <2>4
  <2>6. Len(b) > 0 /\ b[1][1] \in kinds => f = 1
    BY <1>1, <2>4, <2>5
  <2> QED
    BY <2>5, <2>6 DEF f
<1> QED
  BY <1>2, <1>3

-----------------------------------------------------------------------------
(***************************************************************************)
(* What the invariant says of a state.                                     *)
(***************************************************************************)
\* What was sent is the beginning of what will be.
LEMMA ScriptFacts ==
  ASSUME ProxyTypes, NEW p \in Peers
  PROVE  /\ sent[p] \in Seq(Tokens) /\ toSend[p] \in Seq(Tokens) /\ Script(p) \in Seq(Tokens)
         /\ Len(Script(p)) = Len(sent[p]) + Len(toSend[p])
         /\ Has(Script(p), 0, sent[p]) /\ Len(sent[p]) <= Len(Script(p))
         /\ toSend[p] = <<>> => Script(p) = sent[p]
<1>1. sent[p] \in Seq(Tokens) /\ toSend[p] \in Seq(Tokens)
  BY DEF ProxyTypes
<1>2. /\ Script(p) \in Seq(Tokens) /\ Len(Script(p)) = Len(sent[p]) + Len(toSend[p])
      /\ Has(Script(p), 0, sent[p]) /\ Len(sent[p]) <= Len(Script(p))
  <2> DEFINE u == sent[p]
             v == toSend[p]
  <2>1. u \in Seq(Tokens) /\ v \in Seq(Tokens)
    BY <1>1
  <2> HIDE DEF u, v
  <2>2. u \o v \in Seq(Tokens) /\ Len(u \o v) = Len(u) + Len(v) /\ Len(u) <= Len(u \o v)
    BY ONLY <2>1, Concat
  <2>3. Has(u \o v, 0, u)
    BY ONLY <2>1 DEF Has
  <2> QED
    BY <2>2, <2>3 DEF Script, u, v
<1>3. toSend[p] = <<>> => Script(p) = sent[p]
  BY <1>1, ConcatEmptySeq DEF Script
<1> QED
  BY <1>1, <1>2, <1>3

\* Every buffer and stream is a sequence of tokens.
LEMMA BufferTypes ==
  ASSUME ProxyTypes, NEW p \in Peers
  PROVE  buf[p] \in Seq(Tokens) /\ net[p] \in Seq(Tokens) /\ got[p] \in Seq(Tokens)
BY DEF ProxyTypes

\* Their lengths are numbers.
LEMMA LengthTypes ==
  ASSUME ProxyTypes, NEW p \in Peers
  PROVE  /\ Len(buf[p]) \in Nat /\ Len(net[p]) \in Nat /\ Len(got[p]) \in Nat
         /\ Len(sent[p]) \in Nat /\ Len(Script(p)) \in Nat
<1>1. buf[p] \in Seq(Tokens) /\ net[p] \in Seq(Tokens) /\ got[p] \in Seq(Tokens)
  BY BufferTypes
<1>2. sent[p] \in Seq(Tokens) /\ Script(p) \in Seq(Tokens)
  BY ScriptFacts
<1> QED
  BY <1>1, <1>2

\* One half is under way, and it says where is read from and written to.
LEMMA Halves ==
  ASSUME ProxyTypes, at # "ended"
  PROVE  /\ InRequest \/ InResponse
         /\ InRequest => /\ at \in Reads => Source = "browser"
                         /\ at \in Writes => Target = "origin"
                         /\ at \in BodyOps => dir = "browser"
                         /\ at \notin {"readResponse", "writeResponse", "unknown"}
         /\ InResponse => /\ at \in Reads => Source = "origin"
                          /\ at \in Writes => Target = "browser"
                          /\ at \in BodyOps => dir = "origin"
                          /\ at \notin {"connect", "readRequest", "writeRequest"}
BY DEF ProxyTypes, InRequest, InResponse, Source, Target, Reads, Writes, BodyOps, Ops, Peers, Other

\* In the request's half.
LEMMA RequestFacts ==
  ASSUME ProxyInv, InRequest
  PROVE  /\ RequestInv
         /\ Len(sent["browser"]) = Len(got["origin"]) + Len(buf["origin"]) + Len(buf["browser"]) + Len(net["browser"])
         /\ Has(sent["browser"], 0, got["origin"])
         /\ Has(sent["browser"], Len(got["origin"]) + Len(buf["origin"]), buf["browser"])
         /\ \A k \in 0..Len(buf["origin"]) :
              /\ Len(got["origin"] \o SubSeq(buf["origin"], 1, k)) = Len(got["origin"]) + k
              /\ IsPrefix(got["origin"] \o SubSeq(buf["origin"], 1, k), sent["browser"])
<1>1. RequestInv
  BY DEF ProxyInv
<1>2. got["origin"] \in Seq(Tokens) /\ buf["origin"] \in Seq(Tokens) /\ buf["browser"] \in Seq(Tokens)
      /\ net["browser"] \in Seq(Tokens)
  BY BufferTypes DEF ProxyInv, Peers
<1> DEFINE g == got["origin"]
           b == buf["origin"]
           c == buf["browser"]
           n == net["browser"]
           t == sent["browser"]
<1>3. g \in Seq(Tokens) /\ b \in Seq(Tokens) /\ c \in Seq(Tokens) /\ n \in Seq(Tokens) /\ Chain(g, b, c, n) = t
  BY <1>1, <1>2 DEF RequestInv
<1> HIDE DEF g, b, c, n, t
<1>30. g \in Seq(Tokens) /\ b \in Seq(Tokens) /\ c \in Seq(Tokens) /\ n \in Seq(Tokens)
  BY <1>3
<1>32. /\ Len(Chain(g, b, c, n)) = Len(g) + Len(b) + Len(c) + Len(n)
       /\ Has(Chain(g, b, c, n), 0, g) /\ Has(Chain(g, b, c, n), Len(g) + Len(b), c)
  BY ONLY <1>30, ChainFacts
<1>4. Len(t) = Len(g) + Len(b) + Len(c) + Len(n) /\ Has(t, 0, g) /\ Has(t, Len(g) + Len(b), c)
  BY <1>3, <1>32, Zenon
<1>5. ASSUME NEW k \in 0..Len(b)
      PROVE  Len(g \o SubSeq(b, 1, k)) = Len(g) + k /\ IsPrefix(g \o SubSeq(b, 1, k), t)
  BY <1>3, ChainPrefix
<1> QED
  BY <1>1, <1>4, <1>5 DEF g, b, c, n, t

\* In the response's half.
LEMMA ResponseFacts ==
  ASSUME ProxyInv, InResponse
  PROVE  /\ ResponseInv /\ PlaceInv /\ Moved \in Nat
         /\ Len(sent["origin"]) = Moved + Len(buf["origin"]) + Len(net["origin"])
         /\ Has(sent["origin"], Moved, buf["origin"])
         /\ \A k \in 0..Len(buf["browser"]) :
              /\ Len(got["browser"] \o SubSeq(buf["browser"], 1, k)) = Len(got["browser"]) + k
              /\ IsPrefix(got["browser"] \o SubSeq(buf["browser"], 1, k), sent["origin"])
<1>1. ResponseInv /\ PlaceInv
  BY DEF ProxyInv
<1>2. got["browser"] \in Seq(Tokens) /\ buf["origin"] \in Seq(Tokens) /\ buf["browser"] \in Seq(Tokens)
      /\ net["origin"] \in Seq(Tokens)
  BY BufferTypes DEF ProxyInv, Peers
<1> DEFINE g == got["browser"]
           b == buf["browser"]
           c == buf["origin"]
           n == net["origin"]
           t == sent["origin"]
<1>3. g \in Seq(Tokens) /\ b \in Seq(Tokens) /\ c \in Seq(Tokens) /\ n \in Seq(Tokens) /\ Chain(g, b, c, n) = t
  BY <1>1, <1>2 DEF ResponseInv
<1>31. Moved = Len(g) + Len(b)
  BY DEF Moved
<1> HIDE DEF g, b, c, n, t
<1>30. g \in Seq(Tokens) /\ b \in Seq(Tokens) /\ c \in Seq(Tokens) /\ n \in Seq(Tokens)
  BY <1>3
<1>32. /\ Len(Chain(g, b, c, n)) = Len(g) + Len(b) + Len(c) + Len(n)
       /\ Has(Chain(g, b, c, n), Len(g) + Len(b), c)
  BY ONLY <1>30, ChainFacts
<1>4. Len(t) = Len(g) + Len(b) + Len(c) + Len(n) /\ Has(t, Len(g) + Len(b), c)
  BY <1>3, <1>32, Zenon
<1>5. ASSUME NEW k \in 0..Len(b)
      PROVE  Len(g \o SubSeq(b, 1, k)) = Len(g) + k /\ IsPrefix(g \o SubSeq(b, 1, k), t)
  BY <1>3, ChainPrefix
<1>6. Moved \in Nat /\ Len(t) = Moved + Len(c) + Len(n) /\ Has(t, Moved, c)
  BY <1>3, <1>31, <1>4
<1> QED
  BY <1>1, <1>5, <1>6 DEF g, b, c, n, t

\* What a read completes with: the end of the first delimiter, or its size.
LEMMA MatchedFacts ==
  ASSUME ProxyInv, at \in Reads
  PROVE  /\ Source \in Peers /\ MatchedSize \in 0..Len(buf[Source])
         /\ at \in {"readRequest", "readResponse"} => MatchedSize = FirstEnd({"header"}, buf[Source])
         /\ at = "chunk1" => MatchedSize = FirstEnd({"size", "LF"}, buf[Source])
         /\ at \in {"readLength", "chunk3"} => Source = dir
         /\ at = "readLength" => /\ header[2] > 0
                                 /\ MatchedSize = IF header[2] <= Len(buf[dir]) THEN header[2] ELSE 0
         /\ at = "chunk3" => /\ length > 0
                             /\ MatchedSize = IF length <= Len(buf[dir]) THEN length ELSE 0
<1>1. ProxyTypes /\ MatchInv
  BY DEF ProxyInv
<1>2. Source \in Peers /\ (at \in {"readLength", "chunk3"} => Source = dir)
  BY <1>1 DEF Source, Peers, ProxyTypes
<1>3. buf[Source] \in Seq(Tokens)
  BY <1>1, <1>2, BufferTypes
<1>4. CASE at \in {"readRequest", "readResponse"}
  <2>1. MatchedSize = FirstEnd({"header"}, buf[Source])
    BY <1>4 DEF MatchedSize
  <2> QED
    BY <1>2, <1>3, <1>4, <2>1, FirstEndFacts
<1>5. CASE at = "chunk1"
  <2>1. MatchedSize = FirstEnd({"size", "LF"}, buf[Source])
    BY <1>5 DEF MatchedSize
  <2> QED
    BY <1>2, <1>3, <1>5, <2>1, FirstEndFacts
<1>6. CASE at = "readLength" \/ at = "chunk3"
  <2> DEFINE d == IF at = "readLength" THEN header[2] ELSE length
  <2>1. MatchedSize = IF match.left <= Len(buf[Source]) - match.searched THEN match.searched + match.left ELSE 0
    BY <1>6 DEF MatchedSize
  <2>2. /\ match.searched \in Nat /\ match.left \in Nat
        /\ match.searched + match.left = d /\ d > 0 /\ d \in Nat
    BY <1>1, <1>6 DEF ProxyTypes, MatchInv
  <2>3. Len(buf[Source]) \in Nat
    BY <1>3
  <2> HIDE DEF d
  <2>4. MatchedSize = IF d <= Len(buf[Source]) THEN d ELSE 0
    BY <2>1, <2>2, <2>3
  <2> QED
    BY <1>2, <1>6, <2>2, <2>3, <2>4 DEF d
<1>7. CASE at = "unknown"
  <2>1. MatchedSize = 0 /\ Len(buf[Source]) \in Nat
    BY <1>3, <1>7 DEF MatchedSize
  <2> QED
    BY <1>2, <1>7, <2>1
<1> QED
  BY <1>4, <1>5, <1>6, <1>7 DEF Reads

\* The token of a script after what has been moved, when it has been read.
LEMMA TokenAfter ==
  ASSUME NEW S, NEW s \in Seq(S), NEW t \in Seq(S), NEW c \in Seq(S), NEW n \in Seq(S), NEW k \in Nat,
         Len(t) = k + Len(c) + Len(n), Has(t, k, c), Has(s, 0, t), Len(t) <= Len(s), Len(c) > 0
  PROVE  k + 1 \in 1..Len(s) /\ s[k + 1] = c[1]
<1>1. Len(t) \in Nat /\ Len(s) \in Nat /\ Len(c) \in Nat /\ Len(n) \in Nat
  OBVIOUS
<1>2. 1 \in 1..Len(c) /\ k + 1 \in 1..Len(t) /\ 0 + (k + 1) = k + 1 /\ k + 1 \in 1..Len(s)
  BY <1>1
<1>3. t[k + 1] = c[1]
  BY <1>2 DEF Has
<1>4. s[0 + (k + 1)] = t[k + 1]
  BY <1>2 DEF Has
<1> QED
  BY <1>2, <1>3, <1>4

LEMMA NextToken ==
  ASSUME ProxyInv, InResponse, Len(buf["origin"]) > 0
  PROVE  Moved + 1 \in 1..Len(Script("origin")) /\ Script("origin")[Moved + 1] = buf["origin"][1]
<1>1. /\ Moved \in Nat /\ Len(sent["origin"]) = Moved + Len(buf["origin"]) + Len(net["origin"])
      /\ Has(sent["origin"], Moved, buf["origin"])
  BY ResponseFacts
<1>2. buf["origin"] \in Seq(Tokens) /\ net["origin"] \in Seq(Tokens) /\ ProxyTypes
  BY BufferTypes DEF ProxyInv, Peers
<1>3. /\ sent["origin"] \in Seq(Tokens) /\ Script("origin") \in Seq(Tokens)
      /\ Has(Script("origin"), 0, sent["origin"]) /\ Len(sent["origin"]) <= Len(Script("origin"))
  BY <1>2, ScriptFacts DEF Peers
<1> DEFINE s == Script("origin")
           t == sent["origin"]
           c == buf["origin"]
           n == net["origin"]
           k == Moved
<1>4. /\ s \in Seq(Tokens) /\ t \in Seq(Tokens) /\ c \in Seq(Tokens) /\ n \in Seq(Tokens) /\ k \in Nat
      /\ Len(t) = k + Len(c) + Len(n) /\ Has(t, k, c) /\ Has(s, 0, t) /\ Len(t) <= Len(s) /\ Len(c) > 0
  BY <1>1, <1>2, <1>3
<1> HIDE DEF s, t, c, n, k
<1>5. k + 1 \in 1..Len(s) /\ s[k + 1] = c[1]
  BY ONLY <1>4, TokenAfter
<1> QED
  BY <1>5 DEF s, c, k

\* A request's header is the first token there is.
LEMMA RequestHeader ==
  ASSUME ProxyInv, at = "readRequest", MatchedSize > 0
  PROVE  /\ MatchedSize = 1 /\ 1 <= Len(buf["browser"]) /\ got["origin"] = <<>> /\ buf["origin"] = <<>>
         /\ buf["browser"][1][3] \in Nat
<1>1. InRequest /\ Source = "browser" /\ at \in Reads
  BY DEF InRequest, Source, Reads
<1>2. got["origin"] = <<>> /\ buf["origin"] = <<>>
  BY <1>1, RequestFacts DEF RequestInv, Writes
<1>3. /\ MatchedSize \in 0..Len(buf["browser"]) /\ MatchedSize = FirstEnd({"header"}, buf["browser"])
  BY <1>1, MatchedFacts
<1>4. /\ buf["browser"] \in Seq(Tokens) /\ net["browser"] \in Seq(Tokens) /\ sent["browser"] \in Seq(Tokens)
      /\ toSend["browser"] \in Seq(Tokens) /\ ProxyTypes
  BY BufferTypes, ScriptFacts DEF ProxyInv, Peers
<1>5. /\ Len(sent["browser"]) = Len(buf["browser"]) + Len(net["browser"])
      /\ Has(sent["browser"], 0, buf["browser"])
  <2>1. Len(got["origin"]) = 0 /\ Len(buf["origin"]) = 0
    BY <1>2
  <2>2. /\ Len(sent["browser"]) = 0 + 0 + Len(buf["browser"]) + Len(net["browser"])
        /\ Has(sent["browser"], 0 + 0, buf["browser"])
    BY <1>1, <2>1, RequestFacts
  <2> QED
    BY <1>4, <2>2
<1>6. Len(buf["browser"]) > 0
  BY <1>3, <1>4
<1>7. /\ Script("browser") \in Seq(Tokens)
      /\ Has(Script("browser"), 0, sent["browser"]) /\ Len(sent["browser"]) <= Len(Script("browser"))
  BY <1>4, ScriptFacts DEF Peers
<1>8. Script("browser")[1] = buf["browser"][1]
  <2>1. Len(sent["browser"]) = 0 + Len(buf["browser"]) + Len(net["browser"])
    BY <1>4, <1>5
  <2> DEFINE s == Script("browser")
             t == sent["browser"]
             c == buf["browser"]
             n == net["browser"]
             k == 0
  <2>2. /\ s \in Seq(Tokens) /\ t \in Seq(Tokens) /\ c \in Seq(Tokens) /\ n \in Seq(Tokens) /\ k \in Nat
        /\ Len(t) = k + Len(c) + Len(n) /\ Has(t, k, c) /\ Has(s, 0, t) /\ Len(t) <= Len(s) /\ Len(c) > 0
    BY <1>4, <1>5, <1>6, <1>7, <2>1
  <2> HIDE DEF s, t, c, n, k
  <2>3. s[k + 1] = c[1]
    BY ONLY <2>2, TokenAfter
  <2>4. k + 1 = 1
    BY DEF k
  <2> QED
    BY <2>3, <2>4 DEF s, c
<1>9. buf["browser"][1][1] = "header" /\ buf["browser"][1][3] \in Nat
  <2>1. Script("browser") \in Requests \cup Responses
    BY DEF ProxyInv, StreamInv
  <2>2. Script("browser")[1] = <<"header", Script("browser")[1][2], Script("browser")[1][3]>>
        /\ Script("browser")[1][3] \in Nat
    BY <2>1, MessageFacts
  <2> QED
    BY <1>8, <2>2
<1>10. FirstEnd({"header"}, buf["browser"]) = 1
  BY <1>4, <1>6, <1>9, FirstEndFacts
<1> QED
  BY <1>2, <1>3, <1>6, <1>9, <1>10

-----------------------------------------------------------------------------
(***************************************************************************)
(* How a step ends the coroutine or goes on with it.                       *)
(***************************************************************************)
\* What a peer has got stays what the other one has sent.
StreamKept ==
  /\ buf' \in [Peers -> Seq(Tokens)] /\ got' \in [Peers -> Seq(Tokens)] /\ Forwarded'
  /\ Len(got'["origin"]) + Len(net["browser"]) <= Len(sent["browser"])

\* Nothing is received in most of the steps.
LEMMA NothingReceived ==
  ASSUME ProxyInv, UNCHANGED <<peers, got>>, buf' \in [Peers -> Seq(Tokens)]
  PROVE  StreamKept
<1>1. net' = net /\ sent' = sent /\ got' = got
  BY DEF peers
<1> QED
  BY <1>1 DEF StreamKept, ProxyInv, StreamInv, Forwarded, ProxyTypes, Other

LEMMA StopEnds ==
  ASSUME ProxyInv, Stop, UNCHANGED <<dir, header, length, dummy, peers>>, StreamKept, Outcome'
  PROVE  ProxyInv'
<1>1. /\ net' = net /\ toSend' = toSend /\ closed' = closed /\ sent' = sent
      /\ at' = "ended" /\ aborted' = aborted \ {"main"} /\ match' = match
      /\ dir' = dir /\ header' = header /\ length' = length /\ dummy' = dummy
  BY DEF peers, Stop
<1>2. ProxyTypes'
  BY <1>1 DEF ProxyInv, ProxyTypes, StreamKept, Ops
<1>3. StreamInv'
  BY <1>1 DEF ProxyInv, StreamInv, StreamKept, Script
<1>4. MatchInv' /\ AbortInv' /\ ~InRequest' /\ ~InResponse'
  BY <1>1 DEF MatchInv, AbortInv, InRequest, InResponse, BodyOps
<1> QED
  BY <1>2, <1>3, <1>4 DEF ProxyInv

LEMMA GoesOn ==
  ASSUME ProxyInv, at # "ended", NEW op \in Ops \ {"ended"}, NEW n \in Nat, Begin(op, n),
         UNCHANGED peers, StreamKept, dir' \in Peers, header' = <<header'[1], header'[2]>>,
         header'[2] \in Nat, length' \in Nat, dummy' \in {"off", "pending", "done"},
         MatchInv', InRequest' => RequestInv', InResponse' => ResponseInv' /\ PlaceInv'
  PROVE  ProxyInv'
<1>1. /\ net' = net /\ toSend' = toSend /\ closed' = closed /\ sent' = sent
      /\ at' = op /\ aborted' = aborted \ {"main"} /\ match' = [searched |-> 0, left |-> n]
  BY DEF peers, Begin
<1>2. ProxyTypes'
  BY <1>1 DEF ProxyInv, ProxyTypes, StreamKept
<1>3. StreamInv'
  BY <1>1 DEF ProxyInv, StreamInv, StreamKept, Script
<1>4. AbortInv'
  BY <1>1 DEF ProxyInv, AbortInv
<1> QED
  BY <1>1, <1>2, <1>3, <1>4 DEF ProxyInv

LEMMA ConnectedKeeps ==
  ASSUME ProxyInv, Connected
  PROVE  ProxyInv'
<1>1. at = "connect" /\ UNCHANGED <<dir, header, length, buf, dummy, peers, got>>
  BY DEF Connected
<1>2. InRequest /\ ProxyTypes
  BY <1>1 DEF InRequest, ProxyInv
<1>3. RequestInv /\ got["origin"] = <<>>
  BY <1>1, <1>2, RequestFacts DEF RequestInv
<1>4. StreamKept
  BY <1>1, <1>2, NothingReceived DEF ProxyTypes
<1>5. CASE Begin("readRequest", 0)
  <2>1. MatchInv' /\ ~InResponse'
    BY <1>5 DEF Begin, MatchInv, InResponse, BodyOps
  <2>2. RequestInv'
    BY <1>1, <1>3, <1>5 DEF Begin, RequestInv, peers, Writes
  <2>3. "readRequest" \in Ops \ {"ended"} /\ 0 \in Nat
    BY DEF Ops
  <2> QED
    BY <1>1, <1>2, <1>4, <1>5, <2>1, <2>2, <2>3, GoesOn DEF ProxyTypes
<1>6. CASE Stop
  <2>1. Script("browser")' = Script("browser") /\ got' = got
    BY <1>1 DEF Script, peers
  <2>2. Len(Script("browser")) > 0
    BY MessageFacts DEF ProxyInv, StreamInv
  <2>3. Outcome'
    BY <1>3, <2>1, <2>2 DEF Outcome, Short
  <2> QED
    BY <1>1, <1>4, <1>6, <2>3, StopEnds
<1> QED
  BY <1>5, <1>6 DEF Connected

-----------------------------------------------------------------------------
(***************************************************************************)
(* Moving and writing.                                                     *)
(***************************************************************************)
\* move_buffer() leaves the chain as it is.
LEMMA MoveChain ==
  ASSUME ProxyTypes, NEW p \in Peers, NEW o, o = Other(p), NEW k \in 0..Len(buf[p]), MoveBuffer(p, k)
  PROVE  /\ buf' \in [Peers -> Seq(Tokens)]
         /\ Chain(got[o], buf'[o], buf'[p], net[p]) = Chain(got[o], buf[o], buf[p], net[p])
         /\ Len(buf'[o]) = Len(buf[o]) + k
<1>1. o \in Peers /\ o # p
  BY DEF Other, Peers
<1>2. /\ got[o] \in Seq(Tokens) /\ buf[o] \in Seq(Tokens) /\ buf[p] \in Seq(Tokens) /\ net[p] \in Seq(Tokens)
      /\ buf \in [Peers -> Seq(Tokens)]
  BY <1>1 DEF ProxyTypes
<1> DEFINE g == got[o]
           b == buf[o]
           c == buf[p]
           n == net[p]
           u == SubSeq(c, 1, k)
           v == SubSeq(c, k + 1, Len(c))
<1>3. u \in Seq(Tokens) /\ v \in Seq(Tokens) /\ Len(u) = k
  BY <1>2, CutTwo
<1>4. buf' = [buf EXCEPT ![p] = v, ![o] = b \o u]
  BY <1>1 DEF MoveBuffer
<1>5. g \in Seq(Tokens) /\ b \in Seq(Tokens) /\ c \in Seq(Tokens) /\ n \in Seq(Tokens) /\ k \in 0..Len(c)
  BY <1>2
<1> HIDE DEF g, b, c, n
<1>6. Chain(g, b \o u, v, n) = Chain(g, b, c, n)
  BY ONLY <1>5, ChainSteps
<1> HIDE DEF u, v
<1>7. b \o u \in Seq(Tokens) /\ Len(b \o u) = Len(b) + k
  <2>1. u \in Seq(Tokens) /\ b \in Seq(Tokens)
    BY <1>3, <1>5
  <2>2. b \o u \in Seq(Tokens) /\ Len(b \o u) = Len(b) + Len(u)
    BY ONLY <2>1, Concat
  <2> QED
    BY <1>3, <2>2
<1>8. buf'[p] = v /\ buf'[o] = b \o u /\ buf' \in [Peers -> Seq(Tokens)]
  BY <1>1, <1>2, <1>3, <1>4, <1>7
<1> QED
  BY <1>6, <1>7, <1>8 DEF g, b, c, n

\* A whole write moves a buffer to what its peer has got.
LEMMA WriteChain ==
  ASSUME ProxyTypes, NEW o \in Peers, NEW p, p = Other(o), NEW w,
         w = [buf EXCEPT ![o] = <<>>], got' = [got EXCEPT ![o] = @ \o buf[o]]
  PROVE  /\ w \in [Peers -> Seq(Tokens)] /\ got' \in [Peers -> Seq(Tokens)]
         /\ w[o] = <<>> /\ w[p] = buf[p] /\ got'[p] = got[p] /\ got'[o] = got[o] \o buf[o]
         /\ Chain(got'[o], w[o], w[p], net[p]) = Chain(got[o], buf[o], buf[p], net[p])
         /\ Len(got'[o]) = Len(got[o]) + Len(buf[o])
<1>1. p \in Peers /\ o # p
  BY DEF Other, Peers
<1>2. /\ got[o] \in Seq(Tokens) /\ buf[o] \in Seq(Tokens) /\ buf[p] \in Seq(Tokens) /\ net[p] \in Seq(Tokens)
      /\ buf \in [Peers -> Seq(Tokens)] /\ got \in [Peers -> Seq(Tokens)]
  BY <1>1 DEF ProxyTypes
<1> DEFINE g == got[o]
           b == buf[o]
           c == buf[p]
           n == net[p]
<1>3. g \in Seq(Tokens) /\ b \in Seq(Tokens) /\ c \in Seq(Tokens) /\ n \in Seq(Tokens)
  BY <1>2
<1>4. got' = [got EXCEPT ![o] = g \o b]
  OBVIOUS
<1> HIDE DEF g, b, c, n
<1>5. Chain(g \o b, <<>>, c, n) = Chain(g, b, c, n)
  BY ONLY <1>3, ChainSteps
<1>6. g \o b \in Seq(Tokens) /\ Len(g \o b) = Len(g) + Len(b)
  BY ONLY <1>3, Concat
<1>7. got'[o] = g \o b /\ got'[p] = got[p] /\ got' \in [Peers -> Seq(Tokens)]
  BY <1>1, <1>2, <1>4, <1>6
<1>8. w[o] = <<>> /\ w[p] = c /\ w \in [Peers -> Seq(Tokens)]
  <2>1. <<>> \in Seq(Tokens)
    OBVIOUS
  <2> QED
    BY <1>1, <1>2, <2>1 DEF c
<1> QED
  BY <1>5, <1>6, <1>7, <1>8 DEF g, b, c, n

\* A header that is written again is a token that moves.
LEMMA HeaderMoves ==
  ASSUME ProxyTypes, NEW p \in Peers, 1 <= Len(buf[p]),
         buf' = [buf EXCEPT ![p] = SubSeq(@, 1 + 1, Len(@)), ![Other(p)] = Append(@, buf[p][1])]
  PROVE  MoveBuffer(p, 1)
<1> DEFINE o == Other(p)
           b == buf[o]
           c == buf[p]
<1>1. o \in Peers /\ o # p
  BY DEF Other, Peers
<1>2. b \in Seq(Tokens) /\ c \in Seq(Tokens) /\ Len(c) \in Nat
  BY <1>1 DEF ProxyTypes
<1>3. buf' = [buf EXCEPT ![p] = SubSeq(c, 1 + 1, Len(c)), ![o] = Append(b, c[1])]
  BY <1>1
<1>4. 1 <= Len(c)
  OBVIOUS
<1> HIDE DEF b, c
<1>5. c[1] \in Tokens
  BY <1>2, <1>4
<1>6. SubSeq(c, 1, 1) = <<c[1]>>
  <2>1. SubSeq(c, 1, 1) \in Seq(Tokens) /\ Len(SubSeq(c, 1, 1)) = 1 /\ SubSeq(c, 1, 1)[1] = c[1]
    BY <1>2, <1>4, CutTwo
  <2>2. <<c[1]>> \in Seq(Tokens) /\ Len(<<c[1]>>) = 1 /\ <<c[1]>>[1] = c[1]
    BY <1>5
  <2> DEFINE x == SubSeq(c, 1, 1)
             y == <<c[1]>>
  <2>3. x \in Seq(Tokens) /\ y \in Seq(Tokens) /\ Len(x) = 1 /\ Len(y) = 1 /\ x[1] = y[1]
    BY <2>1, <2>2
  <2> HIDE DEF x, y
  <2>4. x = y
    BY ONLY <2>3, SameSeq
  <2> QED
    BY <2>4 DEF x, y
<1>7. Append(b, c[1]) = b \o SubSeq(c, 1, 1)
  BY <1>2, <1>5, <1>6, AppendIsConcat
<1> QED
  BY <1>1, <1>3, <1>7 DEF MoveBuffer, b, c

LEMMA OnRequestKeeps ==
  ASSUME ProxyInv, OnRequest
  PROVE  ProxyInv'
<1> DEFINE h == buf["browser"][1]
<1>1. at = "readRequest" /\ MatchedSize > 0 /\ UNCHANGED <<dir, length, dummy, peers, got>>
  BY DEF OnRequest
<1>2. /\ MatchedSize = 1 /\ 1 <= Len(buf["browser"]) /\ got["origin"] = <<>> /\ buf["origin"] = <<>>
      /\ h[3] \in Nat
  BY <1>1, RequestHeader
<1>3. InRequest /\ ProxyTypes /\ "browser" \in Peers
  BY <1>1 DEF InRequest, ProxyInv, Peers
<1>4. \/ Stop /\ UNCHANGED <<buf, header>>
      \/ /\ buf' = [buf EXCEPT !["browser"] = SubSeq(@, 1 + 1, Len(@)), !["origin"] = Append(@, h)]
         /\ header' = <<h[2], h[3]>> /\ Begin("writeRequest", 0)
  BY <1>1, <1>2 DEF OnRequest
<1>5. CASE Stop /\ UNCHANGED <<buf, header>>
  <2>1. Script("browser")' = Script("browser") /\ got' = got
    BY <1>1 DEF Script, peers
  <2>2. Len(Script("browser")) > 0
    BY MessageFacts DEF ProxyInv, StreamInv
  <2>3. Outcome'
    BY <1>2, <2>1, <2>2 DEF Outcome, Short
  <2>4. StreamKept
    BY <1>1, <1>3, <1>5, NothingReceived DEF ProxyTypes
  <2> QED
    BY <1>1, <1>5, <2>3, <2>4, StopEnds
<1>6. CASE /\ buf' = [buf EXCEPT !["browser"] = SubSeq(@, 1 + 1, Len(@)), !["origin"] = Append(@, h)]
           /\ header' = <<h[2], h[3]>> /\ Begin("writeRequest", 0)
  <2>1. Other("browser") = "origin" /\ 1 \in 0..Len(buf["browser"])
    BY <1>2, <1>3, BufferTypes DEF Other
  <2>2. MoveBuffer("browser", 1)
    BY <1>2, <1>3, <1>6, <2>1, HeaderMoves
  <2>3. /\ buf' \in [Peers -> Seq(Tokens)]
        /\ Chain(got["origin"], buf'["origin"], buf'["browser"], net["browser"]) = sent["browser"]
    BY <1>3, <2>1, <2>2, MoveChain, RequestFacts DEF RequestInv
  <2>4. StreamKept
    BY <1>1, <2>3, NothingReceived
  <2>5. MatchInv' /\ ~InResponse'
    BY <1>6 DEF Begin, MatchInv, InResponse, BodyOps
  <2>6. RequestInv
    BY <1>3 DEF ProxyInv
  <2>7. RequestInv'
    BY <1>1, <1>6, <2>3, <2>6 DEF Begin, RequestInv, peers, Writes
  <2>8. "writeRequest" \in Ops \ {"ended"} /\ 0 \in Nat
    BY DEF Ops
  <2>9. header' = <<header'[1], header'[2]>> /\ header'[2] \in Nat
    BY <1>2, <1>6
  <2> QED
    BY <1>1, <1>3, <1>6, <2>4, <2>5, <2>7, <2>8, <2>9, GoesOn DEF ProxyTypes
<1> QED
  BY <1>4, <1>5, <1>6

\* The response's header is the first token of what the origin sends.
LEMMA ResponseHeader ==
  ASSUME ProxyInv, at = "readResponse"
  PROVE  /\ InResponse /\ Source = "origin" /\ dummy = "off"
         /\ got["browser"] = <<>> /\ buf["browser"] = <<>> /\ Moved = 0
         /\ Len(buf["origin"]) > 0 => /\ MatchedSize = 1 /\ buf["origin"][1] = Script("origin")[1]
                                      /\ sent["origin"][1] = Script("origin")[1] /\ Len(sent["origin"]) > 0
<1>1. InResponse /\ Source = "origin" /\ at \in Reads
  BY DEF InResponse, Source, Reads
<1>2. ResponseInv /\ PlaceInv
  BY <1>1, ResponseFacts
<1>3. dummy = "off" /\ got["browser"] = <<>> /\ buf["browser"] = <<>>
  BY <1>2 DEF ResponseInv, PlaceInv, Writes
<1>4. Moved = 0
  BY <1>3 DEF Moved
<1>5. ASSUME Len(buf["origin"]) > 0
      PROVE  /\ MatchedSize = 1 /\ buf["origin"][1] = Script("origin")[1]
             /\ sent["origin"][1] = Script("origin")[1] /\ Len(sent["origin"]) > 0
  <2>1. Script("origin")[0 + 1] = buf["origin"][1]
    BY <1>1, <1>4, <1>5, NextToken
  <2>2. Script("origin")[1] = buf["origin"][1]
    BY <2>1
  <2>3. Script("origin") \in Requests \cup Responses
    BY DEF ProxyInv, StreamInv
  <2>4. Script("origin")[1][1] = "header"
    <3>1. Script("origin")[1] = <<"header", Script("origin")[1][2], Script("origin")[1][3]>>
      BY <2>3, MessageFacts
    <3> QED
      BY <3>1
  <2>5. buf["origin"] \in Seq(Tokens) /\ net["origin"] \in Seq(Tokens) /\ ProxyTypes
    BY BufferTypes DEF ProxyInv, Peers
  <2>6. MatchedSize = FirstEnd({"header"}, buf["origin"])
    BY <1>1, MatchedFacts
  <2>7. FirstEnd({"header"}, buf["origin"]) = 1
    BY <1>5, <2>2, <2>4, <2>5, FirstEndFacts
  <2>8. Len(sent["origin"]) = 0 + Len(buf["origin"]) + Len(net["origin"])
    BY <1>1, <1>4, ResponseFacts
  <2>9. Len(sent["origin"]) > 0
    <3>1. Len(buf["origin"]) \in Nat /\ Len(net["origin"]) \in Nat
      BY <2>5
    <3> DEFINE a == Len(buf["origin"])
               b == Len(net["origin"])
               c == Len(sent["origin"])
    <3>2. a \in Nat /\ b \in Nat /\ a > 0 /\ c = 0 + a + b
      BY <1>5, <2>8, <3>1
    <3> HIDE DEF a, b, c
    <3>3. c > 0
      BY ONLY <3>2
    <3> QED
      BY <3>3 DEF c
  <2>10. sent["origin"] \in Seq(Tokens) /\ Has(Script("origin"), 0, sent["origin"])
    BY <2>5, ScriptFacts DEF Peers
  <2>11. 1 \in 1..Len(sent["origin"])
    BY <2>9, <2>10
  <2>12. Script("origin")[0 + 1] = sent["origin"][1]
    BY <2>10, <2>11 DEF Has
  <2> QED
    BY <2>2, <2>6, <2>7, <2>9, <2>12
<1> QED
  BY <1>1, <1>3, <1>4, <1>5

LEMMA OnResponseKeeps ==
  ASSUME ProxyInv, OnResponse
  PROVE  ProxyInv'
<1> DEFINE h == buf["origin"][1]
           s == Script("origin")
<1>1. at = "readResponse" /\ MatchedSize > 0 /\ UNCHANGED <<dir, length, dummy, peers, got>>
  BY DEF OnResponse
<1>2. /\ InResponse /\ Source = "origin" /\ dummy = "off" /\ got["browser"] = <<>> /\ buf["browser"] = <<>>
      /\ Moved = 0
  BY <1>1, ResponseHeader
<1>3. ProxyTypes /\ "origin" \in Peers /\ ResponseInv /\ buf["origin"] \in Seq(Tokens) /\ sent["origin"] \in Seq(Tokens)
  BY <1>2, ResponseFacts, BufferTypes, ScriptFacts DEF ProxyInv, Peers
<1>4. Len(buf["origin"]) > 0
  <2>1. MatchedSize \in 0..Len(buf["origin"])
    BY <1>1, <1>2, MatchedFacts DEF Reads
  <2> QED
    BY <1>1, <1>3, <2>1
<1>5. MatchedSize = 1 /\ h = s[1] /\ sent["origin"][1] = s[1] /\ Len(sent["origin"]) > 0
  BY <1>1, <1>4, ResponseHeader
<1>6. /\ s[1] = <<"header", s[1][2], s[1][3]>> /\ s[1][3] \in Nat
      /\ s[1][2] = "bad" => s[1] = Header("bad", 0)
  BY MessageFacts DEF ProxyInv, StreamInv
<1>7. h \in Tokens
  BY <1>3, <1>4
<1>8. \/ h[2] = "bad" /\ Stop /\ buf' = [buf EXCEPT !["browser"] = Append(@, h)] /\ UNCHANGED header
      \/ /\ buf' = [buf EXCEPT !["origin"] = SubSeq(@, 1 + 1, Len(@)), !["browser"] = Append(@, h)]
         /\ header' = <<h[2], h[3]>> /\ Begin("writeResponse", 0)
  BY <1>1, <1>5 DEF OnResponse
<1> HIDE DEF h, s
<1>9. CASE h[2] = "bad" /\ Stop /\ buf' = [buf EXCEPT !["browser"] = Append(@, h)] /\ UNCHANGED header
  <2>1. buf' \in [Peers -> Seq(Tokens)]
    <3>1. buf \in [Peers -> Seq(Tokens)] /\ Append(buf["browser"], h) \in Seq(Tokens)
      BY <1>3, <1>7 DEF ProxyTypes, Peers
    <3> QED
      BY <1>9, <3>1
  <2>2. Header("bad", 0) \in ToSet(sent["origin"])
    <3>1. Header("bad", 0) = sent["origin"][1] /\ 1 \in DOMAIN sent["origin"]
      BY <1>3, <1>5, <1>6, <1>9
    <3> QED
      BY <3>1 DEF ToSet
  <2>3. Outcome'
    BY <1>1, <2>2 DEF Outcome, peers
  <2>4. StreamKept
    BY <1>1, <2>1, NothingReceived
  <2> QED
    BY <1>1, <1>9, <2>3, <2>4, StopEnds
<1>10. CASE /\ buf' = [buf EXCEPT !["origin"] = SubSeq(@, 1 + 1, Len(@)), !["browser"] = Append(@, h)]
            /\ header' = <<h[2], h[3]>> /\ Begin("writeResponse", 0)
  <2>1. Other("origin") = "browser" /\ 1 \in 0..Len(buf["origin"]) /\ 1 <= Len(buf["origin"])
    BY <1>3, <1>4 DEF Other
  <2>2. MoveBuffer("origin", 1)
    BY <1>3, <1>10, <2>1, HeaderMoves DEF h
  <2>3. /\ buf' \in [Peers -> Seq(Tokens)] /\ Len(buf'["browser"]) = Len(buf["browser"]) + 1
        /\ Chain(got["browser"], buf'["browser"], buf'["origin"], net["origin"]) = sent["origin"]
    BY <1>3, <2>1, <2>2, MoveChain DEF ResponseInv
  <2>4. StreamKept
    BY <1>1, <2>3, NothingReceived
  <2>5. MatchInv' /\ ~InRequest' /\ at' = "writeResponse"
    BY <1>10 DEF Begin, MatchInv, InRequest, BodyOps
  <2>6. ResponseInv'
    BY <1>1, <1>2, <2>3, <2>5 DEF ResponseInv, peers, Writes
  <2>7. s' = s
    BY <1>1 DEF s, Script, peers
  <2>8. Moved' = 1
    BY <1>1, <1>2, <2>3 DEF Moved
  <2>9. PlaceInv'
    BY <1>1, <1>2, <1>5, <1>10, <2>5, <2>7, <2>8 DEF PlaceInv, s
  <2>10. "writeResponse" \in Ops \ {"ended"} /\ 0 \in Nat
    BY DEF Ops
  <2>11. header' = <<header'[1], header'[2]>> /\ header'[2] \in Nat
    BY <1>5, <1>6, <1>10
  <2> QED
    BY <1>1, <1>3, <1>10, <2>4, <2>5, <2>6, <2>9, <2>10, <2>11, GoesOn DEF ProxyTypes
<1> QED
  BY <1>8, <1>9, <1>10

\* A piece of a body is moved to be written.
LEMMA BodyMoves ==
  ASSUME ProxyInv, at \in {"readLength", "chunk1", "chunk3"}, NEW k \in 0..Len(buf[dir]), MoveBuffer(dir, k),
         NEW op \in {"writeBody", "chunk2", "chunk4"}, Begin(op, 0), UNCHANGED <<dir, header, dummy, peers, got>>,
         length' \in Nat, op = "chunk2" => length' > 0,
         InResponse /\ at' = op /\ dummy' = "off" /\ Moved' = Moved + k /\ Script("origin")' = Script("origin")
           => PlaceInv'
  PROVE  ProxyInv'
<1>1. ProxyTypes /\ at # "ended" /\ dir \in Peers /\ at \in BodyOps /\ op \in BodyOps
  BY DEF ProxyInv, ProxyTypes, BodyOps
<1>2. /\ buf' \in [Peers -> Seq(Tokens)]
      /\ Chain(got[Other(dir)], buf'[Other(dir)], buf'[dir], net[dir])
           = Chain(got[Other(dir)], buf[Other(dir)], buf[dir], net[dir])
      /\ Len(buf'[Other(dir)]) = Len(buf[Other(dir)]) + k
  BY <1>1, MoveChain
<1>3. StreamKept
  BY <1>2, NothingReceived
<1>4. MatchInv' /\ at' = op
  BY DEF MatchInv, Begin
<1>5. Other("browser") = "origin" /\ Other("origin") = "browser"
  BY DEF Other
<1>6. ASSUME InRequest'
      PROVE  RequestInv'
  <2>1. dir = "browser" /\ InRequest
    BY <1>1, <1>4, <1>6 DEF InRequest, BodyOps
  <2>2. RequestInv
    BY <2>1 DEF ProxyInv
  <2> QED
    BY <1>2, <1>4, <1>5, <2>1, <2>2 DEF RequestInv, peers, Writes
<1>7. ASSUME InResponse'
      PROVE  ResponseInv' /\ PlaceInv'
  <2>1. dir = "origin" /\ InResponse
    BY <1>1, <1>4, <1>7 DEF InResponse, BodyOps
  <2>2. ResponseInv /\ PlaceInv
    BY <2>1 DEF ProxyInv
  <2>3. dummy = "off"
    BY <2>2 DEF PlaceInv
  <2>4. ResponseInv'
    BY <1>2, <1>4, <1>5, <2>1, <2>2, <2>3 DEF ResponseInv, peers, Writes
  <2>5. Script("origin")' = Script("origin")
    BY DEF Script, peers
  <2>6. Moved' = Moved + k
    <3>1. Len(got["browser"]) \in Nat /\ Len(buf["browser"]) \in Nat /\ got' = got
      BY <1>1, LengthTypes DEF Peers
    <3>2. Len(buf'["browser"]) = Len(buf["browser"]) + k
      BY <1>2, <1>5, <2>1
    <3> DEFINE a == Len(got["browser"])
               b == Len(buf["browser"])
               c == Len(buf'["browser"])
    <3>3. Moved = a + b /\ Moved' = a + c
      BY <3>1 DEF Moved
    <3>4. a \in Nat /\ b \in Nat /\ c = b + k /\ k \in Nat
      BY <3>1, <3>2
    <3> HIDE DEF a, b, c
    <3>5. a + c = (a + b) + k
      BY ONLY <3>4
    <3> QED
      BY <3>3, <3>5
  <2> QED
    BY <1>4, <2>1, <2>3, <2>4, <2>5, <2>6
<1>8. op \in Ops \ {"ended"} /\ 0 \in Nat
  BY DEF Ops, BodyOps
<1> QED
  BY <1>1, <1>3, <1>4, <1>6, <1>7, <1>8, GoesOn DEF ProxyTypes

LEMMA OnContentLengthKeeps ==
  ASSUME ProxyInv, OnContentLength
  PROVE  ProxyInv'
<1> DEFINE k == MatchedSize
<1>1. /\ at = "readLength" /\ k > 0 /\ MoveBuffer(dir, k) /\ Begin("writeBody", 0)
      /\ UNCHANGED <<dir, header, length, dummy, peers, got>>
  BY DEF OnContentLength
<1>2. k = header[2] /\ k \in 0..Len(buf[dir])
  BY <1>1, MatchedFacts DEF Reads
<1> HIDE DEF k
<1>3. ASSUME InResponse, at' = "writeBody", dummy' = "off", Moved' = Moved + k, Script("origin")' = Script("origin")
      PROVE  PlaceInv'
  <2>1. PlaceInv
    BY <1>3 DEF ProxyInv
  <2> QED
    BY <1>1, <1>2, <1>3, <2>1 DEF PlaceInv
<1>4. length' \in Nat
  BY <1>1 DEF ProxyInv, ProxyTypes
<1> QED
  BY <1>1, <1>2, <1>3, <1>4, BodyMoves

\* The size of the line that a chunk begins with.
LEMMA ChunkSize ==
  ASSUME ProxyInv, at = "chunk1", InResponse, Len(buf["origin"]) > 0
  PROVE  /\ MatchedSize = 1 /\ IsSize(Moved + 1)
         /\ buf["origin"][1][1] = "size" /\ buf["origin"][1] = Script("origin")[Moved + 1]
<1>1. at \in Reads /\ Source = "origin" /\ dir = "origin" /\ ProxyTypes
  BY Halves DEF Reads, ProxyInv, BodyOps
<1>2. PlaceInv
  BY ResponseFacts
<1>3. IsSize(Moved + 1)
  BY <1>2 DEF PlaceInv
<1>4. buf["origin"][1] = Script("origin")[Moved + 1]
  BY NextToken
<1>5. buf["origin"][1][1] = "size"
  BY <1>3, <1>4 DEF IsSize
<1>6. MatchedSize = FirstEnd({"size", "LF"}, buf["origin"]) /\ buf["origin"] \in Seq(Tokens)
  BY <1>1, MatchedFacts, BufferTypes DEF Peers
<1>7. FirstEnd({"size", "LF"}, buf["origin"]) = 1
  BY <1>5, <1>6, FirstEndFacts
<1> QED
  BY <1>3, <1>4, <1>5, <1>6, <1>7

LEMMA OnChunkSizeKeeps ==
  ASSUME ProxyInv, OnChunkSize
  PROVE  ProxyInv'
<1> DEFINE k == MatchedSize
           size == IF buf[dir][1][1] = "size" THEN buf[dir][1][2] ELSE 0
           op == IF size = 0 THEN "writeBody" ELSE "chunk2"
<1>1. /\ at = "chunk1" /\ k > 0 /\ MoveBuffer(dir, k) /\ Begin(op, 0)
      /\ length' = IF size = 0 THEN 0 ELSE size + 2
      /\ UNCHANGED <<dir, header, dummy, peers, got>>
  BY DEF OnChunkSize
<1>2. ProxyTypes /\ dir \in Peers /\ buf[dir] \in Seq(Tokens)
  BY BufferTypes DEF ProxyInv, ProxyTypes
<1>3. Source = dir
  BY <1>1 DEF Source
<1>4. k \in 0..Len(buf[dir])
  BY <1>1, <1>3, MatchedFacts DEF Reads
<1>5. Len(buf[dir]) > 0 /\ buf[dir][1] \in Tokens
  BY <1>1, <1>2, <1>4
<1>6. size \in Nat
  BY <1>5, TokenSize
<1>7. InResponse => k = 1 /\ IsSize(Moved + 1) /\ size = Script("origin")[Moved + 1][2]
  <2> SUFFICES ASSUME InResponse PROVE k = 1 /\ IsSize(Moved + 1) /\ size = Script("origin")[Moved + 1][2]
    OBVIOUS
  <2>1. dir = "origin"
    BY <1>1, <1>2, Halves DEF BodyOps
  <2> QED
    BY <1>1, <1>5, <2>1, ChunkSize
<1> HIDE DEF k, size
<1>8. ASSUME InResponse, at' = op, dummy' = "off", Moved' = Moved + k, Script("origin")' = Script("origin")
      PROVE  PlaceInv'
  <2>1. PlaceInv
    BY <1>8 DEF ProxyInv
  <2> DEFINE m == Moved'
  <2>2. m = Moved + 1
    BY <1>7, <1>8
  <2>21. m \in 1..Len(Script("origin")) /\ Script("origin")[m][1] = "size" /\ size = Script("origin")[m][2]
    BY <1>7, <1>8, <2>2 DEF IsSize
  <2>22. IsSize(Moved)' /\ size = Script("origin")'[Moved'][2]
    BY <1>8, <2>21 DEF IsSize
  <2>3. header[1] = "chunked"
    BY <1>1, <2>1 DEF PlaceInv
  <2>4. header' = <<Script("origin")[1][2], Script("origin")[1][3]>> /\ header' = header
    BY <1>1, <2>1 DEF PlaceInv
  <2> QED
    BY <1>1, <1>6, <1>8, <2>22, <2>3, <2>4 DEF PlaceInv, op
<1>9. op \in {"writeBody", "chunk2", "chunk4"} /\ length' \in Nat /\ (op = "chunk2" => length' > 0)
  BY <1>1, <1>6
<1> HIDE DEF op
<1> QED
  BY <1>1, <1>4, <1>8, <1>9, BodyMoves

LEMMA OnChunkKeeps ==
  ASSUME ProxyInv, OnChunk
  PROVE  ProxyInv'
<1> DEFINE k == MatchedSize
           s == Script("origin")
<1>1. /\ at = "chunk3" /\ k > 0 /\ MoveBuffer(dir, k) /\ Begin("chunk4", 0)
      /\ UNCHANGED <<dir, header, length, dummy, peers, got>>
  BY DEF OnChunk
<1>2. k = length /\ k \in 0..Len(buf[dir])
  BY <1>1, MatchedFacts DEF Reads
<1> HIDE DEF k
<1>3. ASSUME InResponse, at' = "chunk4", dummy' = "off", Moved' = Moved + k, Script("origin")' = Script("origin")
      PROVE  PlaceInv'
  <2>1. PlaceInv /\ Moved \in Nat
    BY <1>3, ResponseFacts
  <2>2. IsSize(Moved) /\ s[Moved][2] > 0 /\ length = s[Moved][2] + 2 /\ header[1] = "chunked"
    BY <1>1, <2>1 DEF PlaceInv
  <2>3. s \in Responses
    BY DEF ProxyInv, StreamInv
  <2>4. /\ Moved \in 1..Len(s) /\ s[Moved][1] = "size"
    BY <2>2 DEF IsSize
  <2>5. Moved + s[Moved][2] + 3 \in 1..Len(s) /\ s[Moved + s[Moved][2] + 3][1] = "size" /\ s[Moved][2] \in Nat
    BY <2>2, <2>3, <2>4, FrameFacts
  <2>7. Moved' + 1 = Moved + s[Moved][2] + 3
    <3> DEFINE m == Moved
               x == s[m][2]
               y == Moved'
    <3>1. m \in Nat /\ x \in Nat /\ y = m + (x + 2)
      BY <1>2, <1>3, <2>1, <2>2, <2>5
    <3> HIDE DEF m, x, y
    <3>2. y + 1 = m + x + 3
      BY ONLY <3>1
    <3> QED
      BY <3>2 DEF m, x, y
  <2>8. IsSize(Moved + 1)'
    BY <1>3, <2>5, <2>7 DEF IsSize
  <2>9. header' = <<s[1][2], s[1][3]>> /\ header' = header
    BY <1>1, <2>1 DEF PlaceInv
  <2> QED
    BY <1>1, <1>3, <2>2, <2>8, <2>9 DEF PlaceInv
<1>4. length' \in Nat
  BY <1>1 DEF ProxyInv, ProxyTypes
<1> QED
  BY <1>1, <1>2, <1>3, <1>4, BodyMoves

\* What is written whole goes where the half under way sends it.
LEMMA WriteStream ==
  ASSUME ProxyInv, NEW o, NEW p,
         (InRequest /\ o = "origin" /\ p = "browser") \/ (InResponse /\ o = "browser" /\ p = "origin"),
         got' = [got EXCEPT ![o] = @ \o buf[o]], UNCHANGED peers, buf' \in [Peers -> Seq(Tokens)]
  PROVE  StreamKept
<1> DEFINE w == [buf EXCEPT ![o] = <<>>]
<1>1. ProxyTypes /\ net' = net /\ sent' = sent
  BY DEF ProxyInv, peers
<1>2. o \in Peers /\ p \in Peers /\ o # p /\ Other(p) = o /\ p = Other(o)
  BY DEF Other, Peers
<1>3. /\ w \in [Peers -> Seq(Tokens)] /\ got' \in [Peers -> Seq(Tokens)] /\ got'[p] = got[p]
      /\ w[o] = <<>> /\ Chain(got'[o], w[o], w[p], net[p]) = Chain(got[o], buf[o], buf[p], net[p])
  <2>1. CASE o = "origin" /\ p = "browser"
    <3> DEFINE x == [buf EXCEPT !["origin"] = <<>>]
    <3>1. got' = [got EXCEPT !["origin"] = @ \o buf["origin"]] /\ w = x
      BY <2>1
    <3>2. /\ x \in [Peers -> Seq(Tokens)] /\ got' \in [Peers -> Seq(Tokens)] /\ got'["browser"] = got["browser"]
          /\ x["origin"] = <<>> /\ Chain(got'["origin"], x["origin"], x["browser"], net["browser"])
                                 = Chain(got["origin"], buf["origin"], buf["browser"], net["browser"])
      BY <1>1, <3>1, WriteChain DEF Peers, Other
    <3> HIDE DEF w, x
    <3> QED
      BY <2>1, <3>1, <3>2
  <2>2. CASE o = "browser" /\ p = "origin"
    <3> DEFINE x == [buf EXCEPT !["browser"] = <<>>]
    <3>1. got' = [got EXCEPT !["browser"] = @ \o buf["browser"]] /\ w = x
      BY <2>2
    <3>2. /\ x \in [Peers -> Seq(Tokens)] /\ got' \in [Peers -> Seq(Tokens)] /\ got'["origin"] = got["origin"]
          /\ x["browser"] = <<>> /\ Chain(got'["browser"], x["browser"], x["origin"], net["origin"])
                                 = Chain(got["browser"], buf["browser"], buf["origin"], net["origin"])
      BY <1>1, <3>1, WriteChain DEF Peers, Other
    <3> HIDE DEF w, x
    <3> QED
      BY <2>2, <3>1, <3>2
  <2> QED
    BY <2>1, <2>2
<1>4. Chain(got[o], buf[o], buf[p], net[p]) = sent[p]
  BY RequestFacts, ResponseFacts DEF RequestInv, ResponseInv
<1> HIDE DEF w
<1>5. IsPrefix(got'[o], sent[p]) /\ Len(got'[o]) + Len(net[p]) <= Len(sent[p])
  <2> DEFINE g == got'[o]
             b == w[o]
             c == w[p]
             n == net[p]
  <2>1. g \in Seq(Tokens) /\ b \in Seq(Tokens) /\ c \in Seq(Tokens) /\ n \in Seq(Tokens)
    BY <1>1, <1>2, <1>3, BufferTypes
  <2>11. Chain(g, b, c, n) = sent[p]
    BY <1>3, <1>4
  <2> HIDE DEF g, b, c, n
  <2>2. 0 \in 0..Len(b)
    BY <2>1
  <2>3. IsPrefix(g, Chain(g, b, c, n))
    BY ONLY <2>1, <2>2, ChainPrefix
  <2>4. Len(Chain(g, b, c, n)) = Len(g) + Len(b) + Len(c) + Len(n)
    BY ONLY <2>1, ChainFacts
  <2>5. Len(g) \in Nat /\ Len(b) \in Nat /\ Len(c) \in Nat /\ Len(n) \in Nat
    BY <2>1
  <2>6. Len(g) + Len(n) <= Len(sent[p])
    BY <2>11, <2>4, <2>5
  <2> QED
    BY <2>11, <2>3, <2>6 DEF g, n
<1>6. \A q \in Peers : IsPrefix(got[q], sent[Other(q)])
  BY DEF ProxyInv, StreamInv, Forwarded
<1>7. Forwarded'
  <2> SUFFICES ASSUME NEW q \in Peers PROVE IsPrefix(got'[q], sent[Other(q)])
    BY <1>1 DEF Forwarded
  <2>1. CASE q = o
    BY <1>2, <1>5, <2>1
  <2>2. CASE q = p
    BY <1>3, <1>6, <2>2
  <2> QED
    BY <1>2, <2>1, <2>2 DEF Peers
<1>8. Len(got'["origin"]) + Len(net["browser"]) <= Len(sent["browser"])
  <2>1. CASE o = "origin"
    BY <1>2, <1>5, <2>1
  <2>2. CASE p = "origin"
    BY <1>3, <2>2 DEF ProxyInv, StreamInv
  <2> QED
    BY <1>2, <2>1, <2>2
<1> QED
  BY <1>3, <1>7, <1>8 DEF StreamKept

\* A header or a piece of a body of the request has been written.
LEMMA WrittenRequest ==
  ASSUME ProxyInv, Written, InRequest
  PROVE  ProxyInv'
<1> DEFINE w == [buf EXCEPT !["origin"] = <<>>]
           v == [w EXCEPT !["browser"] = <<>>]
<1>1. /\ at \in {"writeRequest", "writeBody", "chunk2", "chunk4"} /\ Target = "origin"
      /\ at # "writeRequest" => dir = "browser"
      /\ ProxyTypes /\ at # "ended"
  <2>1. at \in Writes /\ at # "ended" /\ ProxyTypes
    BY DEF Written, ProxyInv, Writes
  <2> QED
    BY <2>1, Halves DEF Writes, BodyOps
<1>2. /\ got' = [got EXCEPT !["origin"] = @ \o buf["origin"]] /\ AfterWrite(w) /\ UNCHANGED peers /\ at \in Writes
  BY <1>1 DEF Written
<1>3. /\ w \in [Peers -> Seq(Tokens)] /\ got' \in [Peers -> Seq(Tokens)]
      /\ w["origin"] = <<>> /\ got'["browser"] = got["browser"]
      /\ Chain(got'["origin"], w["origin"], w["browser"], net["browser"])
           = Chain(got["origin"], buf["origin"], buf["browser"], net["browser"])
  BY <1>1, <1>2, WriteChain DEF Peers, Other
<1>4. RequestInv /\ net' = net /\ sent' = sent
  BY <1>2, RequestFacts DEF peers
<1>5. \/ at = "writeRequest" /\ HasBody /\ buf' = w /\ BeginBody("browser")
      \/ AwaitResponse(w) /\ UNCHANGED <<dir, header, length, dummy>>
      \/ at = "chunk2" /\ buf' = w /\ Begin("chunk3", length) /\ UNCHANGED <<dir, header, length, dummy>>
      \/ at = "chunk4" /\ buf' = w /\ Begin("chunk1", 0) /\ UNCHANGED <<dir, header, length, dummy>>
  <2> HIDE DEF w
  <2> QED
    BY <1>1, <1>2 DEF AfterWrite
<1>6. v \in [Peers -> Seq(Tokens)] /\ v["browser"] = <<>> /\ v["origin"] = <<>>
  <2>1. <<>> \in Seq(Tokens)
    OBVIOUS
  <2> HIDE DEF w
  <2> QED
    BY <1>3, <2>1 DEF Peers
<1> HIDE DEF w, v
<1>7. ASSUME buf' = w, dummy' = dummy, at' \notin {"connect", "readRequest"}
      PROVE  RequestInv'
  BY <1>3, <1>4, <1>7 DEF RequestInv
<1>8. /\ header = <<header[1], header[2]>> /\ header[2] \in Nat /\ length \in Nat /\ dir \in Peers
      /\ dummy \in {"off", "pending", "done"} /\ "browser" \in Peers
  BY <1>1 DEF ProxyTypes, Peers
<1>9. CASE at = "writeRequest" /\ HasBody /\ buf' = w /\ BeginBody("browser")
  <2> DEFINE op == IF header[1] = "chunked" THEN "chunk1" ELSE "readLength"
  <2>1. Begin(op, header[2]) /\ dir' = "browser" /\ length' = header[2] /\ UNCHANGED <<header, dummy>>
    BY <1>9 DEF BeginBody
  <2>2. at' = op /\ match' = [searched |-> 0, left |-> header[2]] /\ op \in Ops \ {"ended"}
    BY <2>1 DEF Begin, Ops, BodyOps
  <2>3. StreamKept
    BY <1>2, <1>1, <1>3, <1>9, WriteStream
  <2>4. MatchInv'
    <3>1. op = "readLength" => header[2] > 0
      BY <1>8, <1>9 DEF HasBody
    <3>2. buf'["browser"] \in Seq(Tokens)
      BY <1>3, <1>9 DEF Peers
    <3> QED
      BY <1>8, <2>1, <2>2, <3>1, <3>2 DEF MatchInv
  <2>5. RequestInv' /\ ~InResponse'
    BY <1>7, <1>9, <2>1, <2>2 DEF InResponse
  <2> HIDE DEF op
  <2> QED
    BY <1>1, <1>2, <1>8, <2>1, <2>2, <2>3, <2>4, <2>5, GoesOn
<1>10. CASE AwaitResponse(w) /\ UNCHANGED <<dir, header, length, dummy>>
  <2>1. buf' = v /\ Begin("readResponse", 0)
    BY <1>10 DEF AwaitResponse, v
  <2>2. at' = "readResponse" /\ "readResponse" \in Ops \ {"ended"} /\ 0 \in Nat
    BY <2>1 DEF Begin, Ops
  <2>3. StreamKept
    BY <1>2, <1>1, <1>6, <2>1, WriteStream
  <2>4. MatchInv' /\ ~InRequest'
    BY <2>2 DEF MatchInv, InRequest, BodyOps
  <2>5. dummy' = "off" /\ PlaceInv'
    BY <1>4, <1>10, <2>2 DEF RequestInv, PlaceInv
  <2>6. ResponseInv'
    <3>1. got'["browser"] = <<>> /\ net'["origin"] = sent'["origin"] /\ buf'["browser"] = <<>> /\ buf'["origin"] = <<>>
      BY <1>3, <1>4, <1>6, <2>1 DEF RequestInv
    <3>2. sent["origin"] \in Seq(Tokens) /\ sent' = sent
      BY <1>1, <1>4, ScriptFacts DEF Peers
    <3> DEFINE t == sent["origin"]
    <3>3. t \in Seq(Tokens)
      BY <3>2
    <3> HIDE DEF t
    <3>4. Chain(<<>>, <<>>, <<>>, t) = t
      BY ONLY <3>3 DEF Chain
    <3> QED
      BY <2>2, <2>5, <3>1, <3>2, <3>4 DEF ResponseInv, t
  <2> QED
    BY <1>1, <1>2, <1>8, <1>10, <2>1, <2>2, <2>3, <2>4, <2>5, <2>6, GoesOn
<1>11. CASE at = "chunk2" /\ buf' = w /\ Begin("chunk3", length) /\ UNCHANGED <<dir, header, length, dummy>>
  <2>1. at' = "chunk3" /\ match' = [searched |-> 0, left |-> length] /\ "chunk3" \in Ops \ {"ended"}
    BY <1>11 DEF Begin, Ops, BodyOps
  <2>2. StreamKept
    BY <1>2, <1>1, <1>3, <1>11, WriteStream
  <2>3. MatchInv'
    <3>1. length > 0
      BY <1>11 DEF ProxyInv, MatchInv
    <3>2. buf'[dir] \in Seq(Tokens)
      BY <1>3, <1>8, <1>11
    <3> QED
      BY <1>8, <1>11, <2>1, <3>1, <3>2 DEF MatchInv
  <2>4. RequestInv' /\ ~InResponse'
    BY <1>1, <1>7, <1>11, <2>1 DEF InResponse
  <2> QED
    BY <1>1, <1>2, <1>8, <1>11, <2>1, <2>2, <2>3, <2>4, GoesOn
<1>12. CASE at = "chunk4" /\ buf' = w /\ Begin("chunk1", 0) /\ UNCHANGED <<dir, header, length, dummy>>
  <2>1. at' = "chunk1" /\ "chunk1" \in Ops \ {"ended"} /\ 0 \in Nat
    BY <1>12 DEF Begin, Ops, BodyOps
  <2>2. StreamKept
    BY <1>2, <1>1, <1>3, <1>12, WriteStream
  <2>3. MatchInv'
    BY <2>1 DEF MatchInv
  <2>4. RequestInv' /\ ~InResponse'
    BY <1>1, <1>7, <1>12, <2>1 DEF InResponse
  <2> QED
    BY <1>1, <1>2, <1>8, <1>12, <2>1, <2>2, <2>3, <2>4, GoesOn
<1> QED
  BY <1>5, <1>9, <1>10, <1>11, <1>12

\* What a prefix of a message is when it has its length.
LEMMA PrefixIs ==
  ASSUME NEW S, NEW g \in Seq(S), NEW t \in Seq(S), NEW s \in Seq(S), IsPrefix(g, t),
         Has(s, 0, t), Len(t) <= Len(s)
  PROVE  Len(g) <= Len(s) /\ g = SubSeq(s, 1, Len(g)) /\ (Len(g) = Len(s) => g = s)
<1>1. Len(g) \in Nat /\ Len(t) \in Nat /\ Len(s) \in Nat
  OBVIOUS
<1>2. Len(g) <= Len(t) /\ \A i \in 1..Len(g) : g[i] = t[i]
  BY PrefixPlaces
<1>3. \A i \in 1..Len(g) : g[i] = s[i]
  <2> SUFFICES ASSUME NEW i \in 1..Len(g) PROVE g[i] = s[i]
    OBVIOUS
  <2>1. i \in 1..Len(t) /\ 0 + i = i
    BY <1>1, <1>2
  <2>2. s[0 + i] = t[i]
    BY <2>1 DEF Has
  <2> QED
    BY <1>2, <2>1, <2>2
<1>4. Len(g) <= Len(s)
  BY <1>1, <1>2
<1> DEFINE u == SubSeq(s, 1, Len(g))
<1>5. u \in Seq(S) /\ Len(u) = Len(g) /\ \A i \in 1..Len(g) : u[i] = s[i]
  BY <1>1, <1>4, CutTwo
<1> HIDE DEF u
<1>6. g = u
  BY <1>3, <1>5, SameSeq
<1>7. Len(g) = Len(s) => g = s
  BY <1>3, SameSeq
<1> QED
  BY <1>4, <1>6, <1>7 DEF u

\* All of a response that is not chunked, or all up to the size 0.
LEMMA WholeIs ==
  ASSUME NEW s \in Responses
  PROVE  /\ s[1][2] # "chunked" => Whole(s) = s
         /\ \A i \in 1..Len(s) : s[i][1] = "size" /\ s[i][2] = 0 => Whole(s) = SubSeq(s, 1, i)
<1>1. s \in Seq(Tokens) /\ Len(s) \in Nat
  BY MessageFacts
<1>2. ASSUME s[1][2] # "chunked"
      PROVE  Whole(s) = s
  <2>1. ASSUME Len(s) > 2, s[Len(s) - 2] = Size(0)
        PROVE  FALSE
    <3>1. Len(s) - 2 \in 1..Len(s) /\ s[Len(s) - 2][1] = "size"
      BY <1>1, <2>1 DEF Size
    <3> QED
      BY <1>2, <3>1, FrameFacts
  <2> QED
    BY <2>1 DEF Whole
<1>3. ASSUME NEW i \in 1..Len(s), s[i][1] = "size", s[i][2] = 0
      PROVE  Whole(s) = SubSeq(s, 1, i)
  <2>1. Len(s) = i + 2 /\ s[i] = Size(s[i][2])
    BY <1>3, FrameFacts
  <2>2. Len(s) > 2 /\ Len(s) - 2 = i /\ s[i] = Size(0)
    BY <1>1, <1>3, <2>1
  <2> QED
    BY <2>2 DEF Whole
<1> QED
  BY <1>2, <1>3

\* The end of the response's half, when as much as there is has been received.
LEMMA ResponseEnds ==
  ASSUME ProxyInv, StreamKept, UNCHANGED peers,
         LET s == Script("origin")
             n == Len(got'["browser"])
         IN  \/ n \in 1..Len(s) /\ s[n][1] = "size" /\ s[n][2] = 0
             \/ s[1][2] # "chunked" /\ n = Len(s)
             \/ s[1][2] = "bad" /\ n > 0
  PROVE  Outcome'
<1> DEFINE s == Script("origin")
           t == sent["origin"]
           g == got'["browser"]
           n == Len(g)
<1>1. ProxyTypes /\ s \in Responses
  BY DEF ProxyInv, StreamInv
<1>2. /\ g \in Seq(Tokens) /\ t \in Seq(Tokens) /\ s \in Seq(Tokens) /\ Has(s, 0, t) /\ Len(t) <= Len(s)
  BY <1>1, ScriptFacts DEF StreamKept, Peers
<1>3. IsPrefix(g, t)
  BY DEF StreamKept, Forwarded, Other, Peers, peers
<1>4. s' = s /\ t' = t
  BY DEF Script, peers
<1>5. \/ n \in 1..Len(s) /\ s[n][1] = "size" /\ s[n][2] = 0
      \/ s[1][2] # "chunked" /\ n = Len(s)
      \/ s[1][2] = "bad" /\ n > 0
  OBVIOUS
<1>6. Whole(s)' = Whole(s)
  BY <1>4 DEF Whole
<1> HIDE DEF s, t, g
<1>7. g = SubSeq(s, 1, Len(g)) /\ (Len(g) = Len(s) => g = s)
  BY ONLY <1>2, <1>3, PrefixIs
<1>8. CASE n \in 1..Len(s) /\ s[n][1] = "size" /\ s[n][2] = 0
  <2>1. Whole(s) = SubSeq(s, 1, n)
    BY <1>1, <1>8, WholeIs
  <2>2. g = Whole(s)
    BY <1>7, <2>1
  <2> QED
    BY <1>4, <2>2 DEF Outcome, g, s
<1>9. CASE s[1][2] # "chunked" /\ n = Len(s)
  <2>1. g = Whole(s)
    BY <1>1, <1>7, <1>9, WholeIs
  <2> QED
    BY <1>4, <2>1 DEF Outcome, g, s
<1>10. CASE s[1][2] = "bad" /\ n > 0
  <2>1. s[1] = Header("bad", 0)
    BY <1>1, <1>10, MessageFacts
  <2>2. Len(g) <= Len(t) /\ Len(g) \in Nat /\ Len(t) \in Nat
    BY <1>2, <1>3, PrefixPlaces
  <2>3. 1 \in 1..Len(t)
    BY <1>10, <2>2
  <2>4. s[0 + 1] = t[1]
    BY <1>2, <2>3 DEF Has
  <2>5. t[1] = Header("bad", 0) /\ 1 \in DOMAIN t
    BY <1>2, <2>1, <2>3, <2>4
  <2>6. Header("bad", 0) \in ToSet(t)
    BY <2>5 DEF ToSet
  <2> QED
    BY <1>4, <2>6 DEF Outcome, t
<1> QED
  BY <1>5, <1>8, <1>9, <1>10

\* A header or a piece of a body of the response has been written.
LEMMA WrittenResponse ==
  ASSUME ProxyInv, Written, InResponse
  PROVE  ProxyInv'
<1> DEFINE w == [buf EXCEPT !["browser"] = <<>>]
           s == Script("origin")
           same == UNCHANGED <<dir, header, length, dummy>>
<1>1. /\ at \in {"writeResponse", "writeBody", "chunk2", "chunk4"} /\ Target = "browser"
      /\ at # "writeResponse" => dir = "origin"
      /\ ProxyTypes /\ at # "ended"
  <2>1. at \in Writes /\ at # "ended" /\ ProxyTypes
    BY DEF Written, ProxyInv, Writes
  <2> QED
    BY <2>1, Halves DEF Writes, BodyOps
<1>2. got' = [got EXCEPT !["browser"] = @ \o buf["browser"]] /\ AfterWrite(w) /\ UNCHANGED peers
  BY <1>1 DEF Written
<1>3. /\ w \in [Peers -> Seq(Tokens)] /\ got' \in [Peers -> Seq(Tokens)]
      /\ w["browser"] = <<>> /\ got'["origin"] = got["origin"]
      /\ Chain(got'["browser"], w["browser"], w["origin"], net["origin"])
           = Chain(got["browser"], buf["browser"], buf["origin"], net["origin"])
      /\ Len(got'["browser"]) = Moved
  BY <1>1, <1>2, WriteChain DEF Peers, Other, Moved
<1>4. ResponseInv /\ PlaceInv /\ Moved \in Nat /\ net' = net /\ sent' = sent /\ closed' = closed
  BY <1>2, ResponseFacts DEF peers
<1>5. \/ at = "writeResponse" /\ HasBody /\ buf' = w /\ BeginBody("origin")
      \/ /\ at = "writeResponse" /\ ~HasBody /\ header[1] = "unknown" /\ buf' = w /\ dir' = "origin"
         /\ Begin("unknown", 0) /\ dummy' = "pending" /\ UNCHANGED <<header, length>>
      \/ at = "writeResponse" /\ ~HasBody /\ header[1] # "unknown" /\ buf' = w /\ Stop /\ same
      \/ at = "writeBody" /\ dummy # "off" /\ buf' = w /\ Begin("unknown", 0) /\ same
      \/ at = "writeBody" /\ dummy = "off" /\ buf' = w /\ Stop /\ same
      \/ at = "chunk2" /\ buf' = w /\ Begin("chunk3", length) /\ same
      \/ at = "chunk4" /\ buf' = w /\ Begin("chunk1", 0) /\ same
  <2> HIDE DEF w
  <2> QED
    BY <1>1, <1>2 DEF AfterWrite
<1>6. buf' = w
  BY <1>5
<1> HIDE DEF w
<1>7. Moved' = Moved /\ s' = s /\ Script("browser")' = Script("browser") /\ Short' = Short
  <2>1. s' = s /\ Script("browser")' = Script("browser")
    BY <1>2 DEF Script, peers
  <2>2. Len(buf'["browser"]) = 0
    BY <1>3, <1>6
  <2> QED
    BY <1>3, <1>4, <2>1, <2>2 DEF Moved, Short
<1>8. StreamKept
  BY <1>2, <1>3, <1>6, WriteStream
<1>9. ASSUME at' # "readResponse", dummy' = dummy \/ dummy' = "pending"
      PROVE  ResponseInv'
  BY <1>3, <1>4, <1>6, <1>7, <1>9 DEF ResponseInv
<1>10. /\ header = <<header[1], header[2]>> /\ header[2] \in Nat /\ length \in Nat /\ dir \in Peers
       /\ dummy \in {"off", "pending", "done"} /\ "origin" \in Peers /\ 0 \in Nat
       /\ header = <<s[1][2], s[1][3]>>
  BY <1>1, <1>4 DEF ProxyTypes, Peers, PlaceInv
<1>11. header[1] = s[1][2] /\ header[2] = s[1][3] /\ s \in Responses
  BY <1>10 DEF ProxyInv, StreamInv
<1>12. at = "writeResponse" => Moved = 1 /\ dummy = "off"
  BY <1>4 DEF PlaceInv
<1>13. at \in {"chunk2", "chunk4"} => dummy = "off"
  BY <1>4 DEF PlaceInv
<1>14. CASE at = "writeResponse" /\ HasBody /\ buf' = w /\ BeginBody("origin")
  <2> DEFINE op == IF header[1] = "chunked" THEN "chunk1" ELSE "readLength"
  <2>1. Begin(op, header[2]) /\ dir' = "origin" /\ length' = header[2] /\ UNCHANGED <<header, dummy>>
    BY <1>14 DEF BeginBody
  <2>2. at' = op /\ match' = [searched |-> 0, left |-> header[2]] /\ op \in Ops \ {"ended"}
    BY <2>1 DEF Begin, Ops, BodyOps
  <2>3. op = "readLength" => header[2] > 0
    BY <1>10, <1>14 DEF HasBody
  <2>4. MatchInv'
    <3>1. buf'["origin"] \in Seq(Tokens)
      BY <1>3, <1>6 DEF Peers
    <3> QED
      BY <1>10, <2>1, <2>2, <2>3, <3>1 DEF MatchInv
  <2>5. ~InRequest' /\ ResponseInv'
    BY <1>9, <2>1, <2>2 DEF InRequest
  <2>6. op = "chunk1" => header[1] = "chunked" /\ IsSize(Moved + 1)'
    <3>1. op = "chunk1" => Len(s) > 1 /\ s[2][1] = "size" /\ header[1] = "chunked"
      BY <1>11, FrameFacts
    <3>2. s \in Seq(Tokens)
      BY <1>11, MessageFacts
    <3>3. Moved' + 1 = 2
      BY <1>7, <1>12, <1>14
    <3> QED
      BY <1>7, <3>1, <3>2, <3>3 DEF IsSize
  <2>7. PlaceInv'
    BY <1>7, <1>10, <1>12, <1>14, <2>1, <2>2, <2>3, <2>6 DEF PlaceInv
  <2> HIDE DEF op
  <2> QED
    BY <1>1, <1>2, <1>8, <1>10, <2>1, <2>2, <2>4, <2>5, <2>7, GoesOn
<1>15. CASE /\ at = "writeResponse" /\ ~HasBody /\ header[1] = "unknown" /\ buf' = w /\ dir' = "origin"
            /\ Begin("unknown", 0) /\ dummy' = "pending" /\ UNCHANGED <<header, length>>
  <2>1. at' = "unknown" /\ "unknown" \in Ops \ {"ended"}
    BY <1>15 DEF Begin, Ops
  <2>2. MatchInv' /\ ~InRequest' /\ ResponseInv'
    BY <1>9, <1>15, <2>1 DEF MatchInv, InRequest, BodyOps
  <2>3. header = <<"unknown", 0>>
    <3>1. header[2] = 0
      BY <1>10, <1>15 DEF HasBody
    <3> QED
      BY <1>10, <1>15, <3>1
  <2>4. PlaceInv'
    BY <1>7, <1>10, <1>15, <2>1, <2>3 DEF PlaceInv
  <2> QED
    BY <1>1, <1>2, <1>8, <1>10, <1>15, <2>1, <2>2, <2>4, GoesOn
<1>16. CASE at = "writeResponse" /\ ~HasBody /\ header[1] # "unknown" /\ buf' = w /\ Stop /\ same
  <2>1. s[1][2] # "chunked" /\ s[1][3] = 0 /\ s[1][2] # "unknown"
    BY <1>10, <1>11, <1>16 DEF HasBody
  <2>2. s[1][2] = "bad" \/ Len(s) = 1
    <3>1. s[1] = Header("unknown", 0) \/ s[1][2] = "bad" \/ Len(s) = s[1][3] + 1
      BY <1>11, <2>1, FrameFacts
    <3>2. s[1] # Header("unknown", 0)
      BY <2>1 DEF Header
    <3>3. s[1][3] + 1 = 1
      BY <2>1
    <3> QED
      BY <3>1, <3>2, <3>3
  <2>3. Len(got'["browser"]) = 1
    BY <1>3, <1>12, <1>16
  <2>4. Outcome'
    <3>1. CASE s[1][2] = "bad"
      <4>1. s[1][2] = "bad" /\ Len(got'["browser"]) > 0
        BY <2>3, <3>1
      <4> QED
        BY <1>2, <1>8, <4>1, ResponseEnds
    <3>2. CASE Len(s) = 1
      <4>1. s[1][2] # "chunked" /\ Len(got'["browser"]) = Len(s)
        BY <2>1, <2>3, <3>2
      <4> QED
        BY <1>2, <1>8, <4>1, ResponseEnds
    <3> QED
      BY <2>2, <3>1, <3>2
  <2> QED
    BY <1>2, <1>8, <1>16, <2>4, StopEnds
<1>17. CASE at = "writeBody" /\ dummy # "off" /\ buf' = w /\ Begin("unknown", 0) /\ same
  <2>1. at' = "unknown" /\ "unknown" \in Ops \ {"ended"}
    BY <1>17 DEF Begin, Ops
  <2>2. MatchInv' /\ ~InRequest' /\ ResponseInv'
    BY <1>9, <1>17, <2>1 DEF MatchInv, InRequest, BodyOps
  <2>3. PlaceInv'
    BY <1>1, <1>4, <1>7, <1>10, <1>17, <2>1 DEF PlaceInv
  <2> QED
    BY <1>1, <1>2, <1>8, <1>10, <1>17, <2>1, <2>2, <2>3, GoesOn
<1>18. CASE at = "writeBody" /\ dummy = "off" /\ buf' = w /\ Stop /\ same
  <2>1. IF header[1] = "chunked" THEN IsSize(Moved) /\ s[Moved][2] = 0 ELSE Moved = header[2] + 1 /\ header[2] > 0
    BY <1>4, <1>18 DEF PlaceInv
  <2>2. CASE header[1] = "chunked"
    <3>1. Moved \in 1..Len(s) /\ s[Moved][1] = "size" /\ s[Moved][2] = 0
      BY <2>1, <2>2 DEF IsSize
    <3>2. Outcome'
      BY <1>2, <1>3, <1>8, <3>1, ResponseEnds
    <3> QED
      BY <1>2, <1>8, <1>18, <3>2, StopEnds
  <2>3. CASE header[1] # "chunked"
    <3>1. s[1][2] # "chunked" /\ Moved = s[1][3] + 1 /\ s[1][3] > 0
      BY <1>11, <2>1, <2>3
    <3>2. s[1][2] # "bad" /\ s[1] # Header("unknown", 0)
      BY <1>10, <1>11, <3>1, MessageFacts DEF Header
    <3>3. Moved = Len(s)
      BY <1>11, <3>1, <3>2, FrameFacts
    <3>4. Outcome'
      BY <1>2, <1>3, <1>8, <3>1, <3>3, ResponseEnds
    <3> QED
      BY <1>2, <1>8, <1>18, <3>4, StopEnds
  <2> QED
    BY <2>2, <2>3
<1>19. CASE at = "chunk2" /\ buf' = w /\ Begin("chunk3", length) /\ same
  <2>1. at' = "chunk3" /\ match' = [searched |-> 0, left |-> length] /\ "chunk3" \in Ops \ {"ended"}
    BY <1>19 DEF Begin, Ops, BodyOps
  <2>2. MatchInv'
    <3>1. length > 0
      BY <1>19 DEF ProxyInv, MatchInv
    <3>2. buf'[dir] \in Seq(Tokens)
      BY <1>3, <1>6, <1>10
    <3> QED
      BY <1>10, <1>19, <2>1, <3>1, <3>2 DEF MatchInv
  <2>3. ~InRequest' /\ ResponseInv'
    BY <1>1, <1>9, <1>19, <2>1 DEF InRequest
  <2>4. PlaceInv'
    BY <1>4, <1>7, <1>10, <1>13, <1>19, <2>1 DEF PlaceInv, IsSize
  <2> QED
    BY <1>1, <1>2, <1>8, <1>10, <1>19, <2>1, <2>2, <2>3, <2>4, GoesOn
<1>20. CASE at = "chunk4" /\ buf' = w /\ Begin("chunk1", 0) /\ same
  <2>1. at' = "chunk1" /\ "chunk1" \in Ops \ {"ended"}
    BY <1>20 DEF Begin, Ops, BodyOps
  <2>2. MatchInv' /\ ~InRequest' /\ ResponseInv'
    BY <1>1, <1>9, <1>20, <2>1 DEF MatchInv, InRequest
  <2>3. PlaceInv'
    BY <1>4, <1>7, <1>10, <1>13, <1>20, <2>1 DEF PlaceInv, IsSize
  <2> QED
    BY <1>1, <1>2, <1>8, <1>10, <1>20, <2>1, <2>2, <2>3, GoesOn
<1> QED
  BY <1>5, <1>14, <1>15, <1>16, <1>17, <1>18, <1>19, <1>20

LEMMA WrittenKeeps ==
  ASSUME ProxyInv, Written
  PROVE  ProxyInv'
<1>1. at # "ended" /\ ProxyTypes
  BY DEF Written, Writes, ProxyInv
<1> QED
  BY <1>1, Halves, WrittenRequest, WrittenResponse

\* A part of a write is a part of the chain.
LEMMA PartStream ==
  ASSUME ProxyInv, NEW o, NEW p,
         (InRequest /\ o = "origin" /\ p = "browser") \/ (InResponse /\ o = "browser" /\ p = "origin"),
         NEW n \in 0..(Len(buf[o]) - 1), got' = [got EXCEPT ![o] = @ \o SubSeq(buf[o], 1, n)],
         UNCHANGED <<peers, buf>>
  PROVE  StreamKept /\ got'[p] = got[p] /\ Len(got'[o]) < Len(got[o]) + Len(buf[o])
<1> DEFINE u == got[o] \o SubSeq(buf[o], 1, n)
<1>1. ProxyTypes /\ net' = net /\ sent' = sent /\ buf' = buf
  BY DEF ProxyInv, peers
<1>2. o \in Peers /\ p \in Peers /\ o # p /\ Other(p) = o /\ p = Other(o)
  BY DEF Other, Peers
<1>3. got[o] \in Seq(Tokens) /\ buf[o] \in Seq(Tokens) /\ got \in [Peers -> Seq(Tokens)]
      /\ buf \in [Peers -> Seq(Tokens)] /\ buf[p] \in Seq(Tokens) /\ net[p] \in Seq(Tokens)
  BY <1>1, <1>2 DEF ProxyTypes
<1>4. n \in 0..Len(buf[o]) /\ n < Len(buf[o]) /\ n \in Nat /\ Len(buf[o]) \in Nat /\ Len(got[o]) \in Nat
      /\ Len(buf[p]) \in Nat /\ Len(net[p]) \in Nat
  BY <1>3
<1>5. Len(u) = Len(got[o]) + n /\ IsPrefix(u, sent[p])
  <2>1. CASE InRequest /\ o = "origin" /\ p = "browser"
    BY <1>4, <2>1, RequestFacts
  <2>2. CASE InResponse /\ o = "browser" /\ p = "origin"
    BY <1>4, <2>2, ResponseFacts
  <2> QED
    BY <2>1, <2>2
<1>6. u \in Seq(Tokens)
  <2> DEFINE g == got[o]
             v == SubSeq(buf[o], 1, n)
  <2>1. g \in Seq(Tokens) /\ v \in Seq(Tokens)
    BY <1>3, <1>4, CutTwo
  <2> HIDE DEF g, v
  <2>2. g \o v \in Seq(Tokens)
    BY ONLY <2>1, Concat
  <2> QED
    BY <2>2 DEF g, v
<1>7. got' = [got EXCEPT ![o] = u]
  OBVIOUS
<1> HIDE DEF u
<1>8. got'[o] = u /\ got'[p] = got[p] /\ got' \in [Peers -> Seq(Tokens)]
  BY <1>2, <1>3, <1>6, <1>7
<1>9. \A q \in Peers : IsPrefix(got[q], sent[Other(q)])
  BY DEF ProxyInv, StreamInv, Forwarded
<1>10. Forwarded'
  <2> SUFFICES ASSUME NEW q \in Peers PROVE IsPrefix(got'[q], sent[Other(q)])
    BY <1>1 DEF Forwarded
  <2>1. CASE q = o
    BY <1>2, <1>5, <1>8, <2>1
  <2>2. CASE q = p
    BY <1>8, <1>9, <2>2
  <2> QED
    BY <1>2, <2>1, <2>2 DEF Peers
<1>11. Len(got'[o]) < Len(got[o]) + Len(buf[o])
  BY <1>4, <1>5, <1>8
<1>12. Len(got'["origin"]) + Len(net["browser"]) <= Len(sent["browser"])
  <2>1. CASE InRequest /\ o = "origin" /\ p = "browser"
    <3>1. Len(sent[p]) = Len(got[o]) + Len(buf[o]) + Len(buf[p]) + Len(net[p])
      BY <2>1, RequestFacts
    <3> DEFINE x == Len(got'[o])
               a == Len(got[o])
               b == Len(buf[o])
               c == Len(buf[p])
               d == Len(net[p])
    <3>2. x = a + n /\ n < b /\ a \in Nat /\ b \in Nat /\ c \in Nat /\ d \in Nat /\ n \in Nat
      BY <1>4, <1>5, <1>8
    <3>3. Len(sent[p]) = a + b + c + d
      BY <3>1
    <3> HIDE DEF x, a, b, c, d
    <3>4. x + d <= a + b + c + d
      BY ONLY <3>2
    <3> QED
      BY <2>1, <3>3, <3>4 DEF x, d
  <2>2. CASE InResponse /\ o = "browser" /\ p = "origin"
    BY <1>8, <2>2 DEF ProxyInv, StreamInv
  <2> QED
    BY <2>1, <2>2
<1> QED
  BY <1>1, <1>3, <1>8, <1>10, <1>11, <1>12 DEF StreamKept

LEMMA WriteFailsKeeps ==
  ASSUME ProxyInv, WriteFails
  PROVE  ProxyInv'
<1>1. /\ at \in Writes /\ Stop /\ UNCHANGED <<dir, header, length, buf, dummy, peers>>
      /\ Target \in closed \/ "main" \in aborted
  BY DEF WriteFails
<1>2. PICK n \in 0..(Len(buf[Target]) - 1) : got' = [got EXCEPT ![Target] = @ \o SubSeq(buf[Target], 1, n)]
  BY DEF WriteFails
<1>3. ProxyTypes /\ at # "ended" /\ sent' = sent /\ closed' = closed /\ toSend' = toSend
  BY <1>1 DEF ProxyInv, Writes, peers
<1>4. (InRequest /\ Target = "origin") \/ (InResponse /\ Target = "browser")
  BY <1>1, <1>3, Halves
<1>5. CASE InRequest /\ Target = "origin"
  <2>1. StreamKept /\ Len(got'["origin"]) < Len(got["origin"]) + Len(buf["origin"])
    BY <1>1, <1>2, <1>5, PartStream
  <2>2. Len(sent["browser"]) = Len(got["origin"]) + Len(buf["origin"]) + Len(buf["browser"]) + Len(net["browser"])
    BY <1>5, RequestFacts
  <2>3. Len(sent["browser"]) <= Len(Script("browser")) /\ Script("browser") \in Seq(Tokens)
    BY <1>3, ScriptFacts DEF Peers
  <2>4. Len(got'["origin"]) < Len(Script("browser"))
    <3> DEFINE x == Len(got'["origin"])
               a == Len(got["origin"])
               b == Len(buf["origin"])
               c == Len(buf["browser"])
               d == Len(net["browser"])
               e == Len(Script("browser"))
    <3>0. a \in Nat /\ b \in Nat /\ c \in Nat /\ d \in Nat /\ e \in Nat
      BY <1>3, LengthTypes DEF Peers
    <3>1. a + b + c + d <= e /\ x < a + b
      BY <2>1, <2>2, <2>3
    <3>2. got'["origin"] \in Seq(Tokens)
      BY <2>1 DEF StreamKept, Peers
    <3>3. x \in Nat
      BY <3>2
    <3> HIDE DEF x, a, b, c, d, e
    <3>4. x < e
      BY ONLY <3>0, <3>1, <3>3
    <3> QED
      BY <3>4 DEF x, e
  <2>5. Outcome'
    BY <1>3, <2>4 DEF Outcome, Short, Script
  <2> QED
    BY <1>1, <2>1, <2>5, StopEnds
<1>6. CASE InResponse /\ Target = "browser"
  <2>1. StreamKept /\ got'["origin"] = got["origin"]
    BY <1>1, <1>2, <1>6, PartStream
  <2>2. "browser" \in closed \/ Short
    BY <1>1, <1>6, ResponseFacts DEF ProxyInv, AbortInv, ResponseInv
  <2>3. Outcome'
    BY <1>3, <2>1, <2>2 DEF Outcome, Short, Script
  <2> QED
    BY <1>1, <2>1, <2>3, StopEnds
<1> QED
  BY <1>4, <1>5, <1>6
-----------------------------------------------------------------------------
(***************************************************************************)
(* Reading.                                                                *)
(***************************************************************************)
\* Reading some leaves the chain as it is.
LEMMA ReadChain ==
  ASSUME ProxyTypes, NEW p \in Peers, NEW o \in Peers, NEW k \in 0..Len(net[p]), o # p,
         buf' = [buf EXCEPT ![p] = @ \o SubSeq(net[p], 1, k)],
         net' = [net EXCEPT ![p] = SubSeq(@, k + 1, Len(@))]
  PROVE  /\ buf' \in [Peers -> Seq(Tokens)] /\ net' \in [Peers -> Seq(Tokens)]
         /\ Chain(got[o], buf'[o], buf'[p], net'[p]) = Chain(got[o], buf[o], buf[p], net[p])
         /\ buf'[o] = buf[o] /\ net'[o] = net[o]
         /\ Len(buf[p]) <= Len(buf'[p]) /\ Len(net'[p]) <= Len(net[p])
<1>1. /\ got[o] \in Seq(Tokens) /\ buf[o] \in Seq(Tokens) /\ buf[p] \in Seq(Tokens) /\ net[p] \in Seq(Tokens)
      /\ buf \in [Peers -> Seq(Tokens)] /\ net \in [Peers -> Seq(Tokens)]
  BY DEF ProxyTypes
<1> DEFINE g == got[o]
           b == buf[o]
           c == buf[p]
           n == net[p]
           u == SubSeq(n, 1, k)
           v == SubSeq(n, k + 1, Len(n))
<1>2. buf' = [buf EXCEPT ![p] = c \o u] /\ net' = [net EXCEPT ![p] = v]
  OBVIOUS
<1>3. u \in Seq(Tokens) /\ v \in Seq(Tokens) /\ Len(u) = k /\ Len(v) = Len(n) - k
  BY <1>1, CutTwo
<1>4. g \in Seq(Tokens) /\ b \in Seq(Tokens) /\ c \in Seq(Tokens) /\ n \in Seq(Tokens) /\ k \in 0..Len(n)
  BY <1>1
<1> HIDE DEF g, b, c, n
<1>5. Chain(g, b, c \o u, v) = Chain(g, b, c, n)
  BY ONLY <1>4, ChainSteps
<1> HIDE DEF u, v
<1>6. c \o u \in Seq(Tokens) /\ Len(c \o u) = Len(c) + Len(u)
  <2>1. c \in Seq(Tokens) /\ u \in Seq(Tokens)
    BY <1>3, <1>4
  <2> QED
    BY ONLY <2>1, Concat
<1>7. Len(c) <= Len(c \o u) /\ Len(v) <= Len(n)
  <2>1. Len(c) \in Nat /\ Len(n) \in Nat /\ k \in Nat
    BY <1>4
  <2> QED
    BY <1>3, <1>6, <2>1
<1>8. buf'[p] = c \o u /\ buf'[o] = b /\ buf' \in [Peers -> Seq(Tokens)]
  <2> DEFINE w == c \o u
  <2>1. w \in Seq(Tokens) /\ buf' = [buf EXCEPT ![p] = w] /\ buf \in [Peers -> Seq(Tokens)] /\ b = buf[o]
    BY <1>1, <1>2, <1>6 DEF b
  <2> HIDE DEF w
  <2>2. buf'[p] = w /\ buf'[o] = b /\ buf' \in [Peers -> Seq(Tokens)]
    BY <2>1
  <2> QED
    BY <2>2 DEF w
<1>9. net'[p] = v /\ net'[o] = net[o] /\ net' \in [Peers -> Seq(Tokens)]
  BY <1>1, <1>2, <1>3
<1> QED
  BY <1>5, <1>7, <1>8, <1>9 DEF g, b, c, n

LEMMA ReadSomeKeeps ==
  ASSUME ProxyInv, NEW n \in 1..Len(net[Source]), ReadSome(n)
  PROVE  ProxyInv'
<1> DEFINE p == Source
           o == Other(p)
<1>1. /\ at \in Reads /\ MatchedSize = 0 /\ n <= Len(net[p])
      /\ buf' = [buf EXCEPT ![p] = @ \o SubSeq(net[p], 1, n)]
      /\ net' = [net EXCEPT ![p] = SubSeq(@, n + 1, Len(@))]
      /\ match' = Matcher(match, buf[p])
      /\ UNCHANGED <<at, dir, header, length, dummy, aborted, toSend, closed, sent, got>>
  BY DEF ReadSome
<1>2. ProxyTypes /\ at # "ended" /\ at \notin Writes /\ at # "connect"
  BY <1>1 DEF ProxyInv, Reads, Writes
<1>3. /\ (InRequest /\ p = "browser" /\ o = "origin") \/ (InResponse /\ p = "origin" /\ o = "browser")
      /\ p \in Peers /\ o \in Peers /\ o # p
  BY <1>1, <1>2, Halves DEF Other, Peers
<1>4. buf[p] \in Seq(Tokens) /\ net[p] \in Seq(Tokens)
  BY <1>2, <1>3, BufferTypes
<1>5. n \in 0..Len(net[p])
  BY <1>4
<1>6. /\ buf' \in [Peers -> Seq(Tokens)] /\ net' \in [Peers -> Seq(Tokens)]
      /\ Chain(got[o], buf'[o], buf'[p], net'[p]) = Chain(got[o], buf[o], buf[p], net[p])
      /\ buf'[o] = buf[o] /\ net'[o] = net[o]
      /\ Len(buf[p]) <= Len(buf'[p]) /\ Len(net'[p]) <= Len(net[p])
  BY <1>1, <1>2, <1>3, <1>5, ReadChain
<1> HIDE DEF p, o
<1>7. match' \in [searched : Nat, left : Nat]
  <2>1. match.searched \in Nat /\ match.left \in Nat /\ Len(buf[p]) \in Nat /\ match \in [searched : Nat, left : Nat]
    BY <1>2, <1>4 DEF ProxyTypes
  <2>2. CASE match.left <= Len(buf[p]) - match.searched
    BY <1>1, <2>1, <2>2 DEF Matcher
  <2>3. CASE ~(match.left <= Len(buf[p]) - match.searched)
    <3>1. match' = [searched |-> Len(buf[p]), left |-> match.left - (Len(buf[p]) - match.searched)]
      BY <1>1, <2>3 DEF Matcher
    <3>2. match.left - (Len(buf[p]) - match.searched) \in Nat
      BY <2>1, <2>3
    <3> QED
      BY <2>1, <3>1, <3>2
  <2> QED
    BY <2>2, <2>3
<1>8. ProxyTypes'
  BY <1>1, <1>2, <1>6, <1>7 DEF ProxyTypes
<1>9. MatchInv'
  <2>1. CASE at \in {"readLength", "chunk3"}
    <3> DEFINE d == IF at = "readLength" THEN header[2] ELSE length
    <3>1. p = dir /\ d > 0 /\ match.searched + match.left = d /\ match.searched <= Len(buf[p])
      BY <1>1, <2>1, MatchedFacts DEF p, ProxyInv, MatchInv
    <3>2. /\ match.searched \in Nat /\ match.left \in Nat /\ Len(buf[p]) \in Nat /\ d \in Nat
      BY <1>2, <1>4 DEF ProxyTypes
    <3>3. MatchedSize = IF match.left <= Len(buf[p]) - match.searched THEN match.searched + match.left ELSE 0
      BY <2>1 DEF MatchedSize, p
    <3>4. ~(match.left <= Len(buf[p]) - match.searched)
      BY <1>1, <3>1, <3>2, <3>3
    <3>5. match' = [searched |-> Len(buf[p]), left |-> match.left - (Len(buf[p]) - match.searched)]
      BY <1>1, <3>4 DEF Matcher
    <3>6. match'.searched = Len(buf[p]) /\ match'.searched + match'.left = d
      BY <3>1, <3>2, <3>5
    <3> QED
      BY <1>1, <1>6, <2>1, <3>1, <3>6 DEF MatchInv
  <2>2. CASE at \notin {"readLength", "chunk3"}
    BY <1>1, <2>2 DEF ProxyInv, MatchInv
  <2> QED
    BY <2>1, <2>2
<1>10. StreamInv'
  <2>1. Script("browser")' = Script("browser") /\ Script("origin")' = Script("origin")
    BY <1>1 DEF Script
  <2>2. Forwarded'
    BY <1>1 DEF ProxyInv, StreamInv, Forwarded
  <2>3. Len(got["origin"]) + Len(net'["browser"]) <= Len(sent["browser"])
    <3> DEFINE a == Len(got["origin"])
               b == Len(net["browser"])
               c == Len(net'["browser"])
               d == Len(sent["browser"])
    <3>1. a \in Nat /\ b \in Nat /\ d \in Nat
      BY <1>2, LengthTypes DEF Peers
    <3>2. net'["browser"] \in Seq(Tokens)
      BY <1>6 DEF Peers
    <3>3. c \in Nat
      BY <3>2
    <3>4. c <= b
      BY <1>3, <1>6, <3>1
    <3>5. a + b <= d
      BY DEF ProxyInv, StreamInv
    <3> HIDE DEF a, b, c, d
    <3>6. a + c <= d
      BY ONLY <3>1, <3>3, <3>4, <3>5
    <3> QED
      BY <3>6 DEF a, c, d
  <2> QED
    BY <1>1, <2>1, <2>2, <2>3 DEF ProxyInv, StreamInv
<1>11. AbortInv'
  BY <1>1 DEF ProxyInv, AbortInv
<1>12. InRequest' = InRequest /\ InResponse' = InResponse /\ at' # "ended"
  BY <1>1, <1>2 DEF InRequest, InResponse
<1>13. CASE InRequest /\ p = "browser" /\ o = "origin"
  <2>1. RequestInv
    BY <1>13 DEF ProxyInv
  <2>2. RequestInv'
    BY <1>1, <1>6, <1>13, <2>1 DEF RequestInv
  <2>3. ~InResponse
    BY <1>1, <1>2, <1>13, Halves DEF InResponse, BodyOps
  <2> QED
    BY <1>8, <1>9, <1>10, <1>11, <1>12, <2>2, <2>3 DEF ProxyInv
<1>14. CASE InResponse /\ p = "origin" /\ o = "browser"
  <2>1. ResponseInv /\ PlaceInv
    BY <1>14 DEF ProxyInv
  <2>2. Moved' = Moved /\ Script("origin")' = Script("origin") /\ Script("browser")' = Script("browser")
    BY <1>1, <1>6, <1>14 DEF Moved, Script
  <2>3. ResponseInv'
    BY <1>1, <1>6, <1>14, <2>1, <2>2 DEF ResponseInv, Short
  <2>4. PlaceInv'
    BY <1>1, <2>1, <2>2 DEF PlaceInv, IsSize
  <2>5. ~InRequest
    BY <1>1, <1>2, <1>14, Halves DEF InRequest, BodyOps
  <2> QED
    BY <1>8, <1>9, <1>10, <1>11, <1>12, <2>3, <2>4, <2>5 DEF ProxyInv
<1> QED
  BY <1>3, <1>13, <1>14

\* A read of the response that fails has seen less than there will be.
LEMMA ReadShort ==
  ASSUME ProxyInv, InResponse, at \in Reads \ {"unknown"}, MatchedSize = 0, net["origin"] = <<>>
  PROVE  toSend["origin"] # <<>>
<1> DEFINE s == Script("origin")
           k == Len(buf["origin"])
<1>1. ProxyTypes /\ at # "ended" /\ Source = "origin" /\ at \notin {"connect", "readRequest"}
  BY Halves DEF ProxyInv, Reads
<1>2. ResponseInv /\ PlaceInv /\ Moved \in Nat /\ Len(sent["origin"]) = Moved + k + Len(net["origin"])
  BY ResponseFacts
<1>3. buf["origin"] \in Seq(Tokens) /\ k \in Nat /\ Len(net["origin"]) = 0
  BY <1>1, BufferTypes DEF Peers
<1>4. /\ sent["origin"] \in Seq(Tokens) /\ s \in Seq(Tokens) /\ s \in Responses
      /\ toSend["origin"] = <<>> => s = sent["origin"]
  BY <1>1, ScriptFacts DEF ProxyInv, StreamInv, Peers
<1>5. Len(sent["origin"]) = Moved + k
  BY <1>2, <1>3
<1>6. Len(s) > Moved + k
  <2>1. CASE at = "readResponse"
    <3>1. k = 0
      BY <1>3, <2>1, ResponseHeader
    <3>2. Moved = 0
      BY <2>1, ResponseHeader
    <3>3. Len(s) > 0
      BY <1>4, MessageFacts
    <3> QED
      BY <3>1, <3>2, <3>3
  <2>2. CASE at = "readLength"
    <3>1. header[2] > 0 /\ ~(header[2] <= Len(buf[dir])) /\ header[2] \in Nat
      BY <1>1, <2>2, MatchedFacts DEF ProxyTypes
    <3>2. dir = "origin"
      BY <1>1, <2>2 DEF Source
    <3>3. Moved = 1 /\ header = <<s[1][2], s[1][3]>> /\ header[1] # "chunked"
      BY <1>2, <2>2 DEF PlaceInv
    <3>4. s[1][2] # "chunked" /\ s[1][3] = header[2]
      BY <3>3
    <3>5. s[1][2] # "bad" /\ s[1] # Header("unknown", 0)
      BY <1>4, <3>1, <3>4, MessageFacts DEF Header
    <3>6. Len(s) = header[2] + 1
      BY <1>4, <3>4, <3>5, FrameFacts
    <3>7. k < header[2]
      BY <1>3, <3>1, <3>2
    <3> DEFINE m == header[2]
    <3>8. Len(s) = m + 1 /\ k < m /\ m \in Nat /\ k \in Nat
      BY <1>3, <3>1, <3>6, <3>7
    <3> HIDE DEF m, k
    <3>9. Len(s) > 1 + k
      BY ONLY <3>8
    <3> QED
      BY <3>3, <3>9
  <2>3. CASE at = "chunk1"
    <3>1. k = 0
      BY <1>3, <2>3, ChunkSize
    <3>2. Moved + 1 \in 1..Len(s)
      BY <1>2, <2>3 DEF PlaceInv, IsSize
    <3>3. Len(s) \in Nat
      BY <1>4
    <3> QED
      BY <1>2, <3>1, <3>2, <3>3
  <2>4. CASE at = "chunk3"
    <3>1. length > 0 /\ ~(length <= Len(buf[dir])) /\ length \in Nat
      BY <1>1, <2>4, MatchedFacts DEF ProxyTypes
    <3>2. dir = "origin"
      BY <1>1, <2>4 DEF Source
    <3>3. IsSize(Moved) /\ s[Moved][2] > 0 /\ length = s[Moved][2] + 2
      BY <1>2, <2>4 DEF PlaceInv
    <3>4. Moved \in 1..Len(s) /\ s[Moved][1] = "size" /\ s[Moved][2] # 0
      BY <3>3 DEF IsSize
    <3>5. Moved + s[Moved][2] + 3 \in 1..Len(s) /\ s[Moved][2] \in Nat
      BY <1>4, <3>4, FrameFacts
    <3> DEFINE x == s[Moved][2]
               m == Moved
               l == Len(s)
    <3>6. m + x + 3 \in 1..l /\ x \in Nat /\ m \in Nat /\ l \in Nat /\ k \in Nat
      BY <1>2, <1>3, <1>4, <3>5
    <3>7. ~(x + 2 <= k)
      BY <3>1, <3>2, <3>3
    <3> HIDE DEF x, m, l, k
    <3>8. l > m + k
      BY ONLY <3>6, <3>7
    <3> QED
      BY <3>8 DEF l, m
  <2> QED
    BY <1>1, <2>1, <2>2, <2>3, <2>4 DEF Reads
<1>7. ASSUME toSend["origin"] = <<>>
      PROVE  FALSE
  <2>1. Len(s) = Moved + k
    BY <1>4, <1>5, <1>7
  <2>2. Moved + k \in Nat
    BY <1>2, <1>3
  <2> HIDE DEF s, k
  <2> QED
    BY <1>6, <2>1, <2>2
<1> QED
  BY <1>7

LEMMA ProxyReadFailsKeeps ==
  ASSUME ProxyInv, ProxyReadFails
  PROVE  ProxyInv'
<1>1. /\ at \in Reads \ {"unknown"} /\ MatchedSize = 0 /\ Stop
      /\ (Source \in closed /\ net[Source] = <<>>) \/ "main" \in aborted
      /\ UNCHANGED <<dir, header, length, buf, dummy, peers, got>>
  BY DEF ProxyReadFails
<1>2. ProxyTypes /\ at # "ended"
  BY <1>1 DEF ProxyInv, Reads
<1>3. StreamKept
  BY <1>1, <1>2, NothingReceived DEF ProxyTypes
<1>4. (InRequest /\ Source = "browser") \/ (InResponse /\ Source = "origin")
  BY <1>1, <1>2, Halves
<1>5. "main" \notin aborted
  <2>1. InRequest => dummy = "off"
    BY RequestFacts DEF RequestInv
  <2>2. InResponse => dummy = "off" \/ at \in {"unknown", "writeBody"}
    BY ResponseFacts DEF PlaceInv
  <2> QED
    BY <1>1, <1>4, <2>1, <2>2 DEF ProxyInv, AbortInv, Reads
<1>6. Outcome'
  <2>1. CASE InRequest /\ Source = "browser"
    BY <1>1, <1>5, <2>1 DEF Outcome, peers
  <2>2. CASE InResponse /\ Source = "origin"
    BY <1>1, <1>5, <2>2, ReadShort DEF Outcome, peers
  <2> QED
    BY <1>4, <2>1, <2>2
<1> QED
  BY <1>1, <1>3, <1>6, StopEnds

LEMMA OnUnknownKeeps ==
  ASSUME ProxyInv, OnUnknown
  PROVE  ProxyInv'
<1> DEFINE s == Script("origin")
<1>1. /\ at = "unknown" /\ (("origin" \in closed /\ net["origin"] = <<>>) \/ "main" \in aborted)
      /\ UNCHANGED <<dir, header, length, dummy, peers, got>>
  BY DEF OnUnknown
<1>2. InResponse /\ ~InRequest /\ ProxyTypes
  BY <1>1 DEF InResponse, InRequest, BodyOps, ProxyInv
<1>3. ResponseInv /\ PlaceInv
  BY <1>2, ResponseFacts
<1>4. dummy # "off" /\ dir = "origin" /\ header = <<"unknown", 0>> /\ header = <<s[1][2], s[1][3]>> /\ buf["browser"] = <<>>
  BY <1>1, <1>3 DEF PlaceInv, ResponseInv, Writes
<1>5. s' = s /\ Script("browser")' = Script("browser") /\ got' = got /\ closed' = closed /\ sent' = sent
      /\ toSend' = toSend /\ net' = net
  BY <1>1 DEF Script, peers
<1>6. \/ MoveBuffer("origin", Len(buf["origin"])) /\ Begin("writeBody", 0)
      \/ buf["origin"] = <<>> /\ at' = "ended" /\ aborted' = {"dummy"} /\ UNCHANGED <<buf, match>>
  BY DEF OnUnknown, Cancel
<1>7. CASE MoveBuffer("origin", Len(buf["origin"])) /\ Begin("writeBody", 0)
  <2>1. Len(buf["origin"]) \in 0..Len(buf["origin"]) /\ "origin" \in Peers /\ Other("origin") = "browser"
    <3>1. buf["origin"] \in Seq(Tokens)
      BY <1>2, BufferTypes DEF Peers
    <3> QED
      BY <3>1 DEF Peers, Other
  <2>2. /\ buf' \in [Peers -> Seq(Tokens)]
        /\ Chain(got["browser"], buf'["browser"], buf'["origin"], net["origin"]) = sent["origin"]
    BY <1>2, <1>3, <1>7, <2>1, MoveChain DEF ResponseInv
  <2>3. StreamKept
    BY <1>1, <2>2, NothingReceived
  <2>4. at' = "writeBody" /\ "writeBody" \in Ops \ {"ended"} /\ 0 \in Nat
    BY <1>7 DEF Begin, Ops, BodyOps
  <2>5. MatchInv' /\ ~InRequest'
    BY <1>1, <1>4, <2>4 DEF MatchInv, InRequest
  <2>6. ResponseInv'
    BY <1>1, <1>3, <1>5, <2>2, <2>4 DEF ResponseInv, Short, Writes
  <2>7. PlaceInv'
    BY <1>1, <1>4, <1>5, <2>4 DEF PlaceInv
  <2> QED
    BY <1>1, <1>2, <1>7, <2>3, <2>4, <2>5, <2>6, <2>7, GoesOn DEF ProxyTypes
<1>8. CASE buf["origin"] = <<>> /\ at' = "ended" /\ aborted' = {"dummy"} /\ UNCHANGED <<buf, match>>
  <2>1. Outcome
    <3>1. CASE "main" \in aborted
      BY <1>3, <3>1 DEF ProxyInv, AbortInv, ResponseInv, Outcome
    <3>2. CASE "origin" \in closed /\ net["origin"] = <<>> /\ toSend["origin"] = <<>>
      <4>1. got["browser"] \in Seq(Tokens)
        BY <1>2, BufferTypes DEF Peers
      <4> DEFINE g == got["browser"]
      <4>2. g \in Seq(Tokens)
        BY <4>1
      <4> HIDE DEF g
      <4>3. Chain(g, <<>>, <<>>, <<>>) = g
        BY ONLY <4>2 DEF Chain
      <4>4. got["browser"] = sent["origin"]
        BY <1>3, <1>4, <1>8, <3>2, <4>3 DEF ResponseInv, g
      <4>5. s = sent["origin"] /\ s \in Responses
        BY <1>2, <3>2, ScriptFacts DEF Peers, ProxyInv, StreamInv
      <4>6. s[1][2] # "chunked"
        BY <1>4
      <4>7. Whole(s) = s
        BY <4>5, <4>6, WholeIs
      <4> QED
        BY <4>4, <4>5, <4>7 DEF Outcome
    <3>3. CASE "origin" \in closed /\ toSend["origin"] # <<>>
      BY <3>3 DEF Outcome
    <3> QED
      BY <1>1, <3>1, <3>2, <3>3
  <2>2. Outcome'
    BY <1>5, <2>1 DEF Outcome, Short, Whole
  <2>3. ProxyTypes'
    BY <1>1, <1>2, <1>5, <1>8 DEF ProxyTypes, Ops
  <2>4. StreamInv'
    BY <1>5 DEF ProxyInv, StreamInv, Forwarded
  <2>5. MatchInv' /\ AbortInv' /\ ~InRequest' /\ ~InResponse'
    BY <1>8 DEF MatchInv, AbortInv, InRequest, InResponse, BodyOps
  <2> QED
    BY <2>2, <2>3, <2>4, <2>5 DEF ProxyInv
<1> QED
  BY <1>6, <1>7, <1>8

LEMMA OnDummyKeeps ==
  ASSUME ProxyInv, OnDummy
  PROVE  ProxyInv'
<1>1. /\ dummy = "pending" /\ (net["browser"] # <<>> \/ "browser" \in closed \/ "dummy" \in aborted)
      /\ dummy' = "done" /\ aborted' = IF at = "ended" THEN {} ELSE {"main"}
      /\ UNCHANGED <<at, dir, match, header, length, buf, toSend, closed, sent, got>>
  BY DEF OnDummy, Cancel
<1>2. ProxyTypes
  BY DEF ProxyInv
<1>3. /\ net' \in [Peers -> Seq(Tokens)] /\ net'["origin"] = net["origin"]
      /\ Len(net'["browser"]) <= Len(net["browser"])
  <2> DEFINE n == net["browser"]
             v == IF n = <<>> THEN n ELSE Tail(n)
  <2>1. n \in Seq(Tokens) /\ net \in [Peers -> Seq(Tokens)]
    BY <1>2 DEF ProxyTypes, Peers
  <2>2. net' = [net EXCEPT !["browser"] = v]
    BY DEF OnDummy
  <2> HIDE DEF n
  <2>3. v \in Seq(Tokens) /\ Len(v) <= Len(n)
    BY <2>1
  <2> HIDE DEF v
  <2> QED
    BY <2>1, <2>2, <2>3 DEF n, Peers
<1>4. ProxyTypes'
  BY <1>1, <1>2, <1>3 DEF ProxyTypes
<1>5. /\ Script("browser")' = Script("browser") /\ Script("origin")' = Script("origin")
      /\ Short' = Short /\ Moved' = Moved /\ InRequest' = InRequest /\ InResponse' = InResponse
  BY <1>1 DEF Script, Short, Moved, InRequest, InResponse
<1>6. Len(got["origin"]) + Len(net'["browser"]) <= Len(sent["browser"])
  <2> DEFINE a == Len(got["origin"])
             b == Len(net["browser"])
             c == Len(net'["browser"])
             d == Len(sent["browser"])
  <2>1. a \in Nat /\ b \in Nat /\ d \in Nat
    BY <1>2, LengthTypes DEF Peers
  <2>2. net'["browser"] \in Seq(Tokens)
    BY <1>3 DEF Peers
  <2>3. c \in Nat
    BY <2>2
  <2>4. c <= b
    BY <1>3
  <2>5. a + b <= d
    BY DEF ProxyInv, StreamInv
  <2> HIDE DEF a, b, c, d
  <2>6. a + c <= d
    BY ONLY <2>1, <2>3, <2>4, <2>5
  <2> QED
    BY <2>6 DEF a, c, d
<1>7. StreamInv' /\ MatchInv'
  BY <1>1, <1>5, <1>6 DEF ProxyInv, StreamInv, MatchInv, Forwarded
<1>8. AbortInv'
  BY <1>1 DEF AbortInv
<1>9. ~InRequest
  BY <1>1, RequestFacts DEF RequestInv
<1>10. ASSUME InResponse
       PROVE  ResponseInv' /\ PlaceInv'
  <2>1. ResponseInv /\ PlaceInv /\ at # "ended"
    BY <1>10, ResponseFacts DEF InResponse, BodyOps
  <2>2. Short \/ "browser" \in closed
    <3>1. CASE net["browser"] # <<>>
      <4> DEFINE a == Len(got["origin"])
                 b == Len(net["browser"])
                 d == Len(sent["browser"])
                 e == Len(Script("browser"))
      <4>1. a \in Nat /\ b \in Nat /\ d \in Nat /\ e \in Nat
        BY <1>2, LengthTypes DEF Peers
      <4>2. b # 0
        BY <1>2, <3>1, BufferTypes DEF Peers
      <4>3. a + b <= d /\ d <= e
        BY <1>2, ScriptFacts DEF ProxyInv, StreamInv, Peers
      <4> HIDE DEF a, b, d, e
      <4>4. a < e
        BY ONLY <4>1, <4>2, <4>3
      <4> QED
        BY <4>4 DEF Short, a, e
    <3>2. CASE "dummy" \in aborted
      BY <2>1, <3>2 DEF ProxyInv, AbortInv
    <3> QED
      BY <1>1, <3>1, <3>2
  <2>3. ResponseInv'
    BY <1>1, <1>3, <1>5, <2>1, <2>2 DEF ResponseInv
  <2>4. PlaceInv'
    BY <1>1, <1>5, <2>1 DEF PlaceInv, IsSize
  <2> QED
    BY <2>3, <2>4
<1>11. at' = "ended" => Outcome'
  BY <1>1, <1>5 DEF ProxyInv, Outcome
<1> QED
  BY <1>4, <1>5, <1>7, <1>8, <1>9, <1>10, <1>11 DEF ProxyInv

-----------------------------------------------------------------------------
(***************************************************************************)
(* The peers.                                                              *)
(***************************************************************************)
\* What a peer sends next was to be sent next.
LEMMA SendKeeps ==
  ASSUME NEW S, NEW u \in Seq(S), NEW v \in Seq(S), v # <<>>
  PROVE  /\ Head(v) \in S /\ Tail(v) \in Seq(S) /\ Append(u, Head(v)) \in Seq(S)
         /\ Append(u, Head(v)) \o Tail(v) = u \o v
         /\ Len(Append(u, Head(v))) = Len(u) + 1
<1> DEFINE x == Head(v)
           w == Tail(v)
           o == <<x>>
<1>1. x \in S /\ w \in Seq(S) /\ Len(v) > 0
  OBVIOUS
<1>2. o \in Seq(S)
  BY <1>1
<1>3. v = o \o w
  OBVIOUS
<1>4. Append(u, x) \in Seq(S) /\ Append(u, x) = u \o o /\ Len(Append(u, x)) = Len(u) + 1
  BY <1>1, AppendIsConcat
<1> HIDE DEF o, w, x
<1>5. (u \o o) \o w = u \o (o \o w)
  BY ONLY <1>1, <1>2, u \in Seq(S)
<1> QED
  BY <1>1, <1>3, <1>4, <1>5 DEF x, w

\* A prefix is one of a longer sequence.
LEMMA PrefixGrows ==
  ASSUME NEW S, NEW g \in Seq(S), NEW t \in Seq(S), NEW x \in S, IsPrefix(g, t)
  PROVE  IsPrefix(g, Append(t, x))
<1> DEFINE u == Append(t, x)
<1>1. u \in Seq(S) /\ Len(u) = Len(t) + 1 /\ \A i \in 1..Len(t) : u[i] = t[i]
  OBVIOUS
<1>2. Len(g) <= Len(t) /\ (\A i \in 1..Len(g) : g[i] = t[i]) /\ Len(g) \in Nat /\ Len(t) \in Nat
  BY PrefixPlaces
<1> HIDE DEF u
<1>3. Len(g) <= Len(u) /\ \A i \in 1..Len(g) : g[i] = u[i]
  BY <1>1, <1>2
<1>4. u \in Seq(S)
  BY <1>1
<1>5. IsPrefix(g, u)
  BY <1>3, <1>4, PrefixPlaces
<1> QED
  BY <1>5 DEF u

LEMMA PeerSendsKeeps ==
  ASSUME ProxyInv, NEW p \in Peers, PeerSends(p)
  PROVE  ProxyInv'
<1> DEFINE x == Head(toSend[p])
           o == Other(p)
<1>1. /\ p \notin closed /\ toSend[p] # <<>>
      /\ net' = [net EXCEPT ![p] = Append(net[p], x)]
      /\ toSend' = [toSend EXCEPT ![p] = Tail(toSend[p])]
      /\ sent' = [sent EXCEPT ![p] = Append(sent[p], x)]
      /\ UNCHANGED <<at, dir, match, header, length, buf, dummy, aborted, closed, got>>
  BY DEF PeerSends
<1>2. ProxyTypes /\ net[p] \in Seq(Tokens) /\ sent[p] \in Seq(Tokens) /\ toSend[p] \in Seq(Tokens)
  BY BufferTypes, ScriptFacts DEF ProxyInv
<1>3. o \in Peers /\ o # p /\ Other(o) = p /\ (p = "browser" => o = "origin") /\ (p = "origin" => o = "browser")
  BY DEF Other, Peers
<1>4. /\ x \in Tokens /\ Tail(toSend[p]) \in Seq(Tokens) /\ Append(sent[p], x) \in Seq(Tokens)
      /\ Append(sent[p], x) \o Tail(toSend[p]) = sent[p] \o toSend[p] /\ Len(Append(sent[p], x)) = Len(sent[p]) + 1
  BY <1>1, <1>2, SendKeeps
<1> HIDE DEF x, o
<1>5. Append(net[p], x) \in Seq(Tokens) /\ Len(Append(net[p], x)) = Len(net[p]) + 1
  BY <1>2, <1>4
<1>6. /\ net'[p] = Append(net[p], x) /\ net'[o] = net[o] /\ toSend'[p] = Tail(toSend[p]) /\ toSend'[o] = toSend[o]
      /\ sent'[p] = Append(sent[p], x) /\ sent'[o] = sent[o]
      /\ net' \in [Peers -> Seq(Tokens)] /\ toSend' \in [Peers -> Seq(Tokens)] /\ sent' \in [Peers -> Seq(Tokens)]
  BY <1>1, <1>2, <1>3, <1>4, <1>5 DEF ProxyTypes
<1>7. ProxyTypes'
  BY <1>1, <1>2, <1>6 DEF ProxyTypes
<1>8. Script("browser")' = Script("browser") /\ Script("origin")' = Script("origin")
  <2>1. sent'[p] \o toSend'[p] = sent[p] \o toSend[p] /\ sent'[o] \o toSend'[o] = sent[o] \o toSend[o]
    BY <1>4, <1>6
  <2> QED
    BY <1>3, <2>1 DEF Script, Peers
<1>9. Short' = Short /\ Moved' = Moved /\ InRequest' = InRequest /\ InResponse' = InResponse
  BY <1>1, <1>8 DEF Short, Moved, InRequest, InResponse
<1>10. MatchInv' /\ AbortInv'
  BY <1>1 DEF ProxyInv, MatchInv, AbortInv
<1>11. Forwarded'
  <2> SUFFICES ASSUME NEW q \in Peers PROVE IsPrefix(got[q], sent'[Other(q)])
    BY <1>1 DEF Forwarded
  <2>1. IsPrefix(got[q], sent[Other(q)]) /\ got[q] \in Seq(Tokens)
    BY <1>2, BufferTypes DEF ProxyInv, StreamInv, Forwarded
  <2>2. CASE q = o
    BY <1>2, <1>3, <1>4, <1>6, <2>1, <2>2, PrefixGrows
  <2>3. CASE q = p
    BY <1>6, <2>1, <2>3 DEF o
  <2> QED
    BY <1>3, <2>2, <2>3 DEF Peers
<1>12. Len(got["origin"]) + Len(net'["browser"]) <= Len(sent'["browser"])
  <2>1. Len(got["origin"]) + Len(net["browser"]) <= Len(sent["browser"])
    BY DEF ProxyInv, StreamInv
  <2>2. CASE p = "browser"
    <3> DEFINE a == Len(got["origin"])
               b == Len(net["browser"])
               d == Len(sent["browser"])
    <3>1. a \in Nat /\ b \in Nat /\ d \in Nat
      BY <1>2, LengthTypes DEF Peers
    <3>2. Len(net'["browser"]) = b + 1 /\ Len(sent'["browser"]) = d + 1 /\ a + b <= d
      BY <1>4, <1>5, <1>6, <2>1, <2>2
    <3> HIDE DEF a, b, d
    <3>3. a + (b + 1) <= d + 1
      BY <3>1, <3>2
    <3> QED
      BY <3>2, <3>3 DEF a
  <2>3. CASE p = "origin"
    BY <1>3, <1>6, <2>1, <2>3
  <2> QED
    BY <2>2, <2>3 DEF Peers
<1>13. StreamInv'
  BY <1>1, <1>8, <1>11, <1>12 DEF ProxyInv, StreamInv
<1>14. ASSUME Chain(got[o], buf[o], buf[p], net[p]) = sent[p]
       PROVE  Chain(got[o], buf[o], buf[p], net'[p]) = sent'[p]
  <2> DEFINE g == got[o]
             b == buf[o]
             c == buf[p]
             n == net[p]
  <2>1. g \in Seq(Tokens) /\ b \in Seq(Tokens) /\ c \in Seq(Tokens) /\ n \in Seq(Tokens)
    BY <1>2, <1>3, BufferTypes
  <2>2. x \in Tokens
    BY <1>4
  <2> DEFINE m == net'[p]
             t == sent[p]
             u == sent'[p]
  <2>3. m = Append(n, x) /\ t = Chain(g, b, c, n) /\ u = Append(t, x)
    BY <1>6, <1>14
  <2> HIDE DEF g, b, c, n, m, t, u
  <2>4. Chain(g, b, c, m) = u
    <3> DEFINE gb == g \o b
               gbc == gb \o c
               r == gbc \o n
               y == <<x>>
    <3>1. gb \in Seq(Tokens)
      BY ONLY <2>1, Concat
    <3> HIDE DEF gb
    <3>2. gbc \in Seq(Tokens)
      BY ONLY <2>1, <3>1, Concat
    <3> HIDE DEF gbc
    <3>3. r \in Seq(Tokens)
      BY ONLY <2>1, <3>2, Concat
    <3>4. y \in Seq(Tokens)
      BY <2>2
    <3>5. n \in Seq(Tokens)
      BY <2>1
    <3>6. t = r /\ Chain(g, b, c, m) = gbc \o m
      BY <2>3 DEF Chain, gb, gbc
    <3>7. m = n \o y
      BY <2>2, <2>3, <3>5, AppendIsConcat
    <3>8. u = r \o y
      <4> HIDE DEF r
      <4> QED
        BY <2>2, <2>3, <3>3, <3>6, AppendIsConcat
    <3> HIDE DEF y
    <3>9. gbc \o (n \o y) = r \o y
      BY ONLY <3>2, <3>4, <3>5
    <3> QED
      BY <3>6, <3>7, <3>8, <3>9
  <2> QED
    BY <2>4 DEF g, b, c, m, u
<1>15. ASSUME InRequest
       PROVE  RequestInv'
  <2>1. RequestInv
    BY <1>15 DEF ProxyInv
  <2>2. CASE p = "browser"
    BY <1>1, <1>3, <1>6, <1>14, <2>1, <2>2 DEF RequestInv
  <2>3. CASE p = "origin"
    BY <1>1, <1>3, <1>6, <2>1, <2>3 DEF RequestInv
  <2> QED
    BY <2>2, <2>3 DEF Peers
<1>16. ASSUME InResponse
       PROVE  ResponseInv' /\ PlaceInv'
  <2>1. ResponseInv /\ PlaceInv
    BY <1>16 DEF ProxyInv
  <2>2. PlaceInv'
    BY <1>1, <1>8, <1>9, <2>1 DEF PlaceInv, IsSize
  <2>3. CASE p = "origin"
    BY <1>1, <1>3, <1>6, <1>9, <1>14, <2>1, <2>2, <2>3 DEF ResponseInv
  <2>4. CASE p = "browser"
    BY <1>1, <1>3, <1>6, <1>9, <2>1, <2>2, <2>4 DEF ResponseInv
  <2> QED
    BY <2>3, <2>4 DEF Peers
<1>17. ASSUME at = "ended"
       PROVE  Outcome'
  <2>1. Outcome
    BY <1>17 DEF ProxyInv
  <2>2. CASE "origin" \in closed /\ toSend["origin"] # <<>>
    <3>1. toSend'["origin"] = toSend["origin"]
      BY <1>1, <1>3, <1>6, <2>2 DEF Peers
    <3> QED
      BY <1>1, <2>2, <3>1 DEF Outcome
  <2>3. CASE Header("bad", 0) \in ToSet(sent["origin"])
    <3>1. CASE p = "origin"
      <4> DEFINE t == sent["origin"]
                 u == Append(t, x)
      <4>1. t \in Seq(Tokens) /\ u = sent'["origin"]
        BY <1>2, <1>6, <3>1
      <4>2. PICK i \in DOMAIN t : t[i] = Header("bad", 0)
        BY <2>3 DEF ToSet
      <4> HIDE DEF t
      <4>3. i \in DOMAIN u /\ u[i] = Header("bad", 0)
        BY <4>1, <4>2
      <4> HIDE DEF u
      <4>4. Header("bad", 0) \in ToSet(u)
        BY <4>3 DEF ToSet
      <4> QED
        BY <4>1, <4>4 DEF Outcome
    <3>2. CASE p = "browser"
      BY <1>3, <1>6, <2>3, <3>2 DEF Outcome
    <3> QED
      BY <3>1, <3>2 DEF Peers
  <2> QED
    BY <1>1, <1>8, <1>9, <2>1, <2>2, <2>3 DEF Outcome
<1> QED
  BY <1>1, <1>7, <1>9, <1>10, <1>13, <1>15, <1>16, <1>17 DEF ProxyInv

LEMMA PeerClosesKeeps ==
  ASSUME ProxyInv, NEW p \in Peers, PeerCloses(p)
  PROVE  ProxyInv'
<1>1. /\ closed' = closed \cup {p}
      /\ UNCHANGED <<at, dir, match, header, length, buf, dummy, aborted, net, toSend, sent, got>>
  BY DEF PeerCloses
<1>2. ProxyTypes'
  BY <1>1 DEF ProxyInv, ProxyTypes
<1>3. /\ Script("browser")' = Script("browser") /\ Script("origin")' = Script("origin")
      /\ Short' = Short /\ Moved' = Moved /\ InRequest' = InRequest /\ InResponse' = InResponse
  BY <1>1 DEF Script, Short, Moved, InRequest, InResponse
<1>4. StreamInv' /\ MatchInv' /\ AbortInv'
  BY <1>1, <1>3 DEF ProxyInv, StreamInv, MatchInv, AbortInv, Forwarded
<1>5. InRequest => RequestInv'
  BY <1>1 DEF ProxyInv, RequestInv
<1>6. InResponse => ResponseInv' /\ PlaceInv'
  BY <1>1, <1>3 DEF ProxyInv, ResponseInv, PlaceInv, IsSize
<1>7. at' = "ended" => Outcome'
  BY <1>1, <1>3 DEF ProxyInv, Outcome
<1> QED
  BY <1>2, <1>3, <1>4, <1>5, <1>6, <1>7 DEF ProxyInv

-----------------------------------------------------------------------------
(***************************************************************************)
(* The theorems.                                                           *)
(***************************************************************************)
LEMMA ProxyStarts ==
  ASSUME ProxyInit
  PROVE  ProxyInv
<1>1. PICK q \in Requests, r \in Responses : toSend = [p \in Peers |-> IF p = "browser" THEN q ELSE r]
  BY DEF ProxyInit
<1>2. q \in Seq(Tokens) /\ r \in Seq(Tokens)
  BY MessageFacts
<1>3. <<>> \in Seq(Tokens)
  OBVIOUS
<1>4. ProxyTypes
  BY <1>1, <1>2, <1>3 DEF ProxyInit, ProxyTypes, Ops, Peers
<1>5. Script("browser") = q /\ Script("origin") = r
  <2>1. sent["browser"] = <<>> /\ sent["origin"] = <<>> /\ toSend["browser"] = q /\ toSend["origin"] = r
    BY <1>1 DEF ProxyInit, Peers
  <2> QED
    BY <1>2, <2>1, ConcatEmptySeq DEF Script
<1>6. \A p \in Peers : got[p] = <<>> /\ sent[p] = <<>> /\ net[p] = <<>> /\ buf[p] = <<>>
  BY DEF ProxyInit
<1>7. Forwarded
  <2>1. IsPrefix(<<>>, <<>>)
    BY DEF IsPrefix
  <2> QED
    BY <1>6, <2>1 DEF Forwarded, Other, Peers
<1>8. StreamInv
  <2>1. Len(got["origin"]) = 0 /\ Len(net["browser"]) = 0 /\ Len(sent["browser"]) = 0
    BY <1>6 DEF Peers
  <2> QED
    BY <1>5, <1>7, <2>1 DEF StreamInv
<1>9. RequestInv
  <2>1. Chain(<<>>, <<>>, <<>>, <<>>) = <<>>
    BY DEF Chain
  <2> QED
    BY <1>6, <2>1 DEF ProxyInit, RequestInv, Peers
<1>10. MatchInv /\ AbortInv /\ ~InResponse /\ at # "ended"
  BY DEF ProxyInit, MatchInv, AbortInv, InResponse, BodyOps
<1> QED
  BY <1>4, <1>8, <1>9, <1>10 DEF ProxyInv

LEMMA ProxyStep ==
  ASSUME ProxyInv, [ProxyNext]_proxyVars
  PROVE  ProxyInv'
<1>1. CASE Handler
  BY <1>1, ConnectedKeeps, OnRequestKeeps, OnResponseKeeps, WrittenKeeps, WriteFailsKeeps, OnContentLengthKeeps,
     OnChunkSizeKeeps, OnChunkKeeps, ReadSomeKeeps, ProxyReadFailsKeeps, OnUnknownKeeps, OnDummyKeeps DEF Handler
<1>2. CASE \E p \in Peers : PeerSends(p) \/ PeerCloses(p)
  BY <1>2, PeerSendsKeeps, PeerClosesKeeps
<1>3. CASE UNCHANGED proxyVars
  <2>1. /\ at' = at /\ dir' = dir /\ match' = match /\ header' = header /\ length' = length /\ buf' = buf
        /\ dummy' = dummy /\ aborted' = aborted /\ net' = net /\ toSend' = toSend /\ closed' = closed
        /\ sent' = sent /\ got' = got
    BY <1>3 DEF proxyVars, peers
  <2>2. /\ Script("browser")' = Script("browser") /\ Script("origin")' = Script("origin")
        /\ Short' = Short /\ Moved' = Moved /\ InRequest' = InRequest /\ InResponse' = InResponse
    BY <2>1 DEF Script, Short, Moved, InRequest, InResponse
  <2>3. ProxyTypes' /\ MatchInv' /\ AbortInv'
    BY <2>1 DEF ProxyInv, ProxyTypes, MatchInv, AbortInv
  <2>4. StreamInv'
    BY <2>1, <2>2 DEF ProxyInv, StreamInv, Forwarded
  <2>5. InRequest => RequestInv'
    BY <2>1 DEF ProxyInv, RequestInv
  <2>6. InResponse => ResponseInv' /\ PlaceInv'
    BY <2>1, <2>2 DEF ProxyInv, ResponseInv, PlaceInv, IsSize
  <2>7. at' = "ended" => Outcome'
    BY <2>1, <2>2 DEF ProxyInv, Outcome
  <2> QED
    BY <2>2, <2>3, <2>4, <2>5, <2>6, <2>7 DEF ProxyInv
<1> QED
  BY <1>1, <1>2, <1>3 DEF ProxyNext

\* The place of every token of an exchange is known at every step: received,
\* waiting in one of the two buffers, or not read, in the order it was sent,
\* and where the response stands in its frame (thttpproxy.cpp:41-275).
THEOREM ProxyInvariant == ProxySpec => []ProxyInv
<1> QED
  BY ProxyStarts, ProxyStep, PTL DEF ProxySpec

\* Nothing is lost on the way or at the end (thttpproxy.cpp:41-275).
THEOREM ProxyNothingLost == ProxySpec => []NothingLost
<1>1. ProxyInv => NothingLost
  <2> SUFFICES ASSUME ProxyInv, Released, "browser" \notin closed,
                      toSend = [p \in Peers |-> <<>>], got["origin"] = sent["browser"],
                      Header("bad", 0) \notin ToSet(sent["origin"])
               PROVE  got["browser"] = Whole(sent["origin"])
    BY DEF NothingLost, ResponseComplete, ProxyInv, StreamInv
  <2>1. Outcome /\ ProxyTypes
    BY DEF ProxyInv, Released
  <2>2. toSend["browser"] = <<>> /\ toSend["origin"] = <<>>
    BY DEF Peers
  <2>3. Script("browser") = sent["browser"] /\ Script("origin") = sent["origin"] /\ sent["browser"] \in Seq(Tokens)
    BY <2>1, <2>2, ScriptFacts DEF Peers
  <2>4. ~Short
    BY <2>3 DEF Short
  <2> QED
    BY <2>1, <2>2, <2>3, <2>4 DEF Outcome
<1> QED
  BY <1>1, ProxyInvariant, PTL
=============================================================================
