---------------------------- MODULE AddressText -----------------------------
(***************************************************************************)
(* Addresses as text, as integers and by kind: from_string(), to_string(), *)
(* to_ulong() and the predicates of network/internet4_address.ipp,         *)
(* network/linklayer_address.ipp and network/internet6_address.ipp, and    *)
(* how network/basic_prefix_address.ipp prints a prefix.  An application   *)
(* types a text, or looks at an address, at a mask or at an IPv6 address.  *)
(* IPv6 text is left to inet_pton() and inet_ntop().                       *)
(***************************************************************************)
EXTENDS Integers, Sequences, FiniteSets, SequencesExt

CONSTANTS Parts,        \* bytes of an IPv4 or link-layer address: 4 and 6
          Typed,        \* what is typed, by kind of address: a set of characters
          MaxTyped,     \* and how much of it, by kind of address
          ByteSamples,  \* bytes of the addresses looked at
          V6Samples     \* the IPv6 addresses looked at

ASSUME TextAssumption == Parts \in Nat \ {0} /\ DOMAIN MaxTyped = DOMAIN Typed

VARIABLES subject,      \* "v4", "link", "bytes", "mask" or "v6"
          typed,        \* the text typed
          looked        \* the bytes looked at; of a mask, its length

textVars == <<subject, typed, looked>>

NUL == "NUL"
HexLetters == <<"0", "1", "2", "3", "4", "5", "6", "7", "8", "9", "A", "B", "C", "D", "E", "F">>
LowerHex == <<"a", "b", "c", "d", "e", "f">>
HexValue(c) == IF c \in ToSet(LowerHex) THEN SelectInSeq(LowerHex, LAMBDA d : d = c) + 9
                 ELSE SelectInSeq(HexLetters, LAMBDA d : d = c) - 1
IsDigit(c, radix) == HexValue(c) \in 0..(radix - 1)
NumberOf(s, radix) == FoldLeft(LAMBDA n, c : n * radix + HexValue(c), 0, s)
Zeros == [i \in 1..Parts |-> 0]

-----------------------------------------------------------------------------
(* to_string() and from_string()                                           *)

\* sprintf() with "%d" and "%02X".
Digit(n) == HexLetters[n + 1]
DecText(n) == (IF n < 100 THEN <<>> ELSE <<Digit(n \div 100)>>)
              \o (IF n < 10 THEN <<>> ELSE <<Digit((n \div 10) % 10)>>)
              \o <<Digit(n % 10)>>
HexText(n) == <<Digit(n \div 16), Digit(n % 16)>>
Joined(fields, sep) == FoldLeft(LAMBDA s, f : IF s = <<>> THEN f ELSE s \o <<sep>> \o f, <<>>, fields)
ToString4(b) == Joined([i \in 1..Parts |-> DecText(b[i])], ".")
ToStringLink(b) == Joined([i \in 1..Parts |-> HexText(b[i])], ":")

\* qi::uint_parser: as many digits as there are, at most most and at least least,
\* and no value above 255.
DigitRun(s, p, radix, most) ==
    CHOOSE n \in 0..most :
        /\ \A i \in p..(p + n - 1) : i <= Len(s) /\ IsDigit(s[i], radix)
        /\ n = most \/ p + n > Len(s) \/ ~IsDigit(s[p + n], radix)
ParseField(acc, s, radix, least, most, seps) ==
    LET first == acc.out = <<>>
        p == IF first THEN acc.at ELSE acc.at + 1
        n == DigitRun(s, p, radix, most)
        v == NumberOf(SubSeq(s, p, p + n - 1), radix)
        ok == /\ acc.ok /\ n >= least /\ v <= 255
              /\ first \/ (acc.at <= Len(s) /\ s[acc.at] \in seps)
    IN  [at |-> p + n, out |-> Append(acc.out, v), ok |-> ok]
ParseFields(s, radix, least, most, seps) ==
    FoldLeft(LAMBDA acc, k : ParseField(acc, s, radix, least, most, seps),
             [at |-> 1, out |-> <<>>, ok |-> TRUE], [k \in 1..Parts |-> k])

\* Mutant: what follows the address is not looked at.
MutFromString4(s) == LET r == ParseFields(s, 10, 1, 3, {"."}) IN
                     IF r.ok THEN [ok |-> TRUE, bytes |-> r.out] ELSE [ok |-> FALSE, bytes |-> Zeros]

\* from_string() of IPv4, which reads all of the text, and of the link layer,
\* which reads what it needs.
FromString4(s) == LET r == ParseFields(s, 10, 1, 3, {"."}) IN
                  IF r.ok /\ r.at > Len(s) THEN [ok |-> TRUE, bytes |-> r.out]
                  ELSE [ok |-> FALSE, bytes |-> Zeros]
FromStringLink(s) == LET r == ParseFields(s, 16, 2, 2, {":", "-"}) IN
                     IF r.ok THEN [ok |-> TRUE, bytes |-> r.out]
                     ELSE [ok |-> FALSE, bytes |-> Zeros]

\* A C string ends at its first NUL.
CString(s) == IF NUL \in ToSet(s) THEN SubSeq(s, 1, SelectInSeq(s, LAMBDA c : c = NUL) - 1) ELSE s

\* The overloads: a std::string or a C string, which may be null, with an error
\* code or with an exception.  That of the link layer that should throw for a
\* null pointer sets its own error code and returns no address.
Forms == [cstr : BOOLEAN, ec : BOOLEAN, null : BOOLEAN]
Outcome(r, form) == [how |-> IF r.ok THEN "address" ELSE IF form.ec THEN "error" ELSE "throws",
                     bytes |-> r.bytes]
NullOutcome(form) == [how |-> IF form.ec THEN "error" ELSE "throws", bytes |-> Zeros]
Call4(s, form) == IF form.cstr /\ form.null THEN NullOutcome(form)
                  ELSE Outcome(FromString4(IF form.cstr THEN CString(s) ELSE s), form)
CallLink(s, form) ==
    IF form.cstr /\ form.null
    THEN [NullOutcome(form) EXCEPT !.how = IF form.ec THEN "error" ELSE "address"]
    ELSE Outcome(FromStringLink(IF form.cstr THEN CString(s) ELSE s), form)

-----------------------------------------------------------------------------
(* Integers, classes and prefixes                                          *)

\* internet4_address(std::uint32_t) on a little-endian machine, and to_ulong().
Octet(n, i) == (n \div (256 ^ i)) % 256
FromUint(n) == [i \in 1..Parts |-> Octet(n, Parts - i)]
ToUlong(b) == FoldLeft(LAMBDA sum, x : (sum * 256 + x) % (256 ^ Parts), 0, b)

\* The predicates on the first bytes: x & m = v, for a mask m of the leading bits.
Leads(x, bits, v) == x \div (2 ^ (8 - bits)) = v
Class4(b) == {c \in {"a", "b", "c", "multicast"} :
    CASE c = "a" -> Leads(b[1], 1, 0) [] c = "b" -> Leads(b[1], 2, 2)
      [] c = "c" -> Leads(b[1], 3, 6) [] c = "multicast" -> Leads(b[1], 4, 14)}
Local6(b) == {c \in {"link", "site"} : b[1] = 254 /\ Leads(b[2], 2, IF c = "link" THEN 2 ELSE 3)}
Scopes == [global |-> 14, link_local |-> 2, node_local |-> 1, org_local |-> 8, site_local |-> 5]
Multicast6(b) == {c \in DOMAIN Scopes : b[1] = 255 /\ b[2] % 16 = Scopes[c]}
Unicast6(b) ==
    LET ZeroTo(n) == \A i \in 1..n : b[i] = 0 IN
    {c \in {"unspecified", "loopback", "v4_mapped", "v4_compatible"} :
        CASE c = "unspecified" -> ZeroTo(16)
          [] c = "loopback" -> ZeroTo(15) /\ b[16] = 1
          [] c = "v4_mapped" -> ZeroTo(10) /\ b[11] = 255 /\ b[12] = 255
          [] c = "v4_compatible" -> ZeroTo(12) /\ ~(ZeroTo(15) /\ b[16] \in {0, 1})}

\* How a prefix prints its length: a digit that is zero is skipped, also between
\* two others.
MaskText(n) == LET hundreds == (n \div 100) % 10
                   tens == (n \div 10) % 10
               IN  (IF hundreds = 0 THEN <<>> ELSE <<Digit(hundreds)>>)
                   \o (IF tens = 0 THEN <<>> ELSE <<Digit(tens)>>)
                   \o <<Digit(n % 10)>>

-----------------------------------------------------------------------------
TextInit ==
    /\ typed = <<>>
    /\ \/ subject \in {"v4", "link"} /\ looked = <<>>
       \/ subject = "bytes" /\ looked \in [1..Parts -> ByteSamples]
       \/ subject = "mask" /\ looked \in {<<n>> : n \in 0..128}
       \/ subject = "v6" /\ looked \in V6Samples

TypeText(c) ==
    /\ subject \in {"v4", "link"} /\ Len(typed) < MaxTyped[subject]
    /\ c \in Typed[subject]
    /\ typed' = Append(typed, c)
    /\ UNCHANGED <<subject, looked>>

TextNext == \E c \in Typed["v4"] \cup Typed["link"] : TypeText(c)

-----------------------------------------------------------------------------
(* Properties.                                                             *)

\* The text between separators.
FieldsOf(s, seps) ==
    LET cuts == <<0>> \o SelectSeq([i \in DOMAIN s |-> i], LAMBDA i : s[i] \in seps)
                \o <<Len(s) + 1>>
    IN  [k \in 1..(Len(cuts) - 1) |-> SubSeq(s, cuts[k] + 1, cuts[k + 1] - 1)]
Spelled(s, radix, seps) == [k \in DOMAIN FieldsOf(s, seps) |-> NumberOf(FieldsOf(s, seps)[k], radix)]
Spells(s, radix, sizes, seps) ==
    LET p == FieldsOf(s, seps) IN
    /\ Len(p) = Parts
    /\ \A k \in DOMAIN p : /\ Len(p[k]) \in sizes
                           /\ \A i \in DOMAIN p[k] : IsDigit(p[k][i], radix)
                           /\ NumberOf(p[k], radix) <= 255

\* from_string() gives an address exactly for the texts that spell it, the link
\* layer for texts that begin so, and otherwise zeros with an error or an
\* exception; only the link layer takes a null pointer for the zero address
\* (internet4_address.ipp:28-38, 195-245, linklayer_address.ipp:29-41, 126-166).
TextsRead ==
    \A form \in Forms :
        LET seen == IF form.cstr THEN CString(typed) ELSE typed
            size == 3 * Parts - 1
            link == IF Len(seen) < size THEN seen ELSE SubSeq(seen, 1, size)
            null == form.cstr /\ form.null
            failed == [how |-> IF form.ec THEN "error" ELSE "throws", bytes |-> Zeros]
        IN
        /\ subject = "v4" => Call4(typed, form) =
              IF ~null /\ Spells(seen, 10, 1..3, {"."})
              THEN [how |-> "address", bytes |-> Spelled(seen, 10, {"."})] ELSE failed
        /\ subject = "link" => CallLink(typed, form) =
              IF ~null /\ Spells(link, 16, {2}, {":", "-"})
              THEN [how |-> "address", bytes |-> Spelled(link, 16, {":", "-"})]
              ELSE IF null /\ ~form.ec THEN [how |-> "address", bytes |-> Zeros] ELSE failed

\* An address survives its text and its integer, is in one class at most, and an
\* IPv6 address that begins with 96 zero bits is in exactly one; a prefix prints
\* its length, but for 100 to 109 (internet4_address.ipp:22-38, 70-85, 121-160,
\* internet6_address.ipp:126-206, basic_prefix_address.ipp:126-137).
AddressesKept ==
    /\ subject = "bytes" =>
          /\ FromString4(ToString4(looked)) = [ok |-> TRUE, bytes |-> looked]
          /\ FromStringLink(ToStringLink(looked)) = [ok |-> TRUE, bytes |-> looked]
          /\ FromUint(ToUlong(looked)) = looked
          /\ Cardinality(Class4(looked)) = IF looked[1] < 240 THEN 1 ELSE 0
    /\ subject = "v6" =>
          /\ Cardinality(Unicast6(looked) \cup Local6(looked) \cup Multicast6(looked)) <= 1
          /\ (\A i \in 1..12 : looked[i] = 0) => Unicast6(looked) # {}
    /\ subject = "mask" => (looked[1] \notin 100..109 => MaskText(looked[1]) = DecText(looked[1]))

\* Exactly the texts that spell an address are read, as that address, whatever the
\* caller asks for; and an address keeps its value through text and integer
\* (internet4_address.ipp:22-160, linklayer_address.ipp, basic_prefix_address.ipp).
AddressTexts == TextsRead /\ AddressesKept
=============================================================================
