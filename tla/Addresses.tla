----------------------------- MODULE Addresses -----------------------------
(***************************************************************************)
(* Arithmetic on addresses (network/detail/address_impl.hpp, and the .ipp  *)
(* files of IPv4, IPv6 and link-layer addresses) and on prefixes           *)
(* (network/basic_prefix_address.ipp).  An address is a sequence of Width  *)
(* bytes, most significant first; an int has as many bits as an address,   *)
(* as it has for IPv4.                                                     *)
(***************************************************************************)
EXTENDS Integers, Sequences, SequencesExt

CONSTANTS Width,        \* bytes of an address
          Numbers,      \* what is added and subtracted
          MaskLens,     \* the lengths of prefixes
          Starts        \* the addresses to start from

ASSUME AddressAssumption ==
    Width \in Nat \ {0} /\ Numbers \subseteq Int /\ MaskLens \subseteq 0..(8 * Width)

VARIABLES bytes,        \* bytes_ of the address, or of the prefix's
          masklen,      \* masklen_, or -1 for an address
          sum,          \* the number that the address or the prefix ought to be
          hung          \* an amount for which a loop does not end, or 0

addressVars == <<bytes, masklen, sum, hung>>

Bits == 8 * Width
Modulus == 256 ^ Width
ValueOf(b) == FoldLeft(LAMBDA acc, x : acc * 256 + x, 0, b)

-----------------------------------------------------------------------------
(* address_impl_base                                                       *)

\* incr() and decr(): from the last byte, while it turns over.
Incr(b) == FoldRight(LAMBDA x, acc : IF acc.go THEN [go |-> x = 255, out |-> <<(x + 1) % 256>> \o acc.out]
                                     ELSE [acc EXCEPT !.out = <<x>> \o @],
                     b, [go |-> TRUE, out |-> <<>>]).out
Decr(b) == FoldRight(LAMBDA x, acc : IF acc.go THEN [go |-> x = 0, out |-> <<(x - 1) % 256>> \o acc.out]
                                     ELSE [acc EXCEPT !.out = <<x>> \o @],
                     b, [go |-> TRUE, out |-> <<>>]).out

\* Mutant: the carry is lost.
MutAddLoop(b, num) ==
    FoldRight(LAMBDA x, acc : [num |-> acc.num \div 256,
                               out |-> <<(x + (acc.num % 256)) % 256>> \o acc.out],
              b, [num |-> num, out |-> <<>>]).out

\* The loops of add() and sub(), which end early only when nothing is left to do.
AddLoop(b, num) ==
    FoldRight(LAMBDA x, acc :
                LET rhs == acc.num % 256
                    y == (x + rhs) % 256
                IN  [num |-> acc.num \div 256 + (IF y < rhs THEN 1 ELSE 0), out |-> <<y>> \o acc.out],
              b, [num |-> num, out |-> <<>>]).out
SubLoop(b, num) ==
    FoldRight(LAMBDA x, acc :
                LET rhs == acc.num % 256
                IN  [num |-> acc.num \div 256 + (IF x < rhs THEN 1 ELSE 0),
                     out |-> <<(x - rhs) % 256>> \o acc.out],
              b, [num |-> num, out |-> <<>>]).out

\* add() and sub(): a negative number is passed to the other one and then added,
\* or subtracted, all the same.
Add(b, num) == AddLoop(IF num < 0 THEN SubLoop(b, -num) ELSE b, num)
Sub(b, num) == SubLoop(IF num < 0 THEN AddLoop(b, -num) ELSE b, num)

\* in_mask(), for is_netmask()
InMask(b) ==
    LET part == {0, 128, 192, 224, 240, 248, 252, 254}
        first == CHOOSE i \in 1..(Len(b) + 1) : /\ \A j \in 1..(i - 1) : b[j] = 255
                                                /\ i > Len(b) \/ b[i] # 255
    IN  /\ b[1] # 0
        /\ first <= Len(b) => b[first] \in part /\ \A j \in (first + 1)..Len(b) : b[j] = 0

\* netmask_length(): the leading ones of each byte.
LeadingOnes(x) == CHOOSE n \in 0..8 : (\A i \in 1..n : (x \div (2 ^ (8 - i))) % 2 = 1)
                                   /\ (n = 8 \/ (x \div (2 ^ (7 - n))) % 2 = 0)
NetmaskLength(b) == FoldLeft(LAMBDA len, x : len + LeadingOnes(x), 0, b)

-----------------------------------------------------------------------------
(* basic_prefix_address                                                    *)

\* The bits of byte i that a mask of n bits keeps.
KeptBits(n, i) == IF n >= 8 * i THEN 8 ELSE IF n <= 8 * (i - 1) THEN 0 ELSE n - 8 * (i - 1)
KeepBits(x, n) == x - (x % (2 ^ (8 - n)))

\* assign() and netmask().  With all bits they also write a zero behind the array.
Assigned(b, n) == [i \in 1..Width |-> KeepBits(b[i], KeptBits(n, i))]
Netmask(n) == [i \in 1..Width |-> KeepBits(255, KeptBits(n, i))]

\* The loop of operator+= and -=, which adds 1, 2, 4 ... prefixes for num: what is
\* left of num when its i, an unsigned int, has become 0, after which nothing
\* changes any more; and the address that a loop that ends leaves.
Powers == [k \in 1..Bits |-> 2 ^ (k - 1)]
Left(num) == FoldLeft(LAMBDA n, i : IF n = 0 THEN 0 ELSE n - i, num, Powers)
PrefixLoop(b, num, len, up) ==
    FoldLeft(LAMBDA acc, i :
                LET by == (i * 2 ^ len) % Modulus
                IN  IF i > num THEN acc ELSE IF up THEN Add(acc, by) ELSE Sub(acc, by),
             b, Powers)

\* 1 << n of an int.
IntShift(n) == IF n = Bits - 1 THEN -(2 ^ n) ELSE 2 ^ n

-----------------------------------------------------------------------------

AddressInit == /\ bytes \in Starts /\ masklen = -1 /\ sum = ValueOf(bytes) /\ hung = 0

\* operator++, --, += and -= of the three classes.  sum is taken anew from what a
\* negative number leaves, so that it is compared for the others.
AddressStep(op, n) ==
    /\ masklen = -1
    /\ bytes' = CASE op = "++" -> Incr(bytes) [] op = "--" -> Decr(bytes)
                  [] op = "+=" -> Add(bytes, n) [] op = "-=" -> Sub(bytes, n)
    /\ LET num == IF op \in {"++", "--"} THEN 1 ELSE n
       IN  sum' = IF num < 0 THEN ValueOf(bytes')
                  ELSE (IF op \in {"++", "+="} THEN sum + num ELSE sum - num) % Modulus
    /\ UNCHANGED <<masklen, hung>>

AssignPrefix(len) ==
    /\ masklen = -1
    /\ masklen' = len /\ bytes' = Assigned(bytes, len)
    /\ sum' = ValueOf(bytes) \div (2 ^ (Bits - len))
    /\ UNCHANGED hung

\* Shifting an int by its width, for masklen 0, is undefined and left out.  By all
\* but one of its bits it is negative, and sum is taken anew.
StepPrefix(op) ==
    /\ masklen \in 1..Bits /\ hung = 0
    /\ LET one == IntShift(Bits - masklen)
       IN  /\ bytes' = IF op = "++" THEN Add(bytes, one) ELSE Sub(bytes, one)
           /\ sum' = IF one < 0 THEN ValueOf(bytes') \div (2 ^ (Bits - masklen))
                     ELSE (IF op = "++" THEN sum + 1 ELSE sum - 1) % (2 ^ masklen)
    /\ UNCHANGED <<masklen, hung>>

\* operator+= and -=, which call one another for a negative number.  Nobody sees
\* what a loop that does not end has added.
AddPrefix(op, n) ==
    LET num == IF n < 0 THEN -n ELSE n
        up == (op = "+=") = (n >= 0)
    IN  /\ masklen \in 1..Bits /\ hung = 0
        /\ IF Left(num) = 0
           THEN /\ bytes' = PrefixLoop(bytes, num, Bits - masklen, up)
                /\ sum' = (IF up THEN sum + num ELSE sum - num) % (2 ^ masklen)
                /\ UNCHANGED hung
           ELSE hung' = num /\ UNCHANGED <<bytes, sum>>
        /\ UNCHANGED masklen

AddressNext ==
    \/ \E op \in {"++", "--"} : AddressStep(op, 1)
    \/ \E op \in {"+=", "-="}, n \in Numbers : AddressStep(op, n)
    \/ \E len \in MaskLens : AssignPrefix(len)
    \/ \E op \in {"++", "--"} : StepPrefix(op)
    \/ \E op \in {"+=", "-="}, n \in Numbers : AddPrefix(op, n)

-----------------------------------------------------------------------------
(* Properties.                                                             *)

\* Carries and borrows run through all bytes: but for negative amounts, which are
\* not promised anything (README 5.18), an address is the number that the
\* operations add up to, modulo its size; and a prefix is the number of prefixes
\* added up, with no bit below its mask.  The loop over 1, 2, 4 ... prefixes ends
\* at least for their sums, and for nothing else (README 5.19)
\* (address_impl.hpp:51-87, basic_prefix_address.ipp:42-99).
AddressArithmetic ==
    /\ masklen = -1 => ValueOf(bytes) = sum
    /\ masklen \in 1..Bits /\ hung = 0 => ValueOf(bytes) = sum * (2 ^ (Bits - masklen))
    /\ \A k \in 1..Bits : hung # 2 ^ k - 1

\* A netmask of any length is a netmask of that length, and a prefix's address is
\* what assign() makes of itself (address_impl.hpp:25-102,
\* basic_prefix_address.ipp:89-111).
MasksAgree == \A n \in 0..Bits : /\ n > 0 => InMask(Netmask(n))
                                 /\ NetmaskLength(Netmask(n)) = n
MaskConsistent == MasksAgree /\ (masklen >= 0 => Assigned(bytes, masklen) = bytes)

\* Addresses and prefixes count as numbers do, for amounts that are not negative
\* and for which the loops end, and masks and their lengths agree
\* (address_impl.hpp:20-102, basic_prefix_address.ipp:41-111).
AddressesComputed == AddressArithmetic /\ MaskConsistent
=============================================================================
