-------------------------- MODULE CollectorNumber --------------------------
(***************************************************************************)
(* Collector numbers (sfc_collector_number.c): the text Scryfall sends and *)
(* the 32 bits of sfc_card_key.                                            *)
(*                                                                         *)
(* A text is what sfc_collector_number_from_string cuts it into, in order: *)
(* lower case letters before the digits, the digits, one letter after them *)
(* (1 for "a", 0 for none), "sb", a cross; odd texts have anything else    *)
(* among the digits.  There may be no digits, or zeros in front of them;   *)
(* letters with no digit before them are all of the prefix.                *)
(***************************************************************************)
EXTENDS Words, Sequences

Text ==
  {t \in [prefix: Seq(1..26), digits: Seq(0..9), version: 0..26,
          sb: BOOLEAN, cross: BOOLEAN, odd: BOOLEAN] :
     t.digits = <<>> /\ ~t.odd => t.version = 0 /\ ~t.sb}

\* SFC_COLLECTOR_NUMBER_SIDEBOARD, _CROSS, _VERSION_BIT_OFFSET, _BIT_OFFSET
\* and _MAX.
Sideboard     == {15}
Cross         == {16}
VersionOffset == 17
NumberOffset  == 20
NumberMax     == 4095

Flag(set, bit) == IF set THEN bit ELSE {}

\* The fields by their macros.
Number(w)  == Field(w, NumberOffset, 12)
Version(w) == Field(w, VersionOffset, 3)
Code(w, i) == Field(w, 5 * (i - 1), 5)

Make(number, version) ==
  Shl(number, NumberOffset, 32) \cup Shl(version, VersionOffset, 32)

\* Letters before the digits: a fifth one is refused, a fourth one is shifted
\* over the flags and the version.
PrefixBits(prefix) ==
  UNION {Shl(Bits(prefix[i]), 5 * (i - 1), 32) : i \in DOMAIN prefix}

\* The number, digit by digit.  A number above NumberMax is refused at the digit
\* that makes it one, and no further digit is read.
ReadDigits(digits) ==
  LET read[n \in 0..Len(digits)] ==
        IF n = 0 THEN 0
        ELSE IF read[n - 1] > NumberMax THEN read[n - 1]
        ELSE 10 * read[n - 1] + digits[n]
  IN  read[Len(digits)]

\* The version is compared with the limit of the number, so that every letter
\* passes.
Accepted(t) ==
  /\ Len(t.prefix) <= 4
  /\ t.version < NumberMax
  /\ ~t.odd
  /\ ReadDigits(t.digits) <= NumberMax

\* (Mutant: the sideboard flag lands on the bit of the cross.)
PackSidewards(t) ==
  PrefixBits(t.prefix) \cup Flag(t.cross, Cross) \cup Flag(t.sb, Cross)
    \cup Make(Bits(ReadDigits(t.digits)), Bits(t.version))

Pack(t) ==
  PrefixBits(t.prefix) \cup Flag(t.cross, Cross) \cup Flag(t.sb, Sideboard)
    \cup Make(Bits(ReadDigits(t.digits)), Bits(t.version))

NumberFromString(t) ==
  IF Accepted(t) THEN [code |-> "OK", packed |-> Pack(t)]
                 ELSE [code |-> "INVALID_COLLECTOR_NUMBER"]

\* The prefix is printed up to its first code 0, and only letters are printed.
PrefixLength(w) ==
  Max({n \in 0..3 : \A i \in 1..n : Code(w, i) # {}})

PrintedPrefix(w) == [i \in 1..PrefixLength(w) |-> Value(Code(w, i))]

\* "%u" of a number of 12 bits: as many digits as it takes, and one for 0.
DigitCount(n)  == Min({k \in 1..4 : n < 10^k})
PrintDigits(n) == [i \in 1..DigitCount(n) |-> (n \div 10^(DigitCount(n) - i)) % 10]

Printed(w) ==
  [prefix |-> PrintedPrefix(w), digits |-> PrintDigits(Value(Number(w))),
   version |-> Value(Version(w)), sb |-> Sideboard \subseteq w,
   cross |-> Cross \subseteq w, odd |-> FALSE]

\* The callers' buffers hold the longest text: 3 letters, 4 digits, a version,
\* "sb", a cross of 3 bytes and the NUL are 14 bytes, the shortest buffer has 16.
NumberToString(w) ==
  IF \A i \in 1..PrefixLength(w) : Value(Code(w, i)) \in 1..26
  THEN [code |-> "OK", text |-> Printed(w)]
  ELSE [code |-> "INVALID_COLLECTOR_NUMBER"]

\* A text whose parts fit the fields of sfc_collector_number.h.
Fits(t) ==
  Len(t.prefix) <= 3 /\ ReadDigits(t.digits) <= NumberMax /\ t.version <= 7 /\ ~t.odd

\* What there is to keep of a text: zeros in front of the number are not, and
\* no digits are a 0.
WithoutZeros(digits) ==
  LET nonzero == {i \in DOMAIN digits : digits[i] # 0}
  IN  IF nonzero = {} THEN <<0>> ELSE SubSeq(digits, Min(nonzero), Len(digits))

AsPrinted(t) == [t EXCEPT !.digits = WithoutZeros(@)]
=============================================================================
