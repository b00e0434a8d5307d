------------------------------- MODULE Words -------------------------------
(***************************************************************************)
(* Unsigned integers of a fixed width, as the sets of their bits that are  *)
(* 1: bit i has the value 2^i.  "|" is union, "&" is intersection, "~" is  *)
(* the complement, and a cast to a narrower type keeps the low bits.       *)
(***************************************************************************)
EXTENDS Naturals, FiniteSetsExt

Width(n) == SUBSET (0..(n - 1))
Byte   == Width(8)
Word   == Width(32)
Word64 == Width(64)

\* The bits of a natural number below 2^31, and the number of a 32-bit word.
Bits(n)  == {i \in 0..30 : (n \div 2^i) % 2 = 1}
Value(w) ==
  LET below[i \in 0..32] ==
        IF i = 0 THEN 0 ELSE below[i - 1] + (IF i - 1 \in w THEN 2^(i - 1) ELSE 0)
  IN  below[32]

\* w << k in n bits, and (w >> k) & ((1 << n) - 1).
Shl(w, k, n)   == {i + k : i \in w} \cap 0..(n - 1)
Field(w, k, n) == {i \in 0..(n - 1) : i + k \in w}
=============================================================================
