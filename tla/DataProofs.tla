----------------------------- MODULE DataProofs -----------------------------
(***************************************************************************)
(* Proofs about the modules that CardData is built from and about its      *)
(* records, for every value of their constants: numbers and their bits,    *)
(* what the codec writes is what it reads, a buffer holds what was         *)
(* appended to it, a collector number that fits prints back, and the       *)
(* record of a card is read back.                                          *)
(***************************************************************************)
EXTENDS CardData, FiniteSetTheorems, SequenceTheorems, Inductions

-----------------------------------------------------------------------------
(* Recursion and powers of two. *)

\* A function is defined by its value at 0 and a step from each value to the next.
Unfolds(f, base, h, m) == f[0] = base /\ \A i \in 1..m : f[i] = h[i][f[i - 1]]

LEMMA Recursion ==
  ASSUME NEW S, NEW base \in S, NEW m \in Nat, NEW h \in [1..m -> [S -> S]]
  PROVE  \E f \in [0..m -> S] : Unfolds(f, base, h, m)
<1> DEFINE T == {n \in 0..m :
                   \E f \in [0..n -> S] : f[0] = base /\ \A i \in 1..n : f[i] = h[i][f[i - 1]]}
<1>1. 0 \in T
  <2> DEFINE z == [i \in 0..0 |-> base]
  <2>1. z \in [0..0 -> S] /\ z[0] = base /\ \A i \in 1..0 : z[i] = h[i][z[i - 1]]
    OBVIOUS
  <2> HIDE DEF z
  <2> QED
    BY <2>1
<1>2. ASSUME NEW n \in 0..(m - 1), n \in T PROVE n + 1 \in T
  <2>1. PICK f \in [0..n -> S] : f[0] = base /\ \A i \in 1..n : f[i] = h[i][f[i - 1]]
    BY <1>2
  <2> DEFINE v == h[n + 1][f[n]]
             g == [i \in 0..(n + 1) |-> IF i = n + 1 THEN v ELSE f[i]]
  <2>2. v \in S /\ n + 1 \in 1..m /\ f[n] \in S
    <3>1. n + 1 \in 1..m /\ f[n] \in S
      BY <2>1
    <3>2. h[n + 1] \in [S -> S]
      BY <3>1
    <3> QED
      BY <3>1, <3>2
  <2>3. g \in [0..(n + 1) -> S] /\ g[n + 1] = v /\ \A i \in 0..n : g[i] = f[i]
    <3> HIDE DEF v
    <3> QED
      BY <2>2
  <2> HIDE DEF g
  <2>4. g[0] = base /\ \A i \in 1..(n + 1) : g[i] = h[i][g[i - 1]]
    <3>1. g[0] = base
      BY <2>1, <2>3
    <3>2. ASSUME NEW i \in 1..(n + 1) PROVE g[i] = h[i][g[i - 1]]
      <4>1. CASE i = n + 1
        BY <2>3, <4>1
      <4>2. CASE i # n + 1
        <5>1. i \in 1..n /\ i \in 0..n /\ i - 1 \in 0..n
          BY <4>2
        <5> QED
          BY <2>1, <2>3, <5>1
      <4> QED
        BY <4>1, <4>2
    <3> QED
      BY <3>1, <3>2
  <2> QED
    BY <2>2, <2>3, <2>4
<1>3. 0..m \subseteq T
  <2> HIDE DEF T
  <2> QED
    BY <1>1, <1>2, InductionUpTo
<1> QED
  BY <1>3 DEF Unfolds

LEMMA Powers ==
  /\ 2^0 = 1
  /\ \A i \in 0..31 : 2^(i + 1) = 2 * 2^i /\ 2^i \in Nat \ {0}
<1>1. /\ 2^0 = 1 /\ 2^1 = 2 /\ 2^2 = 4 /\ 2^3 = 8
      /\ 2^4 = 16 /\ 2^5 = 32 /\ 2^6 = 64 /\ 2^7 = 128
      /\ 2^8 = 256 /\ 2^9 = 512 /\ 2^10 = 1024 /\ 2^11 = 2048
      /\ 2^12 = 4096 /\ 2^13 = 8192 /\ 2^14 = 16384 /\ 2^15 = 32768
      /\ 2^16 = 65536 /\ 2^17 = 131072 /\ 2^18 = 262144 /\ 2^19 = 524288
      /\ 2^20 = 1048576 /\ 2^21 = 2097152 /\ 2^22 = 4194304 /\ 2^23 = 8388608
      /\ 2^24 = 16777216 /\ 2^25 = 33554432 /\ 2^26 = 67108864 /\ 2^27 = 134217728
      /\ 2^28 = 268435456 /\ 2^29 = 536870912 /\ 2^30 = 1073741824 /\ 2^31 = 2147483648
      /\ 2^32 = 4294967296
  BY SMT
<1> DEFINE p == [k \in 0..32 |-> 2^k]
<1>2. ASSUME NEW i \in 0..31
      PROVE  i \in {0, 1, 2, 3, 4, 5, 6, 7, 8, 9, 10, 11, 12, 13, 14, 15, 16, 17, 18, 19, 20,
                    21, 22, 23, 24, 25, 26, 27, 28, 29, 30, 31}
  OBVIOUS
<1>3. /\ p[0] = 1 /\ p[1] = 2 /\ p[2] = 4 /\ p[3] = 8
      /\ p[4] = 16 /\ p[5] = 32 /\ p[6] = 64 /\ p[7] = 128
      /\ p[8] = 256 /\ p[9] = 512 /\ p[10] = 1024 /\ p[11] = 2048
      /\ p[12] = 4096 /\ p[13] = 8192 /\ p[14] = 16384 /\ p[15] = 32768
      /\ p[16] = 65536 /\ p[17] = 131072 /\ p[18] = 262144 /\ p[19] = 524288
      /\ p[20] = 1048576 /\ p[21] = 2097152 /\ p[22] = 4194304 /\ p[23] = 8388608
      /\ p[24] = 16777216 /\ p[25] = 33554432 /\ p[26] = 67108864 /\ p[27] = 134217728
      /\ p[28] = 268435456 /\ p[29] = 536870912 /\ p[30] = 1073741824 /\ p[31] = 2147483648
      /\ p[32] = 4294967296
  BY <1>1, SMT
<1>4. \A i \in 0..31 : p[i] = 2^i /\ p[i + 1] = 2^(i + 1)
  BY SMT
<1> HIDE DEF p
<1>5. \A i \in 0..31 : p[i + 1] = 2 * p[i] /\ p[i] \in Nat \ {0}
  BY <1>2, <1>3, SMT
<1> QED
  BY <1>1, <1>4, <1>5, SMT

LEMMA DivisionIsUnique ==
  ASSUME NEW d \in Nat \ {0}, NEW h \in Nat, NEW r \in 0..(d - 1)
  PROVE  (d * h + r) % d = r /\ (d * h + r) \div d = h
  OBVIOUS

\* One more bit of a number.
LEMMA Halved ==
  ASSUME NEW n \in Nat, NEW p \in Nat \ {0}
  PROVE  n % (2 * p) = (n % p) + (IF (n \div p) % 2 = 1 THEN p ELSE 0)
<1> DEFINE q == n \div p
           r == n % p
           h == q \div 2
           b == q % 2
<1>1. n = p * q + r /\ r \in 0..(p - 1) /\ q \in Nat
  OBVIOUS
<1>2. q = 2 * h + b /\ b \in {0, 1} /\ h \in Nat
  BY <1>1
<1> HIDE DEF q, r, h, b
<1> DEFINE d == 2 * p
           t == p * b + r
<1>3. d \in Nat \ {0} /\ t \in 0..(d - 1) /\ n = d * h + t
  BY <1>1, <1>2
<1> HIDE DEF d, t
<1>4. n % d = t
  BY <1>2, <1>3, DivisionIsUnique
<1>5. n % (2 * p) = p * b + r
  BY <1>4 DEF d, t
<1>6. p * b = IF b = 1 THEN p ELSE 0
  BY <1>1, <1>2
<1> QED
  BY <1>5, <1>6 DEF q, r, b

\* The sums that Value takes.
Weight(w, i) == IF i \in w THEN 2^i ELSE 0
Summed(f, w) == f = [i \in 0..32 |-> IF i = 0 THEN 0 ELSE f[i - 1] + Weight(w, i - 1)]

LEMMA ValueSums ==
  ASSUME NEW w
  PROVE  \E f \in [0..32 -> Nat] : /\ Value(w) = f[32] /\ f[0] = 0
                                   /\ \A i \in 1..32 : f[i] = f[i - 1] + Weight(w, i - 1)
<1> DEFINE h == [i \in 1..32 |-> [s \in Nat |-> s + Weight(w, i - 1)]]
           f == CHOOSE f : Summed(f, w)
<1>1. \A i \in 1..32 : Weight(w, i - 1) \in Nat
  <2> SUFFICES ASSUME NEW i \in 1..32 PROVE Weight(w, i - 1) \in Nat
    OBVIOUS
  <2>1. i - 1 \in 0..31
    OBVIOUS
  <2>2. 2^(i - 1) \in Nat
    BY <2>1, Powers
  <2> QED
    BY <2>2 DEF Weight
<1>2. h \in [1..32 -> [Nat -> Nat]]
  BY <1>1
<1>3. \A i \in 1..32, s \in Nat : h[i][s] = s + Weight(w, i - 1)
  OBVIOUS
<1> HIDE DEF h
<1>4. PICK g \in [0..32 -> Nat] : g[0] = 0 /\ \A i \in 1..32 : g[i] = h[i][g[i - 1]]
  <2>1. 0 \in Nat /\ 32 \in Nat
    OBVIOUS
  <2>2. \E g \in [0..32 -> Nat] : Unfolds(g, 0, h, 32)
    BY <1>2, <2>1, Recursion
  <2> QED
    BY <2>2 DEF Unfolds
<1>5. \A i \in 1..32 : g[i] = g[i - 1] + Weight(w, i - 1)
  BY <1>3, <1>4
<1>6. Summed(g, w)
  BY <1>4, <1>5 DEF Summed
<1>7. Summed(f, w)
  BY <1>6
<1>8. Value(w) = f[32]
  BY DEF Value, Summed, Weight
<1> HIDE DEF f
<1>9. f[0] = 0 /\ \A i \in 1..32 : f[i] = f[i - 1] + Weight(w, i - 1)
  BY <1>7 DEF Summed
<1>10. f \in [0..32 -> Nat]
  <2> DEFINE T == {n \in 0..32 : f[n] \in Nat}
  <2>1. 0..32 \subseteq T
    <3>1. 0 \in T
      BY <1>9
    <3>2. ASSUME NEW n \in 0..31, n \in T PROVE n + 1 \in T
      BY <1>1, <1>9, <3>2
    <3> HIDE DEF T
    <3> QED
      BY <3>1, <3>2, InductionUpTo
  <2> QED
    BY <1>7, <2>1 DEF Summed
<1> QED
  BY <1>8, <1>9, <1>10

\* A number below 2^31 is the value of its bits.
LEMMA ValueOfBits ==
  ASSUME NEW n \in Nat, n < 2^31
  PROVE  Value(Bits(n)) = n
<1>1. PICK f \in [0..32 -> Nat] :
        /\ Value(Bits(n)) = f[32] /\ f[0] = 0
        /\ \A i \in 1..32 : f[i] = f[i - 1] + Weight(Bits(n), i - 1)
  BY ValueSums
<1> DEFINE T == {k \in 0..31 : f[k] = n % 2^k}
<1>2. 0 \in T
  BY <1>1, Powers, SMT
<1>3. ASSUME NEW k \in 0..30, k \in T PROVE k + 1 \in T
  <2>1. f[k + 1] = f[k] + Weight(Bits(n), k) /\ f[k] = n % 2^k
    BY <1>1, <1>3
  <2> DEFINE p == 2^k
  <2>0. k \in 0..31
    OBVIOUS
  <2>2. p \in Nat \ {0} /\ 2^(k + 1) = 2 * p
    BY <2>0, Powers
  <2>3. Weight(Bits(n), k) = IF (n \div p) % 2 = 1 THEN p ELSE 0
    <3>1. k \in Bits(n) <=> (n \div p) % 2 = 1
      BY DEF Bits
    <3> QED
      BY <3>1 DEF Weight
  <2> HIDE DEF p
  <2>4. n % (2 * p) = (n % p) + (IF (n \div p) % 2 = 1 THEN p ELSE 0)
    BY <2>2, Halved
  <2>5. n % 2^k = n % p
    BY DEF p
  <2> QED
    BY <2>1, <2>2, <2>3, <2>4, <2>5
<1>4. 31 \in T
  <2> HIDE DEF T
  <2>1. 0..31 \subseteq T
    BY <1>2, <1>3, InductionUpTo
  <2> QED
    BY <2>1
<1>5. n % 2^31 = n
  BY SMT
<1>6. f[32] = f[31]
  BY <1>1 DEF Weight, Bits
<1> QED
  BY <1>1, <1>4, <1>5, <1>6

\* A number has no bits beyond its size.
LEMMA BitsBounded ==
  ASSUME NEW n \in Nat, NEW k \in 0..31, n < 2^k
  PROVE  Bits(n) \subseteq 0..(k - 1)
<1> DEFINE T == {j \in 0..(31 - k) : n < 2^(k + j)}
<1>1. 0..(31 - k) \subseteq T
  <2>1. 0 \in T
    OBVIOUS
  <2>2. ASSUME NEW j \in 0..(31 - k - 1), j \in T PROVE j + 1 \in T
    <3> DEFINE i == k + j
    <3>1. i \in 0..31 /\ n < 2^i /\ k + (j + 1) = i + 1
      BY <2>2
    <3> HIDE DEF i
    <3>2. 2^(i + 1) = 2 * 2^i /\ 2^i \in Nat
      BY <3>1, Powers
    <3> QED
      BY <3>1, <3>2
  <2> HIDE DEF T
  <2> QED
    BY <2>1, <2>2, InductionUpTo
<1>2. ASSUME NEW i \in k..30 PROVE i \notin Bits(n)
  <2>1. i - k \in 0..(31 - k) /\ k + (i - k) = i /\ i \in 0..31
    OBVIOUS
  <2>2. n < 2^i
    BY <1>1, <2>1
  <2>3. 2^i \in Nat \ {0}
    BY <2>1, Powers
  <2>4. n \div 2^i = 0
    <3> DEFINE p == 2^i
    <3>1. p \in Nat \ {0} /\ n < p
      BY <2>2, <2>3
    <3> HIDE DEF p
    <3>2. n \div p = 0
      BY <3>1
    <3> QED
      BY <3>2 DEF p
  <2>5. i \in Bits(n) => (n \div 2^i) % 2 = 1
    BY DEF Bits
  <2>6. 0 % 2 # 1
    OBVIOUS
  <2> QED
    BY <2>4, <2>5, <2>6
<1>3. Bits(n) \subseteq 0..30
  BY DEF Bits
<1> QED
  BY <1>2, <1>3
-----------------------------------------------------------------------------
(* Sequences of bytes. *)

Bytes == Seq(Byte)

LEMMA FunctionIsSeq ==
  ASSUME NEW S, NEW n \in Nat, NEW f \in [1..n -> S]
  PROVE  f \in Seq(S) /\ Len(f) = n
<1>1. f \in Seq(S)
  BY SeqDef
<1>2. DOMAIN f = 1..Len(f) /\ DOMAIN f = 1..n /\ Len(f) \in Nat
  BY <1>1, LenProperties
<1> QED
  BY <1>1, <1>2

\* What stands in front of the rest, and the rest.
LEMMA FrontAndRest ==
  ASSUME NEW S, NEW s \in Seq(S), NEW t \in Seq(S)
  PROVE  /\ s \o t \in Seq(S) /\ Len(s \o t) = Len(s) + Len(t)
         /\ \A i \in 1..Len(s) : (s \o t)[i] = s[i]
         /\ SubSeq(s \o t, 1, Len(s)) = s
         /\ Behind(s \o t, Len(s)) = t
<1>1. /\ s \o t \in Seq(S) /\ Len(s \o t) = Len(s) + Len(t)
      /\ \A i \in 1..(Len(s) + Len(t)) :
           (s \o t)[i] = IF i <= Len(s) THEN s[i] ELSE t[i - Len(s)]
  BY ConcatProperties
<1>2. Len(s) \in Nat /\ Len(t) \in Nat
  BY LenProperties
<1>3. \A i \in 1..Len(s) : (s \o t)[i] = s[i]
  BY <1>1, <1>2
<1> DEFINE u == s \o t
<1>4. \A i \in 1..Len(u) : u[i] \in S
  BY <1>1, ElementOfSeq
<1> HIDE DEF u
<1>5. Len(u) = Len(s) + Len(t)
  BY <1>1 DEF u
<1>6. SubSeq(u, 1, Len(s)) = s
  <2>1. \A i \in 1..Len(s) : u[i] \in S
    BY <1>2, <1>4, <1>5
  <2>2. /\ SubSeq(u, 1, Len(s)) \in Seq(S)
        /\ Len(SubSeq(u, 1, Len(s))) = IF 1 <= Len(s) THEN Len(s) - 1 + 1 ELSE 0
        /\ \A i \in 1..(Len(s) - 1 + 1) : SubSeq(u, 1, Len(s))[i] = u[1 + i - 1]
    BY <1>2, <2>1, SubSeqProperties
  <2>3. Len(SubSeq(u, 1, Len(s))) = Len(s)
    BY <1>2, <2>2
  <2>4. \A i \in 1..Len(s) : SubSeq(u, 1, Len(s))[i] = s[i]
    BY <1>2, <1>3, <2>2 DEF u
  <2> QED
    BY <2>2, <2>3, <2>4, SeqEqual
<1>7. SubSeq(u, Len(s) + 1, Len(u)) = t
  <2>1. \A i \in (Len(s) + 1)..Len(u) : u[i] \in S
    BY <1>2, <1>4
  <2>2. /\ SubSeq(u, Len(s) + 1, Len(u)) \in Seq(S)
        /\ Len(SubSeq(u, Len(s) + 1, Len(u))) =
             IF Len(s) + 1 <= Len(u) THEN Len(u) - (Len(s) + 1) + 1 ELSE 0
        /\ \A i \in 1..(Len(u) - (Len(s) + 1) + 1) :
             SubSeq(u, Len(s) + 1, Len(u))[i] = u[Len(s) + 1 + i - 1]
    <3>1. Len(s) + 1 \in Int /\ Len(u) \in Int
      BY <1>2, <1>5
    <3> QED
      BY <3>1, <2>1, SubSeqProperties
  <2>3. Len(SubSeq(u, Len(s) + 1, Len(u))) = Len(t)
    BY <1>2, <1>5, <2>2
  <2>4. \A i \in 1..Len(t) : SubSeq(u, Len(s) + 1, Len(u))[i] = t[i]
    <3> SUFFICES ASSUME NEW i \in 1..Len(t)
                 PROVE  SubSeq(u, Len(s) + 1, Len(u))[i] = t[i]
      OBVIOUS
    <3>1. SubSeq(u, Len(s) + 1, Len(u))[i] = u[Len(s) + i]
      BY <1>2, <1>5, <2>2
    <3>2. u[Len(s) + i] = t[i]
      BY <1>1, <1>2 DEF u
    <3> QED
      BY <3>1, <3>2
  <2> QED
    BY <2>2, <2>3, <2>4, SeqEqual
<1> QED
  BY <1>1, <1>3, <1>6, <1>7 DEF u, Behind

\* The greatest and the least number of a set.
LEMMA GreatestBit ==
  ASSUME NEW n \in Nat, NEW w, w \subseteq 0..n, w # {}
  PROVE  Max(w) \in w /\ \A i \in w : i <= Max(w)
<1> DEFINE T == {k \in 0..n : n - k \in w}
<1>1. T \subseteq Nat
  OBVIOUS
<1>2. T # {}
  <2>1. PICK i \in w : TRUE
    OBVIOUS
  <2> DEFINE j == n - i
  <2>2. j \in 0..n /\ n - j = i
    BY <2>1
  <2> HIDE DEF j
  <2>3. j \in T
    BY <2>1, <2>2
  <2> HIDE DEF T
  <2> QED
    BY <2>3
<1>3. PICK k \in T : \A j \in T : ~(j < k)
  <2> HIDE DEF T
  <2> QED
    BY <1>1, <1>2, LeastNumber
<1>4. n - k \in w /\ \A i \in w : n - k >= i
  <2> SUFFICES ASSUME NEW i \in w PROVE n - k >= i
    OBVIOUS
  <2>1. n - i \in T
    OBVIOUS
  <2> QED
    BY <1>3, <2>1
<1>5. Max(w) \in w /\ \A i \in w : Max(w) >= i
  BY <1>4 DEF Max
<1> QED
  BY <1>5

LEMMA LeastOfSet ==
  ASSUME NEW T, T \subseteq Nat, T # {}
  PROVE  Min(T) \in T /\ \A i \in T : Min(T) <= i
<1>1. PICK m \in T : \A i \in T : ~(i < m)
  BY LeastNumber
<1>2. \A i \in T : m <= i
  BY <1>1
<1> QED
  BY <1>2 DEF Min

LEMMA MinIs ==
  ASSUME NEW T, T \subseteq Nat, NEW m \in T, \A i \in T : m <= i
  PROVE  Min(T) = m
<1>1. Min(T) \in T /\ \A i \in T : Min(T) <= i
  BY LeastOfSet
<1>2. Min(T) <= m /\ m <= Min(T) /\ m \in Nat /\ Min(T) \in Nat
  BY <1>1
<1> QED
  BY <1>2

-----------------------------------------------------------------------------
(* Words in little endian. *)

LEMMA SplitIsJoined ==
  ASSUME NEW n \in 0..8, NEW w \in Width(8 * n)
  PROVE  Split(w, n) \in Bytes /\ Len(Split(w, n)) = n /\ Joined(Split(w, n)) = w
<1> DEFINE s == Split(w, n)
<1>1. DOMAIN s = 1..n /\ \A k \in 1..n : s[k] = {i \in 0..7 : i + 8 * (k - 1) \in w}
  BY DEF Split, Field
<1>2. s \in Bytes /\ Len(s) = n
  BY <1>1 DEF Bytes, Byte, Width, Split, Field
<1> HIDE DEF s
<1>3. ASSUME NEW x, x \in Joined(s) PROVE x \in w
  BY <1>1, <1>3 DEF Joined, Shl
<1>4. ASSUME NEW x, x \in w PROVE x \in Joined(s)
  <2>1. x \in Nat /\ x < 8 * n
    BY <1>4 DEF Width
  <2> DEFINE k == x \div 8 + 1
             i == x % 8
  <2>2. k \in 1..n /\ i \in 0..7 /\ x = i + 8 * (k - 1)
    BY <2>1
  <2> HIDE DEF k, i
  <2>3. i \in s[k]
    BY <1>1, <1>4, <2>2
  <2>4. x \in 0..63
    BY <2>1
  <2> QED
    BY <1>1, <2>2, <2>3, <2>4 DEF Joined, Shl
<1> QED
  BY <1>2, <1>3, <1>4 DEF s

\* sfc_deserializer_read_uint32 and its like read what was written, and leave
\* the rest.
LEMMA TakesWord ==
  ASSUME NEW n \in 0..8, NEW w \in Width(8 * n), NEW rest \in Bytes
  PROVE  TakeWord(Split(w, n) \o rest, n) = Took(w, rest)
<1>1. Split(w, n) \in Bytes /\ Len(Split(w, n)) = n /\ Joined(Split(w, n)) = w
  BY SplitIsJoined
<1> DEFINE s == Split(w, n)
<1> HIDE DEF s
<1>2. s \in Bytes /\ Len(s) = n /\ Joined(s) = w
  BY <1>1 DEF s
<1>3. Len(s \o rest) = n + Len(rest) /\ SubSeq(s \o rest, 1, n) = s /\ Behind(s \o rest, n) = rest
  BY <1>2, FrontAndRest DEF Bytes
<1>4. ~(Len(s \o rest) < n)
  BY <1>3, LenProperties DEF Bytes
<1> QED
  BY <1>2, <1>3, <1>4 DEF TakeWord, s

-----------------------------------------------------------------------------
(* Words in groups of 7 bits. *)

LEMMA GroupsOfWord ==
  ASSUME NEW w \in Word
  PROVE  Groups(w) \in 1..5 /\ \A x \in w : x < 7 * Groups(w)
<1>1. w \subseteq 0..31
  BY DEF Word, Width
<1>2. CASE w = {}
  BY <1>2 DEF Groups
<1>3. CASE w # {}
  <2>1. Max(w) \in w /\ \A i \in w : i <= Max(w)
    BY <1>1, <1>3, GreatestBit
  <2>2. Groups(w) = Max(w) \div 7 + 1
    BY <1>3 DEF Groups
  <2>3. Max(w) \in 0..31
    BY <1>1, <2>1
  <2> QED
    BY <1>1, <2>1, <2>2, <2>3
<1> QED
  BY <1>2, <1>3

LEMMA WritesVarSize ==
  ASSUME NEW w \in Word
  PROVE  /\ WriteVarSizeUint32(w) \in Bytes /\ Len(WriteVarSizeUint32(w)) = Groups(w)
         /\ \A k \in 1..Groups(w) :
              /\ WriteVarSizeUint32(w)[k] \ {7} = {i \in 0..6 : i + 7 * (k - 1) \in w}
              /\ 7 \notin WriteVarSizeUint32(w)[k] <=> k = Groups(w)
<1> DEFINE g == Groups(w)
           s == WriteVarSizeUint32(w)
<1>1. g \in 1..5
  BY GroupsOfWord
<1>2. s = [k \in 1..g |-> {i \in 0..6 : i + 7 * (k - 1) \in w} \cup (IF k < g THEN {7} ELSE {})]
  BY DEF WriteVarSizeUint32, Field
<1> HIDE DEF g, s
<1>3. \A k \in 1..g :
        s[k] = {i \in 0..6 : i + 7 * (k - 1) \in w} \cup (IF k < g THEN {7} ELSE {})
  BY <1>2
<1>4. \A k \in 1..g : s[k] \in Byte
  BY <1>3 DEF Byte, Width
<1>5. s \in Seq(Byte) /\ Len(s) = g
  <2>1. s \in [1..g -> Byte]
    BY <1>2, <1>4
  <2> QED
    BY <1>1, <2>1, FunctionIsSeq
<1>6. ASSUME NEW k \in 1..g
      PROVE  /\ s[k] \ {7} = {i \in 0..6 : i + 7 * (k - 1) \in w}
             /\ 7 \notin s[k] <=> k = g
  BY <1>1, <1>3
<1> QED
  BY <1>5, <1>6 DEF Bytes, g, s

\* sfc_deserializer_read_var_size_uint32 reads every 32-bit word that
\* sfc_serializer_write_var_size_uint32 wrote, and leaves the rest.
LEMMA TakesVarSize ==
  ASSUME NEW w \in Word, NEW rest \in Bytes
  PROVE  TakeVarSizeUint32(WriteVarSizeUint32(w) \o rest) = Took(w, rest)
<1> DEFINE g == Groups(w)
           s == WriteVarSizeUint32(w)
           b == s \o rest
           ends == {k \in DOMAIN b : 7 \notin b[k]}
           value == UNION {Shl(b[k] \ {7}, 7 * (k - 1), 64) : k \in 1..g}
<1>1. g \in 1..5 /\ \A x \in w : x < 7 * g
  BY GroupsOfWord
<1>2. /\ s \in Bytes /\ Len(s) = g
      /\ \A k \in 1..g : /\ s[k] \ {7} = {i \in 0..6 : i + 7 * (k - 1) \in w}
                         /\ 7 \notin s[k] <=> k = g
  BY WritesVarSize
<1> HIDE DEF g, s
<1>3. /\ b \in Seq(Byte) /\ Len(b) = g + Len(rest) /\ Behind(b, g) = rest
      /\ \A k \in 1..g : b[k] = s[k]
  <2>1. s \in Seq(Byte) /\ rest \in Seq(Byte) /\ Len(s) = g
    BY <1>2 DEF Bytes
  <2>2. /\ b \in Seq(Byte) /\ Len(b) = Len(s) + Len(rest) /\ Behind(b, Len(s)) = rest
        /\ \A k \in 1..Len(s) : b[k] = s[k]
    BY <2>1, FrontAndRest
  <2> QED
    BY <2>1, <2>2
<1>4. DOMAIN b = 1..Len(b) /\ Len(rest) \in Nat
  BY <1>3, LenProperties DEF Bytes
<1> HIDE DEF b
<1>5. Min(ends) = g /\ ends # {}
  <2>1. g \in ends /\ ends \subseteq Nat
    BY <1>1, <1>2, <1>3, <1>4
  <2>2. ASSUME NEW k \in ends PROVE g <= k
    BY <1>1, <1>2, <1>3, <1>4
  <2> HIDE DEF ends
  <2> QED
    BY <2>1, <2>2, MinIs
<1>6. value = w
  <2>1. ASSUME NEW k \in 1..g
        PROVE  b[k] \ {7} = {i \in 0..6 : i + 7 * (k - 1) \in w}
    BY <1>2, <1>3
  <2>2. ASSUME NEW x, x \in value PROVE x \in w
    BY <2>1, <2>2 DEF Shl
  <2>3. ASSUME NEW x, x \in w PROVE x \in value
    <3>1. x \in 0..31 /\ x < 7 * g
      BY <1>1, <2>3 DEF Word, Width
    <3> DEFINE k == x \div 7 + 1
               i == x % 7
    <3>2. k \in 1..g /\ i \in 0..6 /\ x = i + 7 * (k - 1)
      BY <1>1, <3>1
    <3> HIDE DEF k, i
    <3>3. i \in b[k] \ {7}
      BY <2>1, <2>3, <3>2
    <3>4. x \in Shl(b[k] \ {7}, 7 * (k - 1), 64)
      BY <3>1, <3>2, <3>3 DEF Shl
    <3> QED
      BY <3>2, <3>4
  <2> HIDE DEF value
  <2> QED
    BY <2>2, <2>3
<1>7. TakeVarSizeUint32(b) = Took(value, Behind(b, g))
  <2> HIDE DEF value
  <2>1. UNION {Shl(b[k] \ {7}, 7 * (k - 1), 64) : k \in 1..Min(ends)} = value
    BY <1>5 DEF value
  <2> QED
    BY <1>5, <1>6, <2>1 DEF TakeVarSizeUint32
<1> QED
  BY <1>3, <1>6, <1>7 DEF b, s

\* sfc_deserializer_read_string reads a string that fits the buffer.
LEMMA TakesString ==
  ASSUME NEW s \in Seq(Byte \ {NUL}), NEW size \in Nat, Len(s) < size, NEW rest \in Bytes
  PROVE  TakeString(WriteString(s) \o rest, size) = Took(s, rest)
<1> DEFINE n == Len(s) + 1
           t == WriteString(s)
           b == t \o rest
           ends == {k \in DOMAIN b : b[k] = NUL}
<1>1. s \in Seq(Byte) /\ \A k \in 1..Len(s) : s[k] # NUL
  BY ElementOfSeq, SeqMonotonic
<1>2. Len(s) \in Nat
  BY LenProperties
<1>3. t \in Seq(Byte) /\ Len(t) = n /\ t[n] = NUL /\ \A k \in 1..Len(s) : t[k] = s[k]
  <2>1. NUL \in Byte
    BY DEF NUL, Byte, Width
  <2> QED
    BY <1>1, <2>1, AppendProperties DEF WriteString
<1>4. t = s \o <<NUL>> /\ <<NUL>> \in Seq(Byte)
  <2>1. NUL \in Byte
    BY DEF NUL, Byte, Width
  <2> QED
    BY <1>1, <2>1, AppendIsConcat DEF WriteString
<1> HIDE DEF t
<1>5. /\ b \in Seq(Byte) /\ Len(b) = n + Len(rest) /\ Behind(b, n) = rest
      /\ \A k \in 1..n : b[k] = t[k]
  BY <1>3, FrontAndRest DEF Bytes
<1>6. DOMAIN b = 1..Len(b) /\ Len(rest) \in Nat
  BY <1>5, LenProperties DEF Bytes
<1>7. SubSeq(b, 1, Len(s)) = s
  <2>1. \A i \in 1..Len(s) : b[i] = s[i]
    BY <1>2, <1>3, <1>5
  <2>2. SubSeq(b, 1, Len(s)) = [i \in 1..Len(s) |-> b[i]]
    BY <1>2, <1>5, <1>6
  <2>3. s = [i \in 1..Len(s) |-> s[i]]
    BY <1>1, LenProperties
  <2> QED
    BY <2>1, <2>2, <2>3
<1> HIDE DEF b
<1>8. Min(ends) = n /\ ends # {}
  <2>1. n \in ends /\ ends \subseteq Nat
    BY <1>2, <1>3, <1>5, <1>6
  <2>2. ASSUME NEW k \in ends PROVE n <= k
    BY <1>1, <1>2, <1>3, <1>5, <1>6
  <2> HIDE DEF ends
  <2> QED
    BY <2>1, <2>2, MinIs
<1>9. TakeString(b, size) = Took(SubSeq(b, 1, n - 1), Behind(b, n))
  BY <1>2, <1>8 DEF TakeString
<1>10. n - 1 = Len(s)
  BY <1>2
<1> QED
  BY <1>5, <1>7, <1>9, <1>10 DEF b, t

LEMMA TakesBuffer ==
  ASSUME NEW data \in Bytes, NEW rest \in Bytes
  PROVE  TakeBuffer(data \o rest, Len(data)) = Took(data, rest)
<1>1. /\ Len(data \o rest) = Len(data) + Len(rest) /\ Behind(data \o rest, Len(data)) = rest
      /\ SubSeq(data \o rest, 1, Len(data)) = data
  BY FrontAndRest DEF Bytes
<1>2. Len(data) \in Nat /\ Len(rest) \in Nat
  BY LenProperties DEF Bytes
<1>3. ~(Len(data \o rest) < Len(data))
  BY <1>1, <1>2
<1> QED
  BY <1>1, <1>3 DEF TakeBuffer

-----------------------------------------------------------------------------
(* What is read does not depend on what comes behind it. *)

LEMMA CutInTwo ==
  ASSUME NEW b \in Bytes, NEW n \in 0..Len(b)
  PROVE  /\ SubSeq(b, 1, n) \in Bytes /\ Len(SubSeq(b, 1, n)) = n
         /\ Behind(b, n) \in Bytes /\ Len(Behind(b, n)) = Len(b) - n
         /\ SubSeq(b, 1, n) \o Behind(b, n) = b
         /\ \A i \in 1..n : SubSeq(b, 1, n)[i] = b[i]
<1>1. Len(b) \in Nat /\ b \in Seq(Byte) /\ n \in Int /\ n \in Nat
  BY LenProperties DEF Bytes
<1>2. /\ SubSeq(b, 1, n) \in Seq(Byte)
      /\ Len(SubSeq(b, 1, n)) = IF 1 <= n THEN n - 1 + 1 ELSE 0
      /\ \A i \in 1..(n - 1 + 1) : SubSeq(b, 1, n)[i] = b[1 + i - 1]
  <2>1. \A i \in 1..n : b[i] \in Byte
    BY <1>1, ElementOfSeq
  <2> QED
    BY <1>1, <2>1, SubSeqProperties
<1>3. /\ Behind(b, n) \in Seq(Byte)
      /\ Len(Behind(b, n)) = IF n + 1 <= Len(b) THEN Len(b) - (n + 1) + 1 ELSE 0
  <2>1. \A i \in (n + 1)..Len(b) : b[i] \in Byte
    BY <1>1, ElementOfSeq
  <2>2. n + 1 \in Int /\ Len(b) \in Int
    BY <1>1
  <2> QED
    BY <2>1, <2>2, SubSeqProperties DEF Behind
<1>4. SubSeq(b, 1, n) \o Behind(b, n) = b
  <2>1. 1 \in 1..(Len(b) + 1) /\ n \in (1 - 1)..Len(b) /\ Len(b) \in n..Len(b)
    BY <1>1
  <2>2. SubSeq(b, 1, n) \o SubSeq(b, n + 1, Len(b)) = SubSeq(b, 1, Len(b))
    BY <1>1, <2>1, ConcatAdjacentSubSeq
  <2> QED
    BY <1>1, <2>2, SubSeqFull DEF Behind
<1>5. Len(SubSeq(b, 1, n)) = n /\ Len(Behind(b, n)) = Len(b) - n
  BY <1>1, <1>2, <1>3
<1>6. \A i \in 1..n : SubSeq(b, 1, n)[i] = b[i]
  BY <1>1, <1>2
<1> QED
  BY <1>2, <1>3, <1>4, <1>5, <1>6 DEF Bytes

LEMMA CutOfMore ==
  ASSUME NEW b \in Bytes, NEW x \in Bytes, NEW n \in 0..Len(b)
  PROVE  /\ SubSeq(b \o x, 1, n) = SubSeq(b, 1, n)
         /\ Behind(b \o x, n) = Behind(b, n) \o x
         /\ Len(b \o x) = Len(b) + Len(x) /\ Len(b) \in Nat /\ Len(x) \in Nat
         /\ b \o x \in Bytes
         /\ \A i \in 1..Len(b) : (b \o x)[i] = b[i]
<1> DEFINE p == SubSeq(b, 1, n)
           q == Behind(b, n)
<1>1. p \in Bytes /\ Len(p) = n /\ q \in Bytes /\ p \o q = b
  BY CutInTwo
<1> HIDE DEF p, q
<1>2. b \o x = p \o (q \o x)
  <2>1. (p \o q) \o x = p \o (q \o x)
    <3>1. p \in Seq(Byte) /\ q \in Seq(Byte) /\ x \in Seq(Byte)
      BY <1>1 DEF Bytes
    <3> QED
      BY <3>1, ConcatAssociative
  <2> QED
    BY <1>1, <2>1
<1>3. q \o x \in Bytes
  BY <1>1, ConcatProperties DEF Bytes
<1>4. SubSeq(p \o (q \o x), 1, Len(p)) = p /\ Behind(p \o (q \o x), Len(p)) = q \o x
  BY <1>1, <1>3, FrontAndRest DEF Bytes
<1>5. Len(b \o x) = Len(b) + Len(x) /\ b \o x \in Bytes /\ \A i \in 1..Len(b) : (b \o x)[i] = b[i]
  BY FrontAndRest DEF Bytes
<1>6. Len(b) \in Nat /\ Len(x) \in Nat
  BY LenProperties DEF Bytes
<1> QED
  BY <1>1, <1>2, <1>4, <1>5, <1>6 DEF p, q

LEMMA WordOfMore ==
  ASSUME NEW b \in Bytes, NEW x \in Bytes, NEW n \in 0..8, TakeWord(b, n).code = "OK"
  PROVE  /\ TakeWord(b, n).value \in Width(8 * n) /\ TakeWord(b, n).rest \in Bytes
         /\ TakeWord(b \o x, n) = Took(TakeWord(b, n).value, TakeWord(b, n).rest \o x)
<1>1. Len(b) \in Nat /\ ~(Len(b) < n)
  <2>1. Len(b) \in Nat
    BY LenProperties DEF Bytes
  <2> QED
    BY <2>1 DEF TakeWord, NotEnough, Failed
<1>2. n \in 0..Len(b)
  BY <1>1
<1> DEFINE p == SubSeq(b, 1, n)
<1>3. TakeWord(b, n) = Took(Joined(p), Behind(b, n))
  BY <1>1 DEF TakeWord
<1>4. p \in Seq(Byte) /\ Len(p) = n /\ Behind(b, n) \in Bytes
  BY <1>2, CutInTwo DEF Bytes
<1>5. TakeWord(b \o x, n) = Took(Joined(p), Behind(b, n) \o x)
  <2>1. /\ SubSeq(b \o x, 1, n) = p /\ Behind(b \o x, n) = Behind(b, n) \o x
        /\ Len(b \o x) = Len(b) + Len(x) /\ Len(x) \in Nat
    BY <1>2, CutOfMore
  <2>2. ~(Len(b \o x) < n)
    BY <1>1, <2>1
  <2> QED
    BY <2>1, <2>2 DEF TakeWord
<1> HIDE DEF p
<1>6. Joined(p) \in Width(8 * n)
  <2>1. DOMAIN p = 1..n /\ \A k \in 1..n : p[k] \subseteq 0..7
    BY <1>4, LenProperties, ElementOfSeq DEF Byte, Width
  <2> SUFFICES ASSUME NEW y, y \in Joined(p) PROVE y \in 0..(8 * n - 1)
    BY DEF Width
  <2> QED
    BY <2>1 DEF Joined, Shl
<1> QED
  BY <1>3, <1>4, <1>5, <1>6 DEF Took

LEMMA BufferOfMore ==
  ASSUME NEW b \in Bytes, NEW x \in Bytes, NEW n \in Nat, TakeBuffer(b, n).code = "OK"
  PROVE  /\ TakeBuffer(b, n).value \in Bytes /\ TakeBuffer(b, n).rest \in Bytes
         /\ Len(TakeBuffer(b, n).value) = n
         /\ TakeBuffer(b \o x, n) = Took(TakeBuffer(b, n).value, TakeBuffer(b, n).rest \o x)
<1>1. Len(b) \in Nat /\ ~(Len(b) < n)
  <2>1. Len(b) \in Nat
    BY LenProperties DEF Bytes
  <2> QED
    BY <2>1 DEF TakeBuffer, NotEnough, Failed
<1>2. n \in 0..Len(b)
  BY <1>1
<1>3. TakeBuffer(b, n) = Took(SubSeq(b, 1, n), Behind(b, n))
  BY <1>1 DEF TakeBuffer
<1>4. SubSeq(b, 1, n) \in Bytes /\ Len(SubSeq(b, 1, n)) = n /\ Behind(b, n) \in Bytes
  BY <1>2, CutInTwo
<1>5. /\ SubSeq(b \o x, 1, n) = SubSeq(b, 1, n) /\ Behind(b \o x, n) = Behind(b, n) \o x
      /\ Len(b \o x) = Len(b) + Len(x) /\ Len(x) \in Nat
  BY <1>2, CutOfMore
<1>6. TakeBuffer(b \o x, n) = Took(SubSeq(b, 1, n), Behind(b, n) \o x)
  <2>1. ~(Len(b \o x) < n)
    BY <1>1, <1>5
  <2> QED
    BY <1>5, <2>1 DEF TakeBuffer
<1> QED
  BY <1>3, <1>4, <1>6 DEF Took

\* The same for the reads that stop at a byte they look for: it is the first of
\* its kind in the longer sequence too.
LEMMA FirstOfMore ==
  ASSUME NEW b \in Bytes, NEW x \in Bytes, NEW K,
         {k \in DOMAIN b : b[k] \in K} # {}
  PROVE  LET first == Min({k \in DOMAIN b : b[k] \in K})
         IN  /\ first \in 1..Len(b)
             /\ {k \in DOMAIN (b \o x) : (b \o x)[k] \in K} # {}
             /\ Min({k \in DOMAIN (b \o x) : (b \o x)[k] \in K}) = first
<1> DEFINE c == b \o x
           E == {k \in DOMAIN b : b[k] \in K}
           F == {k \in DOMAIN c : c[k] \in K}
<1>1. /\ Len(b) \in Nat /\ Len(x) \in Nat /\ Len(c) = Len(b) + Len(x) /\ DOMAIN b = 1..Len(b)
      /\ \A i \in 1..Len(b) : c[i] = b[i]
  <2>1. 0 \in 0..Len(b) /\ DOMAIN b = 1..Len(b)
    BY LenProperties DEF Bytes
  <2> QED
    BY <2>1, CutOfMore
<1>2. DOMAIN c = 1..Len(c)
  <2>1. c \in Seq(Byte)
    BY ConcatProperties DEF Bytes
  <2> QED
    BY <2>1, LenProperties
<1> HIDE DEF c
<1>3. E \subseteq Nat /\ Min(E) \in E /\ \A i \in E : Min(E) <= i
  <2>1. E \subseteq Nat
    BY <1>1
  <2> HIDE DEF E
  <2>2. E # {}
    BY DEF E
  <2> QED
    BY <2>1, <2>2, LeastOfSet
<1> DEFINE m == Min(E)
<1>4. m \in 1..Len(b) /\ m \in F
  BY <1>1, <1>2, <1>3
<1>5. ASSUME NEW k \in F PROVE m <= k
  <2>1. CASE k \in 1..Len(b)
    BY <1>1, <1>3, <2>1
  <2>2. CASE k \notin 1..Len(b)
    BY <1>1, <1>2, <1>4, <2>2
  <2> QED
    BY <2>1, <2>2
<1>6. F \subseteq Nat
  BY <1>1, <1>2
<1> HIDE DEF E, F, m
<1>7. Min(F) = m
  BY <1>4, <1>5, <1>6, MinIs
<1> QED
  BY <1>4, <1>7 DEF c, E, F, m

LEMMA VarSizeOfMore ==
  ASSUME NEW b \in Bytes, NEW x \in Bytes, TakeVarSizeUint32(b).code = "OK"
  PROVE  LET t == TakeVarSizeUint32(b)
         IN  /\ t.value \in Word /\ t.rest \in Bytes
             /\ TakeVarSizeUint32(b \o x) = Took(t.value, t.rest \o x)
<1> DEFINE K == {y \in Byte : 7 \notin y}
           c == b \o x
           E == {k \in DOMAIN b : 7 \notin b[k]}
           F == {k \in DOMAIN c : 7 \notin c[k]}
           m == Min(E)
           value == UNION {Shl(b[k] \ {7}, 7 * (k - 1), 64) : k \in 1..m}
           wider == UNION {Shl(c[k] \ {7}, 7 * (k - 1), 64) : k \in 1..m}
<1>1. /\ Len(b) \in Nat /\ c \in Seq(Byte) /\ \A i \in 1..Len(b) : c[i] = b[i]
  <2>1. 0 \in 0..Len(b)
    BY LenProperties DEF Bytes
  <2> QED
    BY <2>1, CutOfMore DEF Bytes
<1>2. E = {k \in DOMAIN b : b[k] \in K}
  BY LenProperties, ElementOfSeq DEF Bytes
<1>3. F = {k \in DOMAIN c : c[k] \in K}
  BY <1>1, LenProperties, ElementOfSeq
<1>4. E # {} /\ value \in Word /\ TakeVarSizeUint32(b) = Took(value, Behind(b, m))
  <2> HIDE DEF value, m, E
  <2>1. TakeVarSizeUint32(b) =
          IF E = {} THEN NotEnough
          ELSE IF value \in Word THEN Took(value, Behind(b, m))
          ELSE Failed("VAR_SIZE_UINT32_TOO_BIG")
    BY DEF TakeVarSizeUint32, value, m, E
  <2> QED
    BY <2>1 DEF NotEnough, Failed
<1>5. m \in 1..Len(b) /\ F # {} /\ Min(F) = m
  <2>1. {k \in DOMAIN b : b[k] \in K} # {}
    BY <1>2, <1>4
  <2> HIDE DEF K
  <2>2. /\ Min({k \in DOMAIN b : b[k] \in K}) \in 1..Len(b)
        /\ {k \in DOMAIN (b \o x) : (b \o x)[k] \in K} # {}
        /\ Min({k \in DOMAIN (b \o x) : (b \o x)[k] \in K}) = Min({k \in DOMAIN b : b[k] \in K})
    BY <2>1, FirstOfMore
  <2> HIDE DEF E, F
  <2> QED
    BY <1>2, <1>3, <2>2
<1>6. Behind(c, m) = Behind(b, m) \o x /\ Behind(b, m) \in Bytes
  <2> HIDE DEF m
  <2>1. m \in 0..Len(b)
    BY <1>5
  <2> QED
    BY <2>1, CutOfMore, CutInTwo
<1>7. wider = value
  <2> HIDE DEF m
  <2>1. \A k \in 1..m : c[k] = b[k]
    BY <1>1, <1>5
  <2> HIDE DEF c
  <2> QED
    BY <2>1
<1>8. TakeVarSizeUint32(c) = Took(value, Behind(b, m) \o x)
  <2>1. TakeVarSizeUint32(c) =
          IF F = {} THEN NotEnough
          ELSE IF wider \in Word THEN Took(wider, Behind(c, m))
          ELSE Failed("VAR_SIZE_UINT32_TOO_BIG")
    <3> HIDE DEF m, F
    <3> QED
      BY <1>5 DEF TakeVarSizeUint32, F
  <2> HIDE DEF value, wider, m, F
  <2> QED
    BY <1>4, <1>5, <1>6, <1>7, <2>1
<1> HIDE DEF value, m
<1> QED
  BY <1>4, <1>6, <1>8 DEF Took

LEMMA StringOfMore ==
  ASSUME NEW b \in Bytes, NEW x \in Bytes, NEW size \in Nat, TakeString(b, size).code = "OK"
  PROVE  LET t == TakeString(b, size)
         IN  /\ t.value \in Seq(Byte) /\ t.rest \in Bytes
             /\ TakeString(b \o x, size) = Took(t.value, t.rest \o x)
<1> DEFINE K == {NUL}
           c == b \o x
           E == {k \in DOMAIN b : b[k] = NUL}
           F == {k \in DOMAIN c : c[k] = NUL}
           m == Min(E)
<1>1. E = {k \in DOMAIN b : b[k] \in K} /\ F = {k \in DOMAIN c : c[k] \in K}
  OBVIOUS
<1>2. E # {} /\ m <= size /\ TakeString(b, size) = Took(SubSeq(b, 1, m - 1), Behind(b, m))
  <2> HIDE DEF m, E
  <2>1. TakeString(b, size) =
          IF E # {} /\ m <= size
          THEN Took(SubSeq(b, 1, m - 1), Behind(b, m))
          ELSE Failed(IF Len(b) > size THEN "BUFFER_TOO_SMALL" ELSE "MISSING_NULL_TERMINATION")
    BY DEF TakeString, m, E
  <2>2. \A e : Failed(e) = [code |-> e]
    BY DEF Failed
  <2>3. Failed(IF Len(b) > size THEN "BUFFER_TOO_SMALL" ELSE "MISSING_NULL_TERMINATION").code # "OK"
    BY DEF Failed
  <2> QED
    BY <2>1, <2>3
<1>3. m \in 1..Len(b) /\ F # {} /\ Min(F) = m
  <2>1. {k \in DOMAIN b : b[k] \in K} # {}
    BY <1>1, <1>2
  <2> HIDE DEF K
  <2>2. /\ Min({k \in DOMAIN b : b[k] \in K}) \in 1..Len(b)
        /\ {k \in DOMAIN (b \o x) : (b \o x)[k] \in K} # {}
        /\ Min({k \in DOMAIN (b \o x) : (b \o x)[k] \in K}) = Min({k \in DOMAIN b : b[k] \in K})
    BY <2>1, FirstOfMore
  <2> HIDE DEF E, F
  <2> QED
    BY <1>1, <2>2
<1> HIDE DEF m
<1>4. /\ Behind(c, m) = Behind(b, m) \o x /\ Behind(b, m) \in Bytes
      /\ SubSeq(c, 1, m - 1) = SubSeq(b, 1, m - 1) /\ SubSeq(b, 1, m - 1) \in Bytes
  <2>1. m \in 0..Len(b) /\ m - 1 \in 0..Len(b)
    BY <1>3
  <2>2. Behind(c, m) = Behind(b, m) \o x /\ Behind(b, m) \in Bytes
    BY <2>1, CutOfMore, CutInTwo
  <2> DEFINE n == m - 1
  <2>3. n \in 0..Len(b)
    BY <2>1
  <2> HIDE DEF n
  <2>4. SubSeq(c, 1, n) = SubSeq(b, 1, n) /\ SubSeq(b, 1, n) \in Bytes
    BY <2>3, CutOfMore, CutInTwo
  <2> QED
    BY <2>2, <2>4 DEF n
<1>5. TakeString(c, size) = Took(SubSeq(b, 1, m - 1), Behind(b, m) \o x)
  BY <1>2, <1>3, <1>4 DEF TakeString
<1> DEFINE v == SubSeq(b, 1, m - 1)
           r == Behind(b, m)
<1>6. TakeString(b, size) = Took(v, r) /\ TakeString(c, size) = Took(v, r \o x)
  BY <1>2, <1>5
<1>7. v \in Seq(Byte) /\ r \in Bytes
  BY <1>4 DEF Bytes
<1> HIDE DEF v, r, c
<1> QED
  BY <1>6, <1>7 DEF Took, c

-----------------------------------------------------------------------------
(* The frame of a record. *)

LEMMA ValueIsNat ==
  ASSUME NEW w
  PROVE  Value(w) \in Nat
BY ValueSums

LEMMA FrameLength ==
  ASSUME NEW n \in Nat
  PROVE  SizeBytes(Bits(n)) \in Bytes /\ Len(SizeBytes(Bits(n))) = 4
<1> DEFINE s == SizeBytes(Bits(n))
<1>1. s \in [1..4 -> Byte]
  BY DEF SizeBytes, Field, NUL, Byte, Width
<1> HIDE DEF s
<1>2. s \in Seq(Byte) /\ Len(s) = 4
  BY <1>1, FunctionIsSeq
<1> QED
  BY <1>2 DEF Bytes, s

\* A record of less than 16 MiB is read from the file as it was written: its
\* length has no bits in the byte that sfc_file_write_buffer writes as size >> 32
\* (sfc_file.c:16).
LEMMA FrameIsRead ==
  ASSUME NEW bytes \in Bytes, Len(bytes) < 2^24
  PROVE  ReadBuffer(WriteBuffer(bytes)) = Took(bytes, <<>>)
<1> DEFINE n == Len(bytes)
           s == SizeBytes(Bits(n))
           whole == WriteBuffer(bytes)
<1>1. n \in Nat
  BY LenProperties DEF Bytes
<1>2. Bits(n) \subseteq 0..23
  <2>1. 24 \in 0..31
    OBVIOUS
  <2> HIDE DEF n
  <2>2. n < 2^24
    BY DEF n
  <2>3. Bits(n) \subseteq 0..(24 - 1)
    BY <1>1, <2>1, <2>2, BitsBounded
  <2> QED
    BY <2>3
<1> HIDE DEF n
<1>3. s = Split(Bits(n), 4)
  <2>1. Field(Bits(n), 8 * (4 - 1), 8) = NUL
    <3>1. \A i \in 0..7 : i + 24 \notin Bits(n)
      BY <1>2
    <3>2. 8 * (4 - 1) = 24 /\ 0..(8 - 1) = 0..7
      OBVIOUS
    <3> QED
      BY <3>1, <3>2 DEF Field, NUL
  <2> QED
    BY <2>1 DEF SizeBytes, Split
<1>4. s \in Bytes /\ Len(s) = 4 /\ Joined(s) = Bits(n)
  <2>1. 4 \in 0..8 /\ Bits(n) \in Width(8 * 4)
    BY <1>2 DEF Width
  <2> QED
    BY <1>3, <2>1, SplitIsJoined
<1>5. Value(Bits(n)) = n
  <2>1. n < 2^31
    <3>1. n < 2^24
      BY DEF n
    <3> QED
      BY <1>1, <3>1, SMT
  <2> QED
    BY <1>1, <2>1, ValueOfBits
<1>6. whole = s \o bytes
  BY DEF WriteBuffer, n
<1> HIDE DEF s, whole
<1>7. /\ Len(whole) = 4 + n /\ SubSeq(whole, 1, 4) = s /\ Behind(whole, 4) = bytes
      /\ whole \in Bytes
  <2>1. s \in Seq(Byte) /\ bytes \in Seq(Byte)
    BY <1>4 DEF Bytes
  <2>2. /\ s \o bytes \in Seq(Byte) /\ Len(s \o bytes) = Len(s) + Len(bytes)
        /\ SubSeq(s \o bytes, 1, Len(s)) = s /\ Behind(s \o bytes, Len(s)) = bytes
    BY <2>1, FrontAndRest
  <2> QED
    BY <1>4, <1>6, <2>2 DEF Bytes, n
<1>8. SubSeq(whole, 5, 4 + n) = bytes
  BY <1>1, <1>7 DEF Behind
<1>9. Behind(whole, 4 + n) = <<>>
  BY <1>1, <1>7, SubSeqEmpty DEF Behind
<1>10. ReadBuffer(whole) =
         IF Len(whole) < 4 \/ Len(whole) - 4 < n THEN Failed("FILE_READ_ERROR")
         ELSE Took(SubSeq(whole, 5, 4 + n), Behind(whole, 4 + n))
  BY <1>4, <1>5, <1>7 DEF ReadBuffer
<1>11. ~(Len(whole) < 4) /\ ~(Len(whole) - 4 < n)
  BY <1>1, <1>7
<1>12. ReadBuffer(whole) = Took(bytes, <<>>)
  BY <1>8, <1>9, <1>10, <1>11
<1> QED
  BY <1>12 DEF whole

\* Of a record that was cut anywhere, in its length or behind it, nothing is
\* read (sfc_file.c:33).
LEMMA CutFrameIsRefused ==
  ASSUME NEW bytes \in Bytes, Len(bytes) < 2^24,
         NEW n \in 0..(Len(WriteBuffer(bytes)) - 1)
  PROVE  ReadBuffer(SubSeq(WriteBuffer(bytes), 1, n)) = Failed("FILE_READ_ERROR")
<1> DEFINE whole == WriteBuffer(bytes)
           cut == SubSeq(whole, 1, n)
<1>1. Len(bytes) \in Nat
  BY LenProperties DEF Bytes
<1>2. whole = SizeBytes(Bits(Len(bytes))) \o bytes /\ whole \in Bytes /\ Len(whole) = 4 + Len(bytes)
  <2> DEFINE s == SizeBytes(Bits(Len(bytes)))
  <2>1. s \in Bytes /\ Len(s) = 4
    BY <1>1, FrameLength
  <2>2. whole = s \o bytes
    BY DEF WriteBuffer
  <2> HIDE DEF s, whole
  <2>3. whole \in Bytes /\ Len(whole) = 4 + Len(bytes)
    <3>1. s \in Seq(Byte) /\ bytes \in Seq(Byte)
      BY <2>1 DEF Bytes
    <3>2. s \o bytes \in Seq(Byte) /\ Len(s \o bytes) = Len(s) + Len(bytes)
      BY <3>1, FrontAndRest
    <3> QED
      BY <2>1, <2>2, <3>2 DEF Bytes
  <2> QED
    BY <2>2, <2>3 DEF s
<1>3. ReadBuffer(whole) = Took(bytes, <<>>)
  BY FrameIsRead
<1> HIDE DEF whole
<1>4. n \in 0..Len(whole) /\ n < Len(whole)
  BY <1>1, <1>2 DEF whole
<1>5. cut \in Bytes /\ Len(cut) = n /\ \A i \in 1..n : cut[i] = whole[i]
  BY <1>2, <1>4, CutInTwo
<1>6. CASE n < 4
  BY <1>5, <1>6 DEF ReadBuffer
<1>7. CASE ~(n < 4)
  <2> DEFINE rest == Behind(whole, n)
  <2>1. rest \in Bytes /\ whole = cut \o rest
    BY <1>2, <1>4, CutInTwo
  <2> HIDE DEF cut, rest
  <2>2. SubSeq(whole, 1, 4) = SubSeq(cut, 1, 4)
    <3>1. 4 \in 0..Len(cut)
      BY <1>4, <1>5, <1>7
    <3> QED
      BY <1>5, <2>1, <3>1, CutOfMore
  <2> DEFINE size == Value(Joined(SubSeq(whole, 1, 4)))
  <2>3. size \in Nat
    BY ValueIsNat
  <2> HIDE DEF size
  <2>4. ReadBuffer(whole) =
          IF Len(whole) < 4 \/ Len(whole) - 4 < size THEN Failed("FILE_READ_ERROR")
          ELSE Took(SubSeq(whole, 5, 4 + size), Behind(whole, 4 + size))
    BY DEF ReadBuffer, size
  <2>5. ~(Len(whole) - 4 < size) /\ SubSeq(whole, 5, 4 + size) = bytes
    BY <1>3, <2>4 DEF Took, Failed
  <2>6. size = Len(bytes)
    <3>1. \A i \in 5..(4 + size) : whole[i] \in Byte
      <4>1. \A i \in 5..(4 + size) : i \in 1..Len(whole)
        BY <1>1, <1>2, <2>3, <2>5
      <4> QED
        BY <1>2, <4>1, ElementOfSeq DEF Bytes
    <3> DEFINE top == 4 + size
    <3>2. 5 \in Int /\ top \in Int /\ \A i \in 5..top : whole[i] \in Byte
      BY <2>3, <3>1
    <3> HIDE DEF top
    <3>3. Len(SubSeq(whole, 5, top)) = IF 5 <= top THEN top - 5 + 1 ELSE 0
      BY <3>2, SubSeqProperties
    <3> QED
      BY <1>1, <2>3, <2>5, <3>3 DEF top
  <2>7. ReadBuffer(cut) =
          IF Len(cut) < 4 \/ Len(cut) - 4 < size THEN Failed("FILE_READ_ERROR")
          ELSE Took(SubSeq(cut, 5, 4 + size), Behind(cut, 4 + size))
    BY <2>2 DEF ReadBuffer, size
  <2>8. Len(cut) - 4 < size
    BY <1>1, <1>2, <1>4, <1>5, <2>6
  <2> QED
    BY <2>7, <2>8 DEF cut, whole
<1> QED
  BY <1>4, <1>6, <1>7 DEF whole

\* Whatever its length, what is read from the frame of a record is its beginning.
LEMMA FrameGivesFront ==
  ASSUME NEW bytes \in Bytes, ReadBuffer(WriteBuffer(bytes)).code = "OK"
  PROVE  \E n \in 0..Len(bytes) : ReadBuffer(WriteBuffer(bytes)).value = SubSeq(bytes, 1, n)
<1> DEFINE s == SizeBytes(Bits(Len(bytes)))
           whole == WriteBuffer(bytes)
           size == Value(Joined(SubSeq(whole, 1, 4)))
<1>1. Len(bytes) \in Nat
  BY LenProperties DEF Bytes
<1>2. s \in Bytes /\ Len(s) = 4
  BY <1>1, FrameLength
<1>3. whole = s \o bytes
  BY DEF WriteBuffer
<1>4. size \in Nat
  BY ValueIsNat
<1> HIDE DEF s, size
<1>5. ReadBuffer(whole) =
        IF Len(whole) < 4 \/ Len(whole) - 4 < size THEN Failed("FILE_READ_ERROR")
        ELSE Took(SubSeq(whole, 5, 4 + size), Behind(whole, 4 + size))
  BY DEF ReadBuffer, size
<1>6. ~(Len(whole) - 4 < size) /\ ReadBuffer(whole).value = SubSeq(whole, 5, 4 + size)
  <2>1. ReadBuffer(whole).code = "OK"
    OBVIOUS
  <2> HIDE DEF whole
  <2>2. ~(Len(whole) < 4 \/ Len(whole) - 4 < size)
    BY <1>5, <2>1 DEF Failed
  <2> DEFINE front == SubSeq(whole, 5, 4 + size)
             rest == Behind(whole, 4 + size)
  <2>3. ReadBuffer(whole) = Took(front, rest)
    BY <1>5, <2>2
  <2> HIDE DEF front, rest
  <2>4. ReadBuffer(whole).value = front
    BY <2>3 DEF Took
  <2> QED
    BY <2>2, <2>4 DEF front
<1> HIDE DEF whole
<1>7. /\ Len(whole) = 4 + Len(bytes) /\ whole \in Bytes
      /\ \A i \in 1..(4 + Len(bytes)) : whole[i] = IF i <= 4 THEN s[i] ELSE bytes[i - 4]
  <2>1. s \in Seq(Byte) /\ bytes \in Seq(Byte)
    BY <1>2 DEF Bytes
  <2>2. /\ s \o bytes \in Seq(Byte) /\ Len(s \o bytes) = Len(s) + Len(bytes)
        /\ \A i \in 1..(Len(s) + Len(bytes)) :
             (s \o bytes)[i] = IF i <= Len(s) THEN s[i] ELSE bytes[i - Len(s)]
    BY <2>1, ConcatProperties
  <2> QED
    BY <1>2, <1>3, <2>2 DEF Bytes
<1>8. size \in 0..Len(bytes)
  BY <1>1, <1>4, <1>6, <1>7
<1>9. SubSeq(whole, 5, 4 + size) = SubSeq(bytes, 1, size)
  <2> DEFINE top == 4 + size
             u == SubSeq(whole, 5, top)
             v == SubSeq(bytes, 1, size)
  <2>1. u \in Seq(Byte) /\ Len(u) = size /\ \A i \in 1..size : u[i] = whole[i + 4]
    <3>1. 5 \in Int /\ top \in Int /\ \A i \in 5..top : whole[i] \in Byte
      <4>1. \A i \in 5..top : i \in 1..Len(whole)
        BY <1>1, <1>7, <1>8
      <4> QED
        BY <1>4, <1>7, <4>1, ElementOfSeq DEF Bytes
    <3>2. top = 4 + size
      OBVIOUS
    <3> HIDE DEF top
    <3>3. /\ u \in Seq(Byte) /\ Len(u) = IF 5 <= top THEN top - 5 + 1 ELSE 0
          /\ \A i \in 1..(top - 5 + 1) : u[i] = whole[5 + i - 1]
      BY <3>1, SubSeqProperties
    <3> QED
      BY <1>4, <3>2, <3>3
  <2>2. v \in Seq(Byte) /\ Len(v) = size /\ \A i \in 1..size : v[i] = bytes[i]
    BY <1>8, CutInTwo DEF Bytes
  <2>3. \A i \in 1..size : whole[i + 4] = bytes[i]
    BY <1>1, <1>7, <1>8
  <2> HIDE DEF u, v
  <2>4. u = v
    BY <2>1, <2>2, <2>3, SeqEqual
  <2> QED
    BY <2>4 DEF u, v
<1> QED
  BY <1>6, <1>8, <1>9 DEF whole

-----------------------------------------------------------------------------
(* The growing buffer. *)

BufferStates == [onHeap: BOOLEAN, static: Bytes, block: Bytes, size: Nat, allocated: Nat]

\* What p points to has the bytes that are allocated, and the size is among them.
WellFormed(b) ==
  b \in BufferStates /\ Len(Memory(b)) = b.allocated /\ b.size <= b.allocated

LEMMA ZerosAreBytes ==
  ASSUME NEW n \in Nat
  PROVE  Zeros(n) \in Bytes /\ Len(Zeros(n)) = n
<1>1. Zeros(n) \in [1..n -> Byte]
  BY DEF Zeros, Byte, Width
<1> QED
  BY <1>1, FunctionIsSeq DEF Bytes

LEMMA NewBufferIsWellFormed == WellFormed(NewBuffer) /\ Contents(NewBuffer) = <<>>
<1>1. StaticSize \in Nat
  BY SizesAssumption
<1>2. Zeros(StaticSize) \in Bytes /\ Len(Zeros(StaticSize)) = StaticSize
  BY <1>1, ZerosAreBytes
<1>3. <<>> \in Bytes
  BY DEF Bytes
<1>4. WellFormed(NewBuffer)
  BY <1>1, <1>2, <1>3 DEF WellFormed, NewBuffer, Memory, BufferStates
<1>5. Contents(NewBuffer) = SubSeq(Zeros(StaticSize), 1, 0)
  BY DEF Contents, Memory, NewBuffer
<1> QED
  BY <1>4, <1>5, SubSeqEmpty

\* Growing makes room, and keeps what is there.
LEMMA GrowsWellFormed ==
  ASSUME NEW b, WellFormed(b), NEW size \in Nat
  PROVE  /\ WellFormed(SetSize(b, size)) /\ SetSize(b, size).size = size
         /\ b.allocated <= SetSize(b, size).allocated
         /\ \A i \in 1..b.allocated : Memory(SetSize(b, size))[i] = Memory(b)[i]
<1>1. /\ b \in BufferStates /\ Memory(b) \in Bytes /\ Len(Memory(b)) = b.allocated
      /\ b.allocated \in Nat
  BY DEF WellFormed, BufferStates, Memory
<1>2. CASE size <= b.allocated
  <2>1. SetSize(b, size) = [b EXCEPT !.size = size]
    BY <1>2 DEF SetSize
  <2> QED
    BY <1>1, <1>2, <2>1 DEF WellFormed, BufferStates, Memory
<1>3. CASE ~(size <= b.allocated)
  <2> DEFINE n == ToAllocate(size)
             room == n - b.allocated
             z == Zeros(room)
             c == SetSize(b, size)
  <2>1. n \in Nat /\ size <= n
    <3> DEFINE q == size \div Page
               r == size % Page
    <3>1. Page \in Nat \ {0}
      BY SizesAssumption
    <3>2. size = Page * q + r /\ r \in 0..(Page - 1) /\ q \in Nat
      BY <3>1
    <3> HIDE DEF q, r
    <3>3. (q + 1) * Page = Page * q + Page
      BY <3>1, <3>2
    <3>4. Page * q \in Nat
      BY <3>1, <3>2
    <3>5. n = (q + 1) * Page
      BY DEF ToAllocate, q
    <3> DEFINE pq == Page * q
    <3> HIDE DEF pq, n
    <3>6. pq \in Nat /\ size = pq + r /\ n = pq + Page
      BY <3>2, <3>3, <3>4, <3>5 DEF pq
    <3> QED
      BY <3>1, <3>2, <3>6
  <2>2. c = [b EXCEPT !.onHeap = TRUE, !.block = Memory(b) \o z, !.allocated = n, !.size = size]
    BY <1>3 DEF SetSize, Enlarged
  <2> HIDE DEF n
  <2>3. room \in Nat /\ n = b.allocated + room
    BY <1>1, <1>3, <2>1
  <2> HIDE DEF room
  <2>4. z \in Bytes /\ Len(z) = room
    BY <2>3, ZerosAreBytes
  <2> HIDE DEF z
  <2> DEFINE m == Memory(b) \o z
  <2>5. /\ m \in Bytes /\ Len(m) = b.allocated + room
        /\ \A i \in 1..b.allocated : m[i] = Memory(b)[i]
    <3>1. Memory(b) \in Seq(Byte) /\ z \in Seq(Byte)
      BY <1>1, <2>4 DEF Bytes
    <3>2. /\ m \in Seq(Byte) /\ Len(m) = Len(Memory(b)) + Len(z)
          /\ \A i \in 1..Len(Memory(b)) : m[i] = Memory(b)[i]
      BY <3>1, FrontAndRest
    <3> QED
      BY <1>1, <2>4, <3>2 DEF Bytes
  <2> HIDE DEF m
  <2>6. c = [b EXCEPT !.onHeap = TRUE, !.block = m, !.allocated = n, !.size = size]
    BY <2>2 DEF m
  <2> HIDE DEF c
  <2>7. /\ c \in BufferStates /\ Memory(c) = m /\ c.size = size /\ c.allocated = n
    BY <1>1, <2>1, <2>5, <2>6 DEF BufferStates, Memory
  <2>8. WellFormed(c) /\ c.size = size /\ b.allocated <= c.allocated
    BY <1>1, <2>1, <2>3, <2>5, <2>7 DEF WellFormed
  <2>9. \A i \in 1..b.allocated : Memory(c)[i] = Memory(b)[i]
    BY <2>5, <2>7
  <2> QED
    BY <2>8, <2>9 DEF c
<1> QED
  BY <1>2, <1>3

\* A buffer holds what was appended to it, behind what it held, whether or not
\* it has grown (sfc_buffer_append).
LEMMA AppendHolds ==
  ASSUME NEW b, WellFormed(b), NEW data \in Bytes
  PROVE  /\ WellFormed(BufferAppend(b, data))
         /\ Contents(BufferAppend(b, data)) = Contents(b) \o data
<1> DEFINE size == b.size + Len(data)
           c == SetSize(b, size)
           m == Memory(c)
           w == Written(m, b.size, data)
           d == BufferAppend(b, data)
<1>1. /\ b \in BufferStates /\ b.size \in Nat /\ b.allocated \in Nat /\ b.size <= b.allocated
      /\ Memory(b) \in Bytes /\ Len(Memory(b)) = b.allocated
  BY DEF WellFormed, BufferStates, Memory
<1>2. data \in Seq(Byte) /\ Len(data) \in Nat /\ DOMAIN data = 1..Len(data)
  BY LenProperties DEF Bytes
<1>3. size \in Nat
  BY <1>1, <1>2
<1>4. /\ WellFormed(c) /\ c.size = size /\ b.allocated <= c.allocated
      /\ \A i \in 1..b.allocated : m[i] = Memory(b)[i]
  <2> HIDE DEF size
  <2> QED
    BY <1>3, GrowsWellFormed
<1>5. /\ c \in BufferStates /\ m \in Seq(Byte) /\ Len(m) = c.allocated /\ size <= c.allocated
      /\ c.allocated \in Nat
  <2> HIDE DEF c, size
  <2> QED
    BY <1>4 DEF WellFormed, BufferStates, Memory, Bytes
<1>6. d = IF c.onHeap THEN [c EXCEPT !.block = Written(@, b.size, data)]
                      ELSE [c EXCEPT !.static = Written(@, b.size, data)]
  BY DEF BufferAppend
<1> HIDE DEF c, d
<1>7. DOMAIN m = 1..c.allocated /\ \A i \in 1..c.allocated : m[i] \in Byte
  BY <1>5, LenProperties, ElementOfSeq
<1> HIDE DEF m
<1>8. \A i \in 1..c.allocated :
        w[i] = IF i - b.size \in 1..Len(data) THEN data[i - b.size] ELSE m[i]
  BY <1>2, <1>7 DEF Written
<1>9. w \in Seq(Byte) /\ Len(w) = c.allocated
  <2>1. w = [i \in 1..c.allocated |-> w[i]]
    BY <1>7 DEF Written
  <2>2. \A i \in 1..c.allocated : w[i] \in Byte
    BY <1>2, <1>7, <1>8, ElementOfSeq
  <2> HIDE DEF w
  <2>3. w \in [1..c.allocated -> Byte]
    BY <2>1, <2>2
  <2> QED
    BY <1>5, <2>3, FunctionIsSeq
<1>10. d \in BufferStates /\ Memory(d) = w /\ d.size = size /\ d.allocated = c.allocated
  <2>1. CASE c.onHeap
    <3>1. m = c.block
      BY <2>1 DEF m, Memory
    <3> QED
      BY <1>4, <1>5, <1>6, <1>9, <2>1, <3>1 DEF BufferStates, Memory, Bytes
  <2>2. CASE ~c.onHeap
    <3>1. m = c.static
      BY <2>2 DEF m, Memory
    <3> QED
      BY <1>4, <1>5, <1>6, <1>9, <2>2, <3>1 DEF BufferStates, Memory, Bytes
  <2> QED
    BY <2>1, <2>2
<1>11. WellFormed(d)
  BY <1>5, <1>9, <1>10 DEF WellFormed
<1>12. Contents(d) = Contents(b) \o data
  <2> DEFINE old == Contents(b)
  <2>1. old \in Seq(Byte) /\ Len(old) = b.size /\ \A i \in 1..b.size : old[i] = Memory(b)[i]
    <3>1. b.size \in 0..Len(Memory(b))
      BY <1>1
    <3> QED
      BY <1>1, <3>1, CutInTwo DEF Contents, Bytes
  <2>2. /\ Contents(d) \in Seq(Byte) /\ Len(Contents(d)) = size
        /\ \A i \in 1..size : Contents(d)[i] = w[i]
    <3>1. size \in 0..Len(w) /\ w \in Bytes
      BY <1>3, <1>5, <1>9 DEF Bytes
    <3> HIDE DEF w, size
    <3> QED
      BY <1>10, <3>1, CutInTwo DEF Contents, Bytes
  <2>3. /\ old \o data \in Seq(Byte) /\ Len(old \o data) = size
        /\ \A i \in 1..size : (old \o data)[i] = IF i <= b.size THEN old[i] ELSE data[i - b.size]
    <3> HIDE DEF old
    <3>1. /\ old \o data \in Seq(Byte) /\ Len(old \o data) = Len(old) + Len(data)
          /\ \A i \in 1..(Len(old) + Len(data)) :
               (old \o data)[i] = IF i <= Len(old) THEN old[i] ELSE data[i - Len(old)]
      BY <1>2, <2>1, ConcatProperties
    <3> QED
      BY <2>1, <3>1
  <2>4. \A i \in 1..size : w[i] = IF i <= b.size THEN Memory(b)[i] ELSE data[i - b.size]
    <3> SUFFICES ASSUME NEW i \in 1..size
                 PROVE  w[i] = IF i <= b.size THEN Memory(b)[i] ELSE data[i - b.size]
      OBVIOUS
    <3> HIDE DEF w
    <3>1. i \in 1..c.allocated
      BY <1>3, <1>5
    <3>2. CASE i <= b.size
      BY <1>1, <1>4, <1>8, <3>1, <3>2
    <3>3. CASE ~(i <= b.size)
      BY <1>1, <1>2, <1>8, <3>1, <3>3
    <3> QED
      BY <3>2, <3>3
  <2>5. \A i \in 1..size : Contents(d)[i] = (old \o data)[i]
    <3> SUFFICES ASSUME NEW i \in 1..size PROVE Contents(d)[i] = (old \o data)[i]
      OBVIOUS
    <3>1. Contents(d)[i] = w[i] /\ w[i] = IF i <= b.size THEN Memory(b)[i] ELSE data[i - b.size]
      BY <2>2, <2>4
    <3>2. (old \o data)[i] = IF i <= b.size THEN old[i] ELSE data[i - b.size]
      BY <2>3
    <3>3. i <= b.size => old[i] = Memory(b)[i]
      <4>1. b.size \in Nat /\ i \in Nat /\ i >= 1
        BY <1>1, <1>2
      <4> HIDE DEF old
      <4> QED
        BY <2>1, <4>1
    <3> HIDE DEF w, old, size
    <3> QED
      BY <3>1, <3>2, <3>3
  <2> HIDE DEF w, old, size
  <2> QED
    BY <2>2, <2>3, <2>5, SeqEqual DEF old
<1> QED
  BY <1>11, <1>12 DEF d

-----------------------------------------------------------------------------
(* One sequence after another. *)

Flattens(f, S, ss) ==
  /\ f \in [0..Len(ss) -> Seq(S)]
  /\ f[0] = <<>>
  /\ \A i \in 1..Len(ss) : f[i] = f[i - 1] \o ss[i]

LEMMA FlattenSeqSums ==
  ASSUME NEW S, NEW ss \in Seq(Seq(S))
  PROVE  \E f : Flattens(f, S, ss) /\ FlattenSeq(ss) = f[Len(ss)]
<1> DEFINE n == Len(ss)
           T == Seq(S)
           h == [i \in 1..n |-> [s \in T |-> s \o ss[i]]]
<1>1. n \in Nat /\ DOMAIN ss = 1..n /\ (\A i \in 1..n : ss[i] \in Seq(S)) /\ <<>> \in T
  BY LenProperties, ElementOfSeq
<1>2. h \in [1..n -> [T -> T]]
  <2> SUFFICES ASSUME NEW i \in 1..n, NEW s \in T PROVE s \o ss[i] \in T
    OBVIOUS
  <2> QED
    BY <1>1, ConcatProperties
<1>3. \A i \in 1..n, s \in T : h[i][s] = s \o ss[i]
  OBVIOUS
<1> HIDE DEF h, n
<1>4. PICK f \in [0..n -> T] : f[0] = <<>> /\ \A i \in 1..n : f[i] = f[i - 1] \o ss[i]
  <2>1. PICK f \in [0..n -> T] : Unfolds(f, <<>>, h, n)
    <3> HIDE DEF T
    <3> QED
      BY <1>1, <1>2, Recursion
  <2>2. \A i \in 1..n : f[i] = f[i - 1] \o ss[i]
    <3> SUFFICES ASSUME NEW i \in 1..n PROVE f[i] = f[i - 1] \o ss[i]
      OBVIOUS
    <3>1. i - 1 \in 0..n /\ f[i - 1] \in T
      BY <1>1, <2>1
    <3>2. h[i][f[i - 1]] = f[i - 1] \o ss[i]
      BY <1>3, <3>1
    <3> QED
      BY <2>1, <3>2 DEF Unfolds
  <2> QED
    BY <2>1, <2>2 DEF Unfolds
<1>5. Flattens(f, S, ss)
  BY <1>4 DEF Flattens, n
<1>6. CASE n = 0
  <2>1. ss = <<>>
    BY <1>6, EmptySeq DEF n
  <2>2. FlattenSeq(ss) = ss
    BY <1>6 DEF FlattenSeq, n
  <2> QED
    BY <1>4, <1>5, <1>6, <2>1, <2>2 DEF n
<1>7. CASE n # 0
  <2> DEFINE Is(g) == g = [i \in 1..n |-> IF i = 1 THEN ss[i] ELSE g[i - 1] \o ss[i]]
             k == CHOOSE g : Is(g)
             e == [i \in 1..n |-> f[i]]
  <2>1. FlattenSeq(ss) = k[n]
    BY <1>7 DEF FlattenSeq, n
  <2>2. \A i \in 1..n : e[i] = f[i]
    OBVIOUS
  <2>3. f[1] = ss[1]
    <3>1. 1 \in 1..n
      BY <1>1, <1>7
    <3>2. f[1] = f[1 - 1] \o ss[1]
      BY <1>4, <3>1
    <3>3. f[1 - 1] = <<>>
      BY <1>4
    <3>4. <<>> \o ss[1] = ss[1]
      BY <1>1, <3>1, ConcatEmptySeq
    <3> QED
      BY <3>2, <3>3, <3>4
  <2>4. \A i \in 1..n : e[i] = IF i = 1 THEN ss[i] ELSE e[i - 1] \o ss[i]
    <3> SUFFICES ASSUME NEW i \in 1..n PROVE e[i] = IF i = 1 THEN ss[i] ELSE e[i - 1] \o ss[i]
      OBVIOUS
    <3>1. i # 1 => i - 1 \in 1..n
      BY <1>1
    <3> HIDE DEF e
    <3> QED
      BY <1>4, <2>2, <2>3, <3>1
  <2>5. Is(e)
    <3>1. e = [i \in 1..n |-> e[i]]
      OBVIOUS
    <3> HIDE DEF e
    <3> QED
      BY <2>4, <3>1
  <2> HIDE DEF e
  <2>6. Is(k)
    BY <2>5
  <2> HIDE DEF k
  <2>7. \A i \in 1..n : k[i] = IF i = 1 THEN ss[i] ELSE k[i - 1] \o ss[i]
    BY <2>6
  <2> DEFINE U == {i \in 0..n : i = 0 \/ k[i] = f[i]}
  <2>8. 0..n \subseteq U
    <3>1. 0 \in U
      BY <1>1
    <3>2. ASSUME NEW i \in 0..(n - 1), i \in U PROVE i + 1 \in U
      <4>1. i + 1 \in 1..n /\ (i + 1) - 1 = i
        BY <1>1
      <4>2. CASE i = 0
        BY <2>3, <2>7, <4>1, <4>2
      <4>3. CASE i # 0
        <5>1. k[i + 1] = k[i] \o ss[i + 1]
          <6> DEFINE j == i + 1
          <6>1. j \in 1..n /\ j # 1 /\ j - 1 = i
            BY <4>1, <4>3
          <6> HIDE DEF j
          <6>2. k[j] = k[j - 1] \o ss[j]
            BY <2>7, <6>1
          <6> QED
            BY <6>1, <6>2 DEF j
        <5>2. f[i + 1] = f[i] \o ss[i + 1]
          BY <1>4, <4>1
        <5>3. k[i] = f[i]
          BY <3>2, <4>3
        <5>4. k[i + 1] = f[i + 1] /\ i + 1 \in 0..n
          BY <4>1, <5>1, <5>2, <5>3
        <5> QED
          BY <5>4, Zenon
      <4> QED
        BY <4>2, <4>3
    <3> HIDE DEF U
    <3> QED
      BY <1>1, <3>1, <3>2, InductionUpTo
  <2>9. k[n] = f[n]
    BY <1>1, <1>7, <2>8
  <2> QED
    BY <1>5, <2>1, <2>9 DEF n
<1> QED
  BY <1>6, <1>7

LEMMA FlattenOfNone == FlattenSeq(<<>>) = <<>>
BY DEF FlattenSeq

LEMMA FlattenConcat ==
  ASSUME NEW S, NEW s \in Seq(Seq(S)), NEW t \in Seq(Seq(S))
  PROVE  /\ FlattenSeq(s) \in Seq(S)
         /\ FlattenSeq(s \o t) = FlattenSeq(s) \o FlattenSeq(t)
<1> DEFINE m == Len(s)
           n == Len(t)
           u == s \o t
<1>1. m \in Nat /\ n \in Nat
  BY LenProperties
<1>2. /\ u \in Seq(Seq(S)) /\ Len(u) = m + n
      /\ \A i \in 1..(m + n) : u[i] = IF i <= m THEN s[i] ELSE t[i - m]
  BY ConcatProperties
<1> HIDE DEF u
<1>3. PICK f : Flattens(f, S, s) /\ FlattenSeq(s) = f[m]
  BY FlattenSeqSums
<1>4. PICK g : Flattens(g, S, t) /\ FlattenSeq(t) = g[n]
  BY FlattenSeqSums
<1>5. PICK h : Flattens(h, S, u) /\ FlattenSeq(u) = h[m + n]
  BY <1>2, FlattenSeqSums
<1>6. /\ f \in [0..m -> Seq(S)] /\ f[0] = <<>> /\ \A i \in 1..m : f[i] = f[i - 1] \o s[i]
      /\ g \in [0..n -> Seq(S)] /\ g[0] = <<>> /\ \A i \in 1..n : g[i] = g[i - 1] \o t[i]
      /\ h \in [0..(m + n) -> Seq(S)] /\ h[0] = <<>>
      /\ \A i \in 1..(m + n) : h[i] = h[i - 1] \o u[i]
  BY <1>2, <1>3, <1>4, <1>5 DEF Flattens
<1> HIDE DEF m, n
<1>7. h[m] = f[m]
  <2> DEFINE U == {i \in 0..m : h[i] = f[i]}
  <2>1. 0 \in U
    BY <1>1, <1>6
  <2>2. ASSUME NEW i \in 0..(m - 1), i \in U PROVE i + 1 \in U
    <3>1. i + 1 \in 1..m /\ i + 1 \in 1..(m + n) /\ (i + 1) - 1 = i
      BY <1>1
    <3>2. u[i + 1] = s[i + 1] /\ h[i] = f[i]
      BY <1>1, <1>2, <2>2, <3>1
    <3>3. h[i + 1] = h[(i + 1) - 1] \o u[i + 1] /\ f[i + 1] = f[(i + 1) - 1] \o s[i + 1]
      BY <1>6, <3>1
    <3>4. h[i + 1] = f[i + 1]
      BY <3>1, <3>2, <3>3
    <3> QED
      BY <1>1, <3>1, <3>4
  <2> HIDE DEF U
  <2>3. 0..m \subseteq U
    BY <1>1, <2>1, <2>2, InductionUpTo
  <2> QED
    BY <1>1, <2>3 DEF U
<1>8. f[m] \in Seq(S)
  BY <1>1, <1>6
<1>9. h[m + n] = f[m] \o g[n]
  <2> DEFINE U == {i \in 0..n : h[m + i] = f[m] \o g[i]}
  <2>1. 0 \in U
    <3>1. f[m] \o <<>> = f[m]
      BY <1>8, ConcatEmptySeq
    <3>2. m + 0 = m /\ 0 \in 0..n
      BY <1>1
    <3> QED
      BY <1>6, <1>7, <3>1, <3>2, Zenon
  <2>2. ASSUME NEW i \in 0..(n - 1), i \in U PROVE i + 1 \in U
    <3>1. i + 1 \in 1..n /\ m + (i + 1) \in 1..(m + n) /\ (m + (i + 1)) - 1 = m + i
          /\ (i + 1) - 1 = i /\ i \in 0..n
      BY <1>1
    <3>2. u[m + (i + 1)] = t[i + 1]
      BY <1>1, <1>2, <3>1
    <3>3. h[m + (i + 1)] = h[m + i] \o u[m + (i + 1)] /\ g[i + 1] = g[i] \o t[i + 1]
      <4> DEFINE j == m + (i + 1)
                 k == i + 1
      <4>1. h[j] = h[j - 1] \o u[j]
        BY <1>6, <3>1
      <4>2. g[k] = g[k - 1] \o t[k]
        BY <1>6, <3>1
      <4> QED
        BY <3>1, <4>1, <4>2
    <3>4. h[m + i] = f[m] \o g[i]
      BY <2>2
    <3>5. g[i] \in Seq(S) /\ t[i + 1] \in Seq(S)
      BY <1>6, <3>1, ElementOfSeq DEF n
    <3>6. (f[m] \o g[i]) \o t[i + 1] = f[m] \o (g[i] \o t[i + 1])
      <4> DEFINE a == f[m]
                 b == g[i]
                 c == t[i + 1]
      <4>1. a \in Seq(S) /\ b \in Seq(S) /\ c \in Seq(S)
        BY <1>8, <3>5
      <4> HIDE DEF a, b, c
      <4>2. (a \o b) \o c = a \o (b \o c)
        BY <4>1, ConcatAssociative
      <4> QED
        BY <4>2 DEF a, b, c
    <3>7. h[m + (i + 1)] = f[m] \o g[i + 1]
      BY <3>2, <3>3, <3>4, <3>6
    <3>8. i + 1 \in 0..n
      BY <1>1, <3>1
    <3> QED
      BY <3>7, <3>8, Zenon
  <2> HIDE DEF U
  <2>3. 0..n \subseteq U
    BY <1>1, <2>1, <2>2, InductionUpTo
  <2>4. n \in U
    BY <1>1, <2>3
  <2> QED
    BY <2>4, Zenon DEF U
<1> QED
  BY <1>3, <1>4, <1>5, <1>8, <1>9 DEF u

LEMMA FlattenOfOne ==
  ASSUME NEW S, NEW x \in Seq(S)
  PROVE  FlattenSeq(<<x>>) = x
<1>1. <<x>> \in Seq(Seq(S)) /\ Len(<<x>>) = 1 /\ <<x>>[1] = x
  OBVIOUS
<1>2. PICK f : Flattens(f, S, <<x>>) /\ FlattenSeq(<<x>>) = f[1]
  BY <1>1, FlattenSeqSums
<1>3. f[0] = <<>> /\ f[1] = f[0] \o x
  <2>1. 1 \in 1..Len(<<x>>) /\ 1 - 1 = 0
    BY <1>1
  <2>2. f[1] = f[1 - 1] \o <<x>>[1]
    BY <1>2, <2>1 DEF Flattens
  <2> QED
    BY <1>1, <1>2, <2>1, <2>2 DEF Flattens
<1> QED
  BY <1>2, <1>3, ConcatEmptySeq

\* What is left of a sequence of sequences behind each of them.
Tails(rests, ss, S) ==
  /\ rests \in [0..Len(ss) -> Seq(S)] /\ rests[0] = FlattenSeq(ss) /\ rests[Len(ss)] = <<>>
  /\ \A i \in 1..Len(ss) : rests[i - 1] = ss[i] \o rests[i]

LEMMA FlattenTails ==
  ASSUME NEW S, NEW ss \in Seq(Seq(S))
  PROVE  \E rests : Tails(rests, ss, S)
<1> DEFINE n == Len(ss)
           R == [i \in 0..n |-> FlattenSeq(SubSeq(ss, i + 1, n))]
<1>1. n \in Nat /\ \A i \in 1..n : ss[i] \in Seq(S)
  BY LenProperties, ElementOfSeq
<1>2. \A i \in 0..n : SubSeq(ss, i + 1, n) \in Seq(Seq(S))
  <2> SUFFICES ASSUME NEW i \in 0..n PROVE SubSeq(ss, i + 1, n) \in Seq(Seq(S))
    OBVIOUS
  <2> DEFINE j == i + 1
             T == Seq(S)
  <2>1. j \in Int /\ n \in Int /\ \A k \in j..n : ss[k] \in T
    BY <1>1
  <2> HIDE DEF j, n, T
  <2>2. SubSeq(ss, j, n) \in Seq(T)
    BY <2>1, SubSeqProperties
  <2> QED
    BY <2>2 DEF j, T
<1>3. R \in [0..n -> Seq(S)]
  <2> SUFFICES ASSUME NEW i \in 0..n PROVE FlattenSeq(SubSeq(ss, i + 1, n)) \in Seq(S)
    OBVIOUS
  <2> DEFINE t == SubSeq(ss, i + 1, n)
  <2>1. t \in Seq(Seq(S)) /\ <<>> \in Seq(Seq(S))
    BY <1>2, EmptySeq
  <2> HIDE DEF t
  <2>2. FlattenSeq(t) \in Seq(S)
    BY <2>1, FlattenConcat
  <2> QED
    BY <2>2 DEF t
<1>4. R[0] = FlattenSeq(ss)
  <2>1. SubSeq(ss, 0 + 1, n) = ss
    BY SubSeqFull
  <2>2. 0 \in 0..n
    BY <1>1
  <2>3. R[0] = FlattenSeq(SubSeq(ss, 0 + 1, n))
    BY <2>2, Zenon
  <2> QED
    BY <2>1, <2>3, Zenon
<1>5. R[n] = <<>>
  <2>1. SubSeq(ss, n + 1, n) = <<>>
    <3> DEFINE j == n + 1
    <3>1. j \in Int /\ n \in Int /\ n < j
      BY <1>1
    <3> HIDE DEF j, n
    <3> QED
      BY <3>1, SubSeqEmpty DEF j
  <2>2. n \in 0..n
    BY <1>1
  <2>3. R[n] = FlattenSeq(SubSeq(ss, n + 1, n))
    BY <2>2, Zenon
  <2> QED
    BY <2>1, <2>3, FlattenOfNone, Zenon
<1>6. ASSUME NEW i \in 1..n PROVE R[i - 1] = ss[i] \o R[i]
  <2> DEFINE x == ss[i]
             t == SubSeq(ss, i + 1, n)
  <2>1. SubSeq(ss, i, n) = <<x>> \o t
    <3>1. i \in 1..Len(ss) /\ n \in i..Len(ss)
      BY <1>1
    <3> QED
      BY <3>1, SubSeqRecursiveFirst
  <2>2. x \in Seq(S) /\ t \in Seq(Seq(S))
    BY <1>1, <1>2
  <2>3. (i - 1) + 1 = i /\ i - 1 \in 0..n /\ i \in 0..n
    BY <1>1
  <2>4. R[i - 1] = FlattenSeq(SubSeq(ss, i, n)) /\ R[i] = FlattenSeq(t)
    BY <2>3
  <2> HIDE DEF x, t
  <2>5. <<x>> \in Seq(Seq(S))
    BY <2>2
  <2>6. FlattenSeq(<<x>> \o t) = FlattenSeq(<<x>>) \o FlattenSeq(t)
    BY <2>2, <2>5, FlattenConcat
  <2>7. FlattenSeq(<<x>>) = x
    BY <2>2, FlattenOfOne
  <2>8. R[i - 1] = x \o R[i]
    BY <2>1, <2>4, <2>6, <2>7
  <2> QED
    BY <2>8 DEF x
<1> HIDE DEF R
<1>7. Tails(R, ss, S)
  BY <1>3, <1>4, <1>5, <1>6 DEF Tails
<1> QED
  BY <1>7

\* A buffer that collects writes holds them one after another, however often it
\* has grown on the way.
LEMMA CollectedHolds ==
  ASSUME NEW ws \in Seq(Bytes)
  PROVE  WellFormed(Collected(ws)) /\ Contents(Collected(ws)) = FlattenSeq(ws)
<1> DEFINE n == Len(ws)
           S == {b \in BufferStates : WellFormed(b)}
           h == [i \in 1..n |-> [b \in S |-> BufferAppend(b, ws[i])]]
           Is(g) == g = [i \in 0..n |-> IF i = 0 THEN NewBuffer ELSE BufferAppend(g[i - 1], ws[i])]
           k == CHOOSE g : Is(g)
<1>1. n \in Nat /\ \A i \in 1..n : ws[i] \in Bytes
  BY LenProperties, ElementOfSeq
<1>2. \A b : WellFormed(b) <=> b \in S
  BY DEF WellFormed
<1>3. NewBuffer \in S /\ \A b \in S, i \in 1..n : BufferAppend(b, ws[i]) \in S
  BY <1>1, <1>2, NewBufferIsWellFormed, AppendHolds
<1>4. h \in [1..n -> [S -> S]] /\ \A i \in 1..n, b \in S : h[i][b] = BufferAppend(b, ws[i])
  <2> HIDE DEF S
  <2> QED
    BY <1>3
<1> HIDE DEF S, h, n
<1>5. PICK f \in [0..n -> S] : Unfolds(f, NewBuffer, h, n)
  BY <1>1, <1>3, <1>4, Recursion
<1>6. \A i \in 1..n : f[i] = BufferAppend(f[i - 1], ws[i])
  <2> SUFFICES ASSUME NEW i \in 1..n PROVE f[i] = BufferAppend(f[i - 1], ws[i])
    OBVIOUS
  <2>1. f[i - 1] \in S
    BY <1>1, <1>5
  <2> QED
    BY <1>4, <1>5, <2>1 DEF Unfolds
<1>7. Is(f)
  BY <1>5, <1>6 DEF Unfolds
<1>8. Is(k)
  BY <1>7
<1>9. Collected(ws) = k[n]
  BY DEF Collected, n
<1> HIDE DEF k
<1>10. k[0] = NewBuffer /\ \A i \in 1..n : k[i] = BufferAppend(k[i - 1], ws[i])
  BY <1>1, <1>8
<1>11. PICK g : Flattens(g, Byte, ws) /\ FlattenSeq(ws) = g[n]
  BY FlattenSeqSums DEF Bytes, n
<1>12. g[0] = <<>> /\ \A i \in 1..n : g[i] = g[i - 1] \o ws[i]
  BY <1>11 DEF Flattens, n
<1> DEFINE U == {i \in 0..n : WellFormed(k[i]) /\ Contents(k[i]) = g[i]}
<1>13. 0..n \subseteq U
  <2>1. 0 \in U
    BY <1>1, <1>10, <1>12, NewBufferIsWellFormed
  <2>2. ASSUME NEW i \in 0..(n - 1), i \in U PROVE i + 1 \in U
    <3> DEFINE j == i + 1
    <3>1. j \in 1..n /\ j - 1 = i /\ j \in 0..n
      BY <1>1
    <3> HIDE DEF j
    <3>2. k[j] = BufferAppend(k[i], ws[j]) /\ g[j] = g[i] \o ws[j] /\ ws[j] \in Bytes
      BY <1>1, <1>10, <1>12, <3>1
    <3>3. WellFormed(k[i]) /\ Contents(k[i]) = g[i]
      BY <2>2
    <3>4. WellFormed(k[j]) /\ Contents(k[j]) = g[j]
      BY <3>2, <3>3, AppendHolds
    <3>5. j \in U
      BY <3>1, <3>4
    <3> QED
      BY <3>5 DEF j
  <2> HIDE DEF U
  <2> QED
    BY <1>1, <2>1, <2>2, InductionUpTo
<1>14. n \in U
  BY <1>1, <1>13
<1> QED
  BY <1>9, <1>11, <1>14

\* What sfc_buffer_detach gives is what the buffer holds, in the block or not.
LEMMA DetachedHolds ==
  ASSUME NEW b, WellFormed(b)
  PROVE  SubSeq(Detached(b).data, 1, Detached(b).size) = Contents(b)
<1>1. b.size \in 0..Len(Memory(b)) /\ Memory(b) \in Bytes
  BY DEF WellFormed, BufferStates, Memory
<1>2. Contents(b) \in Seq(Byte) /\ Len(Contents(b)) = b.size
  BY <1>1, CutInTwo DEF Contents, Bytes
<1>3. SubSeq(Contents(b), 1, Len(Contents(b))) = Contents(b)
  BY <1>2, SubSeqFull
<1>4. CASE b.onHeap
  BY <1>4 DEF Detached, Contents, Memory
<1>5. CASE ~b.onHeap
  BY <1>2, <1>3, <1>5 DEF Detached
<1> QED
  BY <1>4, <1>5

-----------------------------------------------------------------------------
(* The decimal digits of collector numbers. *)

\* A digit behind a number, and the numbers that ReadDigits goes through.
OneMore(v, digit) == IF v > NumberMax THEN v ELSE 10 * v + digit
Reads(f, digits) ==
  f = [n \in 0..Len(digits) |-> IF n = 0 THEN 0 ELSE OneMore(f[n - 1], digits[n])]

LEMMA DigitsAreRead ==
  ASSUME NEW digits \in Seq(0..9)
  PROVE  \E f \in [0..Len(digits) -> Nat] :
            /\ ReadDigits(digits) = f[Len(digits)] /\ f[0] = 0
            /\ \A n \in 1..Len(digits) : f[n] = OneMore(f[n - 1], digits[n])
<1> DEFINE l == Len(digits)
           h == [n \in 1..l |-> [v \in Nat |-> OneMore(v, digits[n])]]
           f == CHOOSE f : Reads(f, digits)
<1>1. l \in Nat /\ \A n \in 1..l : digits[n] \in 0..9
  BY LenProperties, ElementOfSeq
<1>2. \A n \in 1..l, v \in Nat : OneMore(v, digits[n]) \in Nat
  BY <1>1 DEF OneMore
<1>3. h \in [1..l -> [Nat -> Nat]] /\ \A n \in 1..l, v \in Nat : h[n][v] = OneMore(v, digits[n])
  BY <1>2
<1> HIDE DEF h, f
<1>4. PICK g \in [0..l -> Nat] : Unfolds(g, 0, h, l)
  <2>1. 0 \in Nat
    OBVIOUS
  <2> HIDE DEF l
  <2> QED
    BY <1>1, <1>3, <2>1, Recursion
<1>5. g[0] = 0 /\ \A n \in 1..l : g[n] = OneMore(g[n - 1], digits[n])
  <2>1. g[0] = 0 /\ \A n \in 1..l : g[n] = h[n][g[n - 1]]
    BY <1>4 DEF Unfolds
  <2>2. \A n \in 1..l : g[n - 1] \in Nat
    BY <1>1, <1>4
  <2> HIDE DEF l
  <2> QED
    BY <1>3, <2>1, <2>2
<1>6. g = [n \in 0..l |-> IF n = 0 THEN 0 ELSE OneMore(g[n - 1], digits[n])]
  BY <1>1, <1>4, <1>5
<1>7. Reads(f, digits)
  BY <1>6 DEF Reads, f
<1>8. ReadDigits(digits) = f[l]
  BY DEF ReadDigits, Reads, OneMore, f
<1>9. f[0] = 0 /\ \A n \in 1..l : f[n] = OneMore(f[n - 1], digits[n])
  BY <1>1, <1>7 DEF Reads
<1>10. f \in [0..l -> Nat]
  <2> DEFINE T == {n \in 0..l : f[n] \in Nat}
  <2>1. 0..l \subseteq T
    <3>1. 0 \in T
      BY <1>1, <1>9
    <3>2. ASSUME NEW n \in 0..(l - 1), n \in T PROVE n + 1 \in T
      <4>1. n + 1 \in 1..l /\ (n + 1) - 1 = n
        BY <1>1
      <4>2. f[n + 1] = OneMore(f[n], digits[n + 1])
        BY <1>9, <4>1
      <4>3. f[n] \in Nat /\ n + 1 \in 0..l
        BY <3>2, <4>1
      <4> HIDE DEF l
      <4>4. f[n + 1] \in Nat
        BY <1>2, <4>1, <4>2, <4>3
      <4> QED
        BY <4>3, <4>4
    <3> HIDE DEF T, l
    <3> QED
      BY <1>1, <3>1, <3>2, InductionUpTo
  <2> QED
    BY <1>7, <2>1 DEF Reads
<1> QED
  BY <1>8, <1>9, <1>10

LEMMA ReadDigitsIsNat ==
  ASSUME NEW digits \in Seq(0..9)
  PROVE  ReadDigits(digits) \in Nat
<1>1. Len(digits) \in 0..Len(digits)
  BY LenProperties
<1> QED
  BY <1>1, DigitsAreRead

\* When the number is not refused, it was not stopped at any digit.
LEMMA DigitsAddUp ==
  ASSUME NEW digits \in Seq(0..9), ReadDigits(digits) <= NumberMax
  PROVE  \E f \in [0..Len(digits) -> 0..NumberMax] :
            /\ ReadDigits(digits) = f[Len(digits)] /\ f[0] = 0
            /\ \A n \in 1..Len(digits) : f[n] = 10 * f[n - 1] + digits[n]
<1> DEFINE l == Len(digits)
<1>1. l \in Nat
  BY LenProperties
<1>2. PICK f \in [0..l -> Nat] :
        /\ ReadDigits(digits) = f[l] /\ f[0] = 0
        /\ \A n \in 1..l : f[n] = OneMore(f[n - 1], digits[n])
  BY DigitsAreRead
<1>3. \A n \in 0..l : f[n] <= NumberMax
  <2> DEFINE T == {k \in 0..l : f[l - k] <= NumberMax}
  <2>1. 0 \in T
    BY <1>1, <1>2
  <2>2. ASSUME NEW k \in 0..(l - 1), k \in T PROVE k + 1 \in T
    <3>1. l - k \in 1..l /\ (l - k) - 1 = l - (k + 1) /\ k + 1 \in 0..l
      BY <1>1
    <3>2. f[l - k] = OneMore(f[l - (k + 1)], digits[l - k])
      BY <1>2, <3>1
    <3>3. f[l - (k + 1)] <= NumberMax
      <4> SUFFICES ASSUME ~(f[l - (k + 1)] <= NumberMax) PROVE FALSE
        OBVIOUS
      <4>1. f[l - (k + 1)] \in Nat /\ f[l - (k + 1)] > NumberMax
        BY <1>1, <1>2, <3>1 DEF NumberMax
      <4>2. f[l - k] = f[l - (k + 1)]
        BY <3>2, <4>1 DEF OneMore
      <4> QED
        BY <2>2, <4>1, <4>2
    <3> QED
      BY <3>1, <3>3
  <2> HIDE DEF T, l
  <2>3. 0..l \subseteq T
    BY <1>1, <2>1, <2>2, InductionUpTo
  <2>4. ASSUME NEW n \in 0..l PROVE f[n] <= NumberMax
    <3>1. l - n \in 0..l /\ l - (l - n) = n
      BY <1>1
    <3> QED
      BY <2>3, <3>1 DEF T
  <2> QED
    BY <2>4
<1>4. f \in [0..l -> 0..NumberMax]
  <2> HIDE DEF l
  <2>1. \A v \in Nat : v <= NumberMax => v \in 0..NumberMax
    BY DEF NumberMax
  <2>2. \A n \in 0..l : f[n] \in Nat
    BY <1>2
  <2>3. \A n \in 0..l : f[n] \in 0..NumberMax
    BY <1>3, <2>1, <2>2
  <2> QED
    BY <1>2, <2>3
<1>5. ASSUME NEW n \in 1..l PROVE f[n] = 10 * f[n - 1] + digits[n]
  <2>1. n - 1 \in 0..l
    BY <1>1
  <2>2. ~(f[n - 1] > NumberMax)
    <3>1. \A v \in 0..NumberMax : ~(v > NumberMax)
      BY DEF NumberMax
    <3>2. f[n - 1] \in 0..NumberMax
      BY <1>4, <2>1
    <3> QED
      BY <3>1, <3>2
  <2>3. f[n] = OneMore(f[n - 1], digits[n])
    BY <1>2
  <2> QED
    BY <2>2, <2>3 DEF OneMore
<1> QED
  BY <1>2, <1>4, <1>5

LEMMA Tens ==
  10^0 = 1 /\ 10^1 = 10 /\ 10^2 = 100 /\ 10^3 = 1000 /\ 10^4 = 10000
BY SMT

LEMMA DigitCountIs ==
  ASSUME NEW n \in Nat, NEW k \in 1..4, n < 10^k, k = 1 \/ 10^(k - 1) <= n
  PROVE  DigitCount(n) = k
<1> DEFINE T == {j \in 1..4 : n < 10^j}
<1>1. k \in T /\ T \subseteq Nat
  OBVIOUS
<1>2. ASSUME NEW j \in T PROVE k <= j
  <2> DEFINE t == [i \in 1..4 |-> 10^i]
  <2>1. t[1] = 10 /\ t[2] = 100 /\ t[3] = 1000 /\ t[4] = 10000
    BY Tens, SMT
  <2>2. \A i \in 1..4 : t[i] = 10^i
    BY SMT
  <2> HIDE DEF t
  <2>3. n < t[j] /\ j \in 1..4
    BY <2>2
  <2>4. k = 1 \/ t[k - 1] <= n
    <3>1. CASE k = 1
      BY <3>1
    <3>2. CASE k # 1
      <4>1. k - 1 \in 1..4
        BY <3>2
      <4>2. 10^(k - 1) <= n /\ 10^(k - 1) = t[k - 1]
        BY <2>2, <3>2, <4>1
      <4> QED
        BY <4>2
    <3> QED
      BY <3>1, <3>2
  <2> QED
    BY <2>1, <2>3, <2>4
<1> HIDE DEF T
<1>3. Min(T) = k
  BY <1>1, <1>2, MinIs
<1> QED
  BY <1>3 DEF DigitCount, T

\* The number that up to four digits are: its digits from the right, and it.
FromRight(w, j) == IF j <= Len(w) THEN w[Len(w) + 1 - j] ELSE 0
NumberOf(w) ==
  1000 * FromRight(w, 4) + 100 * FromRight(w, 3) + 10 * FromRight(w, 2) + FromRight(w, 1)

IsDecimal(w) == w \in Seq(0..9) /\ Len(w) \in 1..4 /\ (Len(w) = 1 \/ w[1] # 0)

LEMMA WrittenIsPrinted ==
  ASSUME NEW w, IsDecimal(w)
  PROVE  PrintDigits(NumberOf(w)) = w
<1> DEFINE c == Len(w)
           n == NumberOf(w)
           D(j) == FromRight(w, j)
<1>1. c \in 1..4 /\ DOMAIN w = 1..c /\ (c = 1 \/ w[1] # 0) /\ \A i \in 1..c : w[i] \in 0..9
  BY LenProperties, ElementOfSeq DEF IsDecimal
<1>2. \A j \in 1..4 : D(j) \in 0..9
  <2> SUFFICES ASSUME NEW j \in 1..4 PROVE D(j) \in 0..9
    OBVIOUS
  <2>1. CASE j <= c
    <3>1. c + 1 - j \in 1..c
      BY <1>1, <2>1
    <3> QED
      BY <1>1, <2>1, <3>1 DEF FromRight
  <2>2. CASE ~(j <= c)
    BY <2>2 DEF FromRight
  <2> QED
    BY <2>1, <2>2
<1>3. \A j \in 1..4 : j > c => D(j) = 0
  BY <1>1 DEF FromRight
<1>4. c = 1 \/ D(c) # 0
  <2>1. c <= c /\ c + 1 - c = 1
    BY <1>1
  <2>2. D(c) = w[1]
    BY <2>1 DEF FromRight
  <2> QED
    BY <1>1, <2>2
<1>5. \A i \in 1..c : D(c - i + 1) = w[i]
  <2> SUFFICES ASSUME NEW i \in 1..c PROVE D(c - i + 1) = w[i]
    OBVIOUS
  <2>1. c - i + 1 <= c /\ c + 1 - (c - i + 1) = i
    BY <1>1
  <2> QED
    BY <2>1 DEF FromRight
<1>6. n = 1000 * D(4) + 100 * D(3) + 10 * D(2) + D(1)
  BY DEF NumberOf
<1> HIDE DEF c, n, D
<1>7. D(1) \in 0..9 /\ D(2) \in 0..9 /\ D(3) \in 0..9 /\ D(4) \in 0..9
  BY <1>2
<1>8. n \in Nat
  BY <1>6, <1>7
<1>9. n < 10^c /\ (c = 1 \/ 10^(c - 1) <= n)
  <2>1. CASE c = 1
    <3>1. D(2) = 0 /\ D(3) = 0 /\ D(4) = 0
      BY <1>3, <2>1
    <3>2. n < 10
      BY <1>6, <1>7, <3>1
    <3> QED
      BY <2>1, <3>2, Tens
  <2>2. CASE c = 2
    <3>1. D(2) # 0 /\ D(3) = 0 /\ D(4) = 0
      BY <1>3, <1>4, <2>2
    <3>2. n < 100 /\ 10 <= n
      BY <1>6, <1>7, <3>1
    <3> QED
      BY <2>2, <3>2, Tens
  <2>3. CASE c = 3
    <3>1. D(3) # 0 /\ D(4) = 0
      BY <1>3, <1>4, <2>3
    <3>2. n < 1000 /\ 100 <= n
      BY <1>6, <1>7, <3>1
    <3> QED
      BY <2>3, <3>2, Tens
  <2>4. CASE c = 4
    <3>1. D(4) # 0
      BY <1>4, <2>4
    <3>2. n < 10000 /\ 1000 <= n
      BY <1>6, <1>7, <3>1
    <3> QED
      BY <2>4, <3>2, Tens
  <2> QED
    BY <1>1, <2>1, <2>2, <2>3, <2>4
<1>10. DigitCount(n) = c
  BY <1>1, <1>8, <1>9, DigitCountIs
<1> DEFINE h == [j \in 0..3 |-> (n \div 10^j) % 10]
<1>11. h[0] = D(1) /\ h[1] = D(2) /\ h[2] = D(3) /\ h[3] = D(4)
  <2>1. PICK p \in 0..9, q \in 0..9, r \in 0..9, s \in 0..9 :
          p = D(4) /\ q = D(3) /\ r = D(2) /\ s = D(1)
    BY <1>7
  <2>2. n = 1000 * p + 100 * q + 10 * r + s
    BY <1>6, <2>1
  <2>3. n \div 1000 = p /\ n \div 100 = 10 * p + q /\ n \div 10 = 100 * p + 10 * q + r /\ n \div 1 = n
    BY <2>2, SMTT(30)
  <2>4. (n \div 1) % 10 = s
    BY <2>2, <2>3, SMTT(30)
  <2>5. (n \div 10) % 10 = r
    BY <2>3, SMTT(30)
  <2>6. (n \div 100) % 10 = q
    BY <2>3, SMTT(30)
  <2>7. (n \div 1000) % 10 = p
    BY <2>3, SMTT(30)
  <2> QED
    BY <2>1, <2>4, <2>5, <2>6, <2>7, Tens
<1>12. \A j \in 0..3 : h[j] = (n \div 10^j) % 10
  OBVIOUS
<1> HIDE DEF h
<1>13. \A i \in 1..c : (n \div 10^(c - i)) % 10 = w[i]
  <2> SUFFICES ASSUME NEW i \in 1..c PROVE (n \div 10^(c - i)) % 10 = w[i]
    OBVIOUS
  <2> DEFINE j == c - i
  <2>1. j \in 0..3
    BY <1>1
  <2> HIDE DEF j
  <2>2. h[j] = D(j + 1)
    <3>1. j = 0 \/ j = 1 \/ j = 2 \/ j = 3
      BY <2>1
    <3> QED
      BY <1>11, <3>1
  <2>3. (n \div 10^j) % 10 = D(j + 1)
    BY <1>12, <2>1, <2>2
  <2> QED
    BY <1>5, <2>3 DEF j
<1>14. PrintDigits(n) = [i \in 1..c |-> (n \div 10^(c - i)) % 10]
  BY <1>10 DEF PrintDigits
<1>15. PrintDigits(n) = [i \in 1..c |-> w[i]]
  BY <1>13, <1>14
<1>16. w = [i \in 1..c |-> w[i]]
  <2>1. w = [i \in 1..Len(w) |-> w[i]]
    BY LenProperties DEF IsDecimal
  <2> QED
    BY <2>1 DEF c
<1> QED
  BY <1>15, <1>16 DEF n

\* A number that is not refused is the one written with what is left of its
\* digits without the zeros in front, and those are four at most.
LEMMA ReadIsWritten ==
  ASSUME NEW digits \in Seq(0..9), ReadDigits(digits) <= NumberMax
  PROVE  /\ IsDecimal(WithoutZeros(digits))
         /\ ReadDigits(digits) = NumberOf(WithoutZeros(digits))
<1> DEFINE l == Len(digits)
           w == WithoutZeros(digits)
           NonZero == {i \in DOMAIN digits : digits[i] # 0}
<1>1. l \in Nat /\ DOMAIN digits = 1..l /\ \A i \in 1..l : digits[i] \in 0..9
  BY LenProperties, ElementOfSeq
<1>2. PICK f \in [0..l -> 0..NumberMax] :
        /\ ReadDigits(digits) = f[l] /\ f[0] = 0
        /\ \A n \in 1..l : f[n] = 10 * f[n - 1] + digits[n]
  BY DigitsAddUp
<1>3. \A n \in 0..l : f[n] \in Nat /\ f[n] <= 4095
  <2>1. \A v \in 0..NumberMax : v \in Nat /\ v <= 4095
    BY DEF NumberMax
  <2> QED
    BY <1>2, <2>1
<1>4. ASSUME NEW k \in 0..l, \A i \in 1..k : digits[i] = 0
      PROVE  f[k] = 0
  <2> DEFINE T == {n \in 0..k : f[n] = 0}
  <2>1. 0 \in T
    BY <1>2
  <2>2. ASSUME NEW n \in 0..(k - 1), n \in T PROVE n + 1 \in T
    <3>1. n + 1 \in 1..l /\ (n + 1) - 1 = n /\ n + 1 \in 1..k
      BY <1>1
    <3>2. f[n + 1] = 10 * f[n] + digits[n + 1]
      BY <1>2, <3>1
    <3>3. f[n + 1] = 0
      BY <1>4, <2>2, <3>1, <3>2
    <3> QED
      BY <3>1, <3>3
  <2>5. k \in Nat
    BY <1>1
  <2> HIDE DEF T, l
  <2>3. 0..k \subseteq T
    BY <2>5, <2>1, <2>2, InductionUpTo
  <2>4. k \in 0..k
    BY <1>1
  <2> QED
    BY <2>3, <2>4 DEF T
<1>5. CASE NonZero = {}
  <2>1. w = <<0>>
    BY <1>5 DEF WithoutZeros
  <2>2. ReadDigits(digits) = 0
    <3>1. \A i \in 1..l : digits[i] = 0
      BY <1>1, <1>5
    <3>2. l \in 0..l
      BY <1>1
    <3> QED
      BY <1>2, <1>4, <3>1, <3>2
  <2>3. IsDecimal(<<0>>)
    BY DEF IsDecimal
  <2>4. NumberOf(<<0>>) = 0
    BY DEF NumberOf, FromRight
  <2> QED
    BY <2>1, <2>2, <2>3, <2>4
<1>6. CASE NonZero # {}
  <2> DEFINE m == Min(NonZero)
  <2>1. m \in 1..l /\ digits[m] # 0 /\ \A i \in 1..l : digits[i] # 0 => m <= i
    <3>1. NonZero \subseteq Nat
      BY <1>1
    <3>2. m \in NonZero /\ \A i \in NonZero : m <= i
      <4> HIDE DEF NonZero
      <4> QED
        BY <1>6, <3>1, LeastOfSet
    <3> QED
      BY <1>1, <3>2
  <2>2. w = SubSeq(digits, m, l)
    BY <1>6 DEF WithoutZeros
  <2> HIDE DEF m, w
  <2>3. f[m - 1] = 0
    <3>1. m - 1 \in 0..l
      BY <1>1, <2>1
    <3>2. \A i \in 1..(m - 1) : digits[i] = 0
      BY <1>1, <2>1
    <3> HIDE DEF l
    <3> QED
      BY <1>4, <3>1, <3>2
  <2> DEFINE c == l - m + 1
  <2>4. /\ w \in Seq(0..9) /\ Len(w) = c /\ c \in Nat \ {0}
        /\ \A i \in 1..c : w[i] = digits[m + i - 1]
    <3>1. m \in Int /\ l \in Int /\ m <= l /\ c = l - m + 1
      BY <1>1, <2>1
    <3>2. \A i \in m..l : digits[i] \in 0..9
      BY <1>1, <2>1
    <3> HIDE DEF l, c
    <3>3. w \in Seq(0..9) /\ Len(w) = c /\ \A i \in 1..(l - m + 1) : w[i] = digits[m + i - 1]
      BY <2>2, <3>1, <3>2, SubSeqProperties
    <3> QED
      BY <3>1, <3>3
  <2>5. \A i \in 1..c : m + i - 1 \in 1..l /\ w[i] \in 0..9
    <3> SUFFICES ASSUME NEW i \in 1..c PROVE m + i - 1 \in 1..l /\ w[i] \in 0..9
      OBVIOUS
    <3>1. m + i - 1 \in 1..l
      BY <1>1, <2>1
    <3> QED
      BY <1>1, <2>4, <3>1
  <2>6. w[1] # 0
    <3>1. 1 \in 1..c /\ m + 1 - 1 = m
      BY <1>1, <2>1, <2>4
    <3> QED
      BY <2>1, <2>4, <3>1
  <2>7. \A i \in 1..c : f[m + i - 1] = 10 * f[m + i - 2] + w[i]
    <3> SUFFICES ASSUME NEW i \in 1..c PROVE f[m + i - 1] = 10 * f[m + i - 2] + w[i]
      OBVIOUS
    <3>1. m + i - 1 \in 1..l /\ (m + i - 1) - 1 = m + i - 2
      BY <1>1, <2>1, <2>5
    <3> QED
      BY <1>2, <2>4, <3>1
  <2> DEFINE g == [i \in 0..c |-> f[m + i - 1]]
  <2>8. /\ g[0] = 0 /\ g[c] = ReadDigits(digits)
        /\ \A i \in 1..c : g[i] = 10 * g[i - 1] + w[i]
        /\ \A i \in 0..c : g[i] \in Nat /\ g[i] <= 4095
    <3>1. g[0] = 0
      <4>1. 0 \in 0..c /\ m + 0 - 1 = m - 1
        BY <1>1, <2>1, <2>4
      <4> QED
        BY <2>3, <4>1
    <3>2. g[c] = ReadDigits(digits)
      <4>1. c \in 0..c /\ m + c - 1 = l
        BY <1>1, <2>1, <2>4
      <4> HIDE DEF c, l
      <4> QED
        BY <1>2, <4>1
    <3>3. ASSUME NEW i \in 1..c PROVE g[i] = 10 * g[i - 1] + w[i]
      <4>1. i \in 0..c /\ i - 1 \in 0..c /\ m + (i - 1) - 1 = m + i - 2
        BY <1>1, <2>1, <2>4
      <4>2. g[i] = f[m + i - 1] /\ g[i - 1] = f[m + i - 2]
        BY <4>1
      <4> QED
        BY <2>7, <4>2
    <3>4. ASSUME NEW i \in 0..c PROVE g[i] \in Nat /\ g[i] <= 4095
      <4>1. m + i - 1 \in 0..l
        BY <1>1, <2>1
      <4> QED
        BY <1>3, <4>1
    <3> HIDE DEF g, c
    <3> QED
      BY <3>1, <3>2, <3>3, <3>4
  <2>9. c \in Nat \ {0} /\ (\A i \in 1..c : w[i] \in 0..9) /\ Len(w) = c
    BY <2>4, <2>5
  <2> HIDE DEF c, g
  <2>10. g[1] = w[1] /\ w[1] \in 1..9
    <3>1. 1 \in 1..c /\ 1 - 1 = 0
      BY <2>9
    <3>2. g[1] = 10 * g[0] + w[1] /\ w[1] \in 0..9
      BY <2>8, <2>9, <3>1
    <3> QED
      BY <2>6, <2>8, <2>9, <3>1, <3>2
  <2>11. c \in 1..4
    <3> SUFFICES ASSUME c >= 5 PROVE FALSE
      BY <2>9
    <3>1. /\ 2 \in 1..c /\ 3 \in 1..c /\ 4 \in 1..c /\ 5 \in 1..c /\ 5 \in 0..c
      BY <2>9
    <3>2. /\ g[2] = 10 * g[1] + w[2] /\ g[3] = 10 * g[2] + w[3]
          /\ g[4] = 10 * g[3] + w[4] /\ g[5] = 10 * g[4] + w[5]
      BY <2>8, <3>1
    <3>3. w[2] \in 0..9 /\ w[3] \in 0..9 /\ w[4] \in 0..9 /\ w[5] \in 0..9 /\ g[5] <= 4095
      BY <2>8, <2>9, <3>1, SMTT(60)
    <3>4. g[1] \in Nat /\ g[1] >= 1
      BY <2>10
    <3>5. g[2] \in Nat /\ g[2] >= 10
      BY <3>2, <3>3, <3>4, SMTT(60)
    <3>6. g[3] \in Nat /\ g[3] >= 100
      BY <3>2, <3>3, <3>5, SMTT(60)
    <3>7. g[4] \in Nat /\ g[4] >= 1000
      BY <3>2, <3>3, <3>6, SMTT(60)
    <3> QED
      BY <3>2, <3>3, <3>7, SMTT(60)
  <2>12. IsDecimal(w)
    BY <2>4, <2>6, <2>9, <2>11 DEF IsDecimal
  <2>13. g[c] = NumberOf(w)
    <3>1. CASE c = 1
      BY <2>8, <2>9, <2>10, <3>1 DEF NumberOf, FromRight
    <3>2. CASE c = 2
      <4>1. g[2] = 10 * g[1] + w[2] /\ w[2] \in 0..9
        BY <2>8, <2>9, <3>2
      <4> QED
        BY <2>9, <2>10, <3>2, <4>1 DEF NumberOf, FromRight
    <3>3. CASE c = 3
      <4>1. /\ g[2] = 10 * g[1] + w[2] /\ g[3] = 10 * g[2] + w[3]
            /\ w[2] \in 0..9 /\ w[3] \in 0..9
        BY <2>8, <2>9, <3>3
      <4>2. NumberOf(w) = 100 * w[1] + 10 * w[2] + w[3]
        BY <2>9, <2>10, <3>3, <4>1, SMTT(60) DEF NumberOf, FromRight
      <4>3. w[1] \in Int /\ w[2] \in Int /\ w[3] \in Int
        BY <2>10, <4>1
      <4>4. g[2] = 10 * w[1] + w[2]
        BY <2>10, <4>1, SMTT(60)
      <4>5. g[3] = 100 * w[1] + 10 * w[2] + w[3]
        BY <4>1, <4>3, <4>4, SMTT(60)
      <4> QED
        BY <3>3, <4>2, <4>5
    <3>4. CASE c = 4
      <4>1. /\ g[2] = 10 * g[1] + w[2] /\ g[3] = 10 * g[2] + w[3] /\ g[4] = 10 * g[3] + w[4]
            /\ w[2] \in 0..9 /\ w[3] \in 0..9 /\ w[4] \in 0..9
        BY <2>8, <2>9, <3>4
      <4>2. NumberOf(w) = 1000 * w[1] + 100 * w[2] + 10 * w[3] + w[4]
        BY <2>9, <3>4 DEF NumberOf, FromRight
      <4>3. w[1] \in Int /\ w[2] \in Int /\ w[3] \in Int /\ w[4] \in Int
        BY <2>10, <4>1, SMTT(60)
      <4>4. g[2] = 10 * w[1] + w[2]
        BY <2>10, <4>1, SMTT(60)
      <4>5. g[3] = 100 * w[1] + 10 * w[2] + w[3]
        BY <4>1, <4>3, <4>4, SMTT(60)
      <4>6. g[4] = 1000 * w[1] + 100 * w[2] + 10 * w[3] + w[4]
        BY <4>1, <4>3, <4>5, SMTT(60)
      <4> QED
        BY <3>4, <4>2, <4>6
    <3> QED
      BY <2>11, <3>1, <3>2, <3>3, <3>4
  <2> QED
    BY <2>8, <2>12, <2>13 DEF w
<1> QED
  BY <1>5, <1>6

-----------------------------------------------------------------------------
(* Collector numbers. *)

LEMMA BitsAreAWord ==
  ASSUME NEW n \in Nat
  PROVE  Bits(n) \subseteq 0..30 /\ Bits(n) \in Word
BY DEF Bits, Word, Width

LEMMA PartsOfText ==
  ASSUME NEW t \in Text
  PROVE  /\ t.prefix \in Seq(1..26) /\ t.digits \in Seq(0..9)
         /\ t.version \in 0..26 /\ t.version \in Nat
         /\ t.sb \in BOOLEAN /\ t.cross \in BOOLEAN /\ t.odd \in BOOLEAN
         /\ t \in [prefix: Seq(1..26), digits: Seq(0..9), version: 0..26,
                   sb: BOOLEAN, cross: BOOLEAN, odd: BOOLEAN]
<1> DEFINE S == Seq(1..26)
           D == Seq(0..9)
<1>1. t \in [prefix: S, digits: D, version: 0..26,
             sb: BOOLEAN, cross: BOOLEAN, odd: BOOLEAN]
  BY DEF Text
<1> HIDE DEF S, D
<1>2. /\ t.prefix \in S /\ t.digits \in D /\ t.version \in 0..26
      /\ t.sb \in BOOLEAN /\ t.cross \in BOOLEAN /\ t.odd \in BOOLEAN
  BY <1>1
<1>3. t.version \in Nat
  BY <1>2
<1> QED
  BY <1>1, <1>2, <1>3, Zenon DEF S, D

LEMMA PackIsAWord ==
  ASSUME NEW t \in Text
  PROVE  Pack(t) \in Word
BY DEF Pack, PrefixBits, Make, Shl, Flag, Sideboard, Cross, Word, Width

LEMMA OnlyZeroHasNoBits ==
  ASSUME NEW n \in Nat, n < 2^31, n # 0
  PROVE  Bits(n) # {}
<1>1. Bits(0) = {}
  <2> SUFFICES ASSUME NEW i \in 0..30, (0 \div 2^i) % 2 = 1 PROVE FALSE
    BY DEF Bits
  <2> DEFINE p == 2^i
  <2>1. p \in Nat \ {0}
    <3>1. i \in 0..31
      OBVIOUS
    <3> QED
      BY <3>1, Powers
  <2> HIDE DEF p
  <2>2. (0 \div p) % 2 = 0
    BY <2>1
  <2> QED
    BY <2>2 DEF p
<1>2. 0 \in Nat /\ 0 < 2^31
  BY SMT
<1>3. Value(Bits(0)) = 0
  BY <1>2, ValueOfBits
<1>4. Value(Bits(n)) = n
  BY ValueOfBits
<1> QED
  BY <1>1, <1>3, <1>4

\* The fields of a word that was packed from a text which fits.
LEMMA FieldsOfPack ==
  ASSUME NEW t \in Text, Fits(t)
  PROVE  /\ Number(Pack(t)) = Bits(ReadDigits(t.digits)) /\ Version(Pack(t)) = Bits(t.version)
         /\ Sideboard \subseteq Pack(t) <=> t.sb
         /\ Cross \subseteq Pack(t) <=> t.cross
         /\ Len(t.prefix) \in 0..3
         /\ \A i \in 1..Len(t.prefix) : Code(Pack(t), i) = Bits(t.prefix[i])
         /\ \A i \in 1..3 : i > Len(t.prefix) => Code(Pack(t), i) = {}
<1> DEFINE w == Pack(t)
           n == Len(t.prefix)
           P == PrefixBits(t.prefix)
           number == ReadDigits(t.digits)
           N == Bits(number)
           V == Bits(t.version)
<1>1. /\ t.prefix \in Seq(1..26) /\ number \in Nat /\ t.version \in Nat
      /\ t.sb \in BOOLEAN /\ t.cross \in BOOLEAN
  <2>1. /\ t.prefix \in Seq(1..26) /\ t.digits \in Seq(0..9) /\ t.version \in Nat
        /\ t.sb \in BOOLEAN /\ t.cross \in BOOLEAN
    BY PartsOfText
  <2>2. number \in Nat
    BY <2>1, ReadDigitsIsNat
  <2> HIDE DEF number
  <2> QED
    BY <2>1, <2>2
<1>2. n \in 0..3 /\ DOMAIN t.prefix = 1..n /\ \A i \in 1..n : t.prefix[i] \in 1..26
  <2> DEFINE p == t.prefix
             S == 1..26
  <2>1. p \in Seq(S)
    BY <1>1
  <2>2. Len(p) <= 3
    BY DEF Fits
  <2> HIDE DEF p, S
  <2>3. Len(p) \in Nat /\ DOMAIN p = 1..Len(p) /\ \A i \in 1..Len(p) : p[i] \in S
    BY <2>1, LenProperties, ElementOfSeq
  <2>4. Len(p) \in 0..3
    BY <2>2, <2>3
  <2> QED
    BY <2>3, <2>4 DEF p, S
<1> HIDE DEF n
<1>3. N \subseteq 0..11
  <2>1. number < 2^12
    <3>1. number <= 4095
      BY DEF Fits, NumberMax
    <3> HIDE DEF number
    <3> QED
      BY <1>1, <3>1, SMT
  <2>2. N \subseteq 0..(12 - 1)
    <3>1. 12 \in 0..31
      OBVIOUS
    <3> QED
      BY <1>1, <2>1, <3>1, BitsBounded
  <2> QED
    BY <2>2
<1>4. V \subseteq 0..2
  <2>1. t.version < 2^3
    <3>1. t.version <= 7
      BY DEF Fits
    <3> QED
      BY <1>1, <3>1, SMT
  <2>2. V \subseteq 0..(3 - 1)
    <3>1. 3 \in 0..31
      OBVIOUS
    <3> QED
      BY <1>1, <2>1, <3>1, BitsBounded
  <2> QED
    BY <2>2
<1> DEFINE B(i) == Bits(t.prefix[i])
<1>5. \A i \in 1..n : B(i) \subseteq 0..4
  <2> SUFFICES ASSUME NEW p \in 1..26 PROVE Bits(p) \subseteq 0..4
    BY <1>2
  <2>1. p < 2^5
    BY SMT
  <2>2. Bits(p) \subseteq 0..(5 - 1)
    <3>1. 5 \in 0..31 /\ p \in Nat
      OBVIOUS
    <3> QED
      BY <2>1, <3>1, BitsBounded
  <2> QED
    BY <2>2
<1>6. \A x : x \in P <=> \E i \in 1..n : \E b \in B(i) : x = b + 5 * (i - 1)
  <2>1. ASSUME NEW x, x \in P PROVE \E i \in 1..n : \E b \in B(i) : x = b + 5 * (i - 1)
    BY <1>2, <2>1 DEF PrefixBits, Shl
  <2>2. ASSUME NEW i \in 1..n, NEW b \in B(i) PROVE b + 5 * (i - 1) \in P
    <3> HIDE DEF B
    <3>1. b \in 0..4
      BY <1>5
    <3>2. b + 5 * (i - 1) \in 0..31
      BY <1>2, <3>1
    <3>3. b + 5 * (i - 1) \in Shl(B(i), 5 * (i - 1), 32)
      BY <3>2 DEF Shl
    <3> QED
      BY <1>2, <3>3 DEF PrefixBits, B
  <2> QED
    BY <2>1, <2>2
<1>7. \A x : x \in w <=>
        \/ x \in P \/ (t.cross /\ x = 16) \/ (t.sb /\ x = 15)
        \/ (\E b \in N : x = b + 20) \/ (\E b \in V : x = b + 17)
  <2>1. Shl(N, NumberOffset, 32) = {b + 20 : b \in N}
    BY <1>3 DEF Shl, NumberOffset
  <2>2. Shl(V, VersionOffset, 32) = {b + 17 : b \in V}
    BY <1>4 DEF Shl, VersionOffset
  <2>3. w = P \cup Flag(t.cross, Cross) \cup Flag(t.sb, Sideboard)
              \cup ({b + 20 : b \in N} \cup {b + 17 : b \in V})
    BY <2>1, <2>2 DEF Pack, Make
  <2> HIDE DEF w, P, N, V
  <2> QED
    BY <2>3 DEF Flag, Cross, Sideboard
<1>8. \A x \in P : x \in 0..14
  <2> HIDE DEF B
  <2> SUFFICES ASSUME NEW i \in 1..n, NEW b \in B(i) PROVE b + 5 * (i - 1) \in 0..14
    BY <1>6
  <2>1. b \in 0..4 /\ i \in 1..3
    BY <1>2, <1>5
  <2> QED
    BY <2>1
<1> HIDE DEF w, P, N, V
<1>9. Number(w) = N
  <2>1. ASSUME NEW i \in 0..11 PROVE i + 20 \in w <=> i \in N
    BY <1>3, <1>4, <1>7, <1>8
  <2>2. Number(w) = {i \in 0..11 : i + 20 \in w}
    BY DEF Number, Field, NumberOffset
  <2> QED
    BY <1>3, <2>1, <2>2
<1>10. Version(w) = V
  <2>1. ASSUME NEW i \in 0..2 PROVE i + 17 \in w <=> i \in V
    BY <1>3, <1>4, <1>7, <1>8
  <2>2. Version(w) = {i \in 0..2 : i + 17 \in w}
    BY DEF Version, Field, VersionOffset
  <2> QED
    BY <1>4, <2>1, <2>2
<1>11. (15 \in w <=> t.sb) /\ (16 \in w <=> t.cross)
  BY <1>3, <1>4, <1>7, <1>8
<1>12. ASSUME NEW i \in 1..3, NEW j \in 0..4
       PROVE  j + 5 * (i - 1) \in w <=> i <= n /\ j \in B(i)
  <2>1. j + 5 * (i - 1) \in 0..14
    OBVIOUS
  <2>2. j + 5 * (i - 1) \in w <=> j + 5 * (i - 1) \in P
    BY <1>3, <1>4, <1>7, <2>1
  <2>3. ASSUME NEW k \in 1..n, NEW b \in B(k), j + 5 * (i - 1) = b + 5 * (k - 1)
        PROVE  i = k /\ j = b
    <3> HIDE DEF B
    <3>1. b \in 0..4 /\ k \in 1..3
      BY <1>2, <1>5
    <3> QED
      BY <2>3, <3>1
  <2>4. i <= n => i \in 1..n
    BY <1>2
  <2> HIDE DEF B
  <2>5. ASSUME i <= n, j \in B(i) PROVE j + 5 * (i - 1) \in P
    BY <1>6, <2>4, <2>5
  <2>6. ASSUME j + 5 * (i - 1) \in P PROVE i <= n /\ j \in B(i)
    <3>1. PICK k \in 1..n : \E b \in B(k) : j + 5 * (i - 1) = b + 5 * (k - 1)
      BY <1>6, <2>6
    <3>2. i = k /\ j \in B(k)
      BY <2>3, <3>1
    <3> QED
      BY <1>2, <3>2
  <2> QED
    BY <2>2, <2>5, <2>6
<1>13. \A i \in 1..3 : Code(w, i) = {j \in 0..4 : j + 5 * (i - 1) \in w}
  BY DEF Code, Field
<1>14. \A i \in 1..n : Code(w, i) = B(i)
  <2> SUFFICES ASSUME NEW i \in 1..n PROVE Code(w, i) = B(i)
    OBVIOUS
  <2>1. i \in 1..3 /\ i <= n
    BY <1>2
  <2>2. B(i) \subseteq 0..4
    BY <1>5
  <2> HIDE DEF B
  <2>3. \A j \in 0..4 : j + 5 * (i - 1) \in w <=> j \in B(i)
    BY <1>12, <2>1
  <2> QED
    BY <1>13, <2>1, <2>2, <2>3
<1>15. \A i \in 1..3 : i > n => Code(w, i) = {}
  BY <1>2, <1>12, <1>13
<1> QED
  BY <1>2, <1>9, <1>10, <1>11, <1>14, <1>15 DEF w, N, V, n, Sideboard, Cross

\* A number that fits the fields of sfc_collector_number.h prints back as the
\* text it was packed from, but for the zeros in front of it.
LEMMA FittingPrintsBack ==
  ASSUME NEW t \in Text, Fits(t)
  PROVE  NumberToString(Pack(t)) = [code |-> "OK", text |-> AsPrinted(t)]
<1> DEFINE w == Pack(t)
           n == Len(t.prefix)
           number == ReadDigits(t.digits)
<1>1. /\ Number(w) = Bits(number) /\ Version(w) = Bits(t.version)
      /\ Sideboard \subseteq w <=> t.sb
      /\ Cross \subseteq w <=> t.cross
      /\ n \in 0..3
      /\ \A i \in 1..n : Code(w, i) = Bits(t.prefix[i])
      /\ \A i \in 1..3 : i > n => Code(w, i) = {}
  BY FieldsOfPack
<1> HIDE DEF w
<1>2. /\ t.prefix \in Seq(1..26) /\ t.digits \in Seq(0..9) /\ t.version \in Nat
      /\ t.sb \in BOOLEAN /\ t.cross \in BOOLEAN /\ number \in Nat
  <2>1. /\ t.prefix \in Seq(1..26) /\ t.digits \in Seq(0..9) /\ t.version \in Nat
        /\ t.sb \in BOOLEAN /\ t.cross \in BOOLEAN
    BY PartsOfText
  <2>2. number \in Nat
    BY <2>1, ReadDigitsIsNat
  <2> HIDE DEF number
  <2> QED
    BY <2>1, <2>2
<1>3. ASSUME NEW p \in Nat, p <= 4095 PROVE Value(Bits(p)) = p
  <2>1. p < 2^31
    BY <1>3, SMT
  <2> QED
    BY <2>1, ValueOfBits
<1>4. \A i \in 1..n : t.prefix[i] \in 1..26
  BY <1>2, ElementOfSeq
<1>5. \A i \in 1..n : Code(w, i) # {} /\ Value(Code(w, i)) = t.prefix[i]
  <2> SUFFICES ASSUME NEW i \in 1..n PROVE Code(w, i) # {} /\ Value(Code(w, i)) = t.prefix[i]
    OBVIOUS
  <2> DEFINE p == t.prefix[i]
  <2>1. p \in Nat /\ p # 0 /\ p <= 4095 /\ Code(w, i) = Bits(p)
    <3>1. p \in 1..26
      BY <1>4
    <3>2. Code(w, i) = Bits(p)
      BY <1>1
    <3> HIDE DEF p
    <3> QED
      BY <3>1, <3>2
  <2> HIDE DEF p
  <2>2. p < 2^31
    BY <2>1, SMT
  <2>3. Bits(p) # {}
    BY <2>1, <2>2, OnlyZeroHasNoBits
  <2>4. Value(Bits(p)) = p
    BY <1>3, <2>1
  <2> QED
    BY <2>1, <2>3, <2>4 DEF p
<1>6. PrefixLength(w) = n
  <2> DEFINE T == {k \in 0..3 : \A i \in 1..k : Code(w, i) # {}}
  <2>1. n \in T
    BY <1>1, <1>5
  <2>2. \A k \in T : k <= n
    BY <1>1
  <2> HIDE DEF T
  <2>3. T \subseteq 0..3
    BY DEF T
  <2>4. Max(T) \in T /\ \A k \in T : k <= Max(T)
    BY <2>1, <2>3, GreatestBit
  <2>5. Max(T) = n
    <3>1. Max(T) <= n /\ n <= Max(T) /\ Max(T) \in 0..3 /\ n \in 0..3
      BY <1>1, <2>1, <2>2, <2>3, <2>4
    <3> QED
      BY <3>1
  <2> QED
    BY <2>5 DEF PrefixLength, T
<1>7. PrintedPrefix(w) = t.prefix
  <2>1. PrintedPrefix(w) = [i \in 1..n |-> Value(Code(w, i))]
    BY <1>6 DEF PrintedPrefix
  <2>2. t.prefix = [i \in 1..n |-> t.prefix[i]]
    BY <1>2, LenProperties
  <2> HIDE DEF n
  <2> QED
    BY <1>5, <2>1, <2>2
<1>8. Value(Number(w)) = number /\ Value(Version(w)) = t.version
  <2>1. number <= 4095 /\ t.version <= 4095
    BY <1>2 DEF Fits, NumberMax
  <2> HIDE DEF number
  <2> QED
    BY <1>1, <1>2, <1>3, <2>1
<1>9. Printed(w) = [prefix |-> t.prefix, digits |-> WithoutZeros(t.digits), version |-> t.version,
                    sb |-> t.sb, cross |-> t.cross, odd |-> FALSE]
  <2>1. PrintDigits(number) = WithoutZeros(t.digits)
    BY <1>2, ReadIsWritten, WrittenIsPrinted DEF Fits
  <2> HIDE DEF number
  <2> QED
    BY <1>1, <1>2, <1>7, <1>8, <2>1 DEF Printed
<1>10. Printed(w) = AsPrinted(t)
  <2>1. t.odd = FALSE
    BY PartsOfText DEF Fits
  <2>2. t \in [prefix: Seq(1..26), digits: Seq(0..9), version: 0..26,
                sb: BOOLEAN, cross: BOOLEAN, odd: BOOLEAN]
    BY PartsOfText
  <2>3. AsPrinted(t) =
          [prefix |-> t.prefix, digits |-> WithoutZeros(t.digits), version |-> t.version,
           sb |-> t.sb, cross |-> t.cross, odd |-> t.odd]
    <3> DEFINE x == WithoutZeros(t.digits)
    <3> HIDE DEF x
    <3>1. [t EXCEPT !.digits = x] =
            [prefix |-> t.prefix, digits |-> x, version |-> t.version,
             sb |-> t.sb, cross |-> t.cross, odd |-> t.odd]
      BY <2>2
    <3>2. AsPrinted(t) = [t EXCEPT !.digits = x]
      BY <2>2 DEF AsPrinted, x
    <3> QED
      BY <3>1, <3>2 DEF x
  <2> QED
    BY <1>9, <2>1, <2>3
<1>11. \A i \in 1..PrefixLength(w) : Value(Code(w, i)) \in 1..26
  BY <1>4, <1>5, <1>6
<1> QED
  BY <1>10, <1>11 DEF NumberToString, w

\* Two numbers that fit share a word exactly when they are the same but for the
\* zeros in front: a card set, which finds a card by its set and the word
\* (sfc_card_set.c:54), has a place for each, and takes "7" and "007" for one.
THEOREM FittingPacksApart ==
  \A s, t \in Text : Fits(s) /\ Fits(t) => (Pack(s) = Pack(t) <=> AsPrinted(s) = AsPrinted(t))
<1> SUFFICES ASSUME NEW s \in Text, NEW t \in Text, Fits(s), Fits(t)
             PROVE  Pack(s) = Pack(t) <=> AsPrinted(s) = AsPrinted(t)
  OBVIOUS
<1>1. /\ NumberToString(Pack(s)) = [code |-> "OK", text |-> AsPrinted(s)]
      /\ NumberToString(Pack(t)) = [code |-> "OK", text |-> AsPrinted(t)]
  BY FittingPrintsBack
<1>2. ASSUME Pack(s) = Pack(t) PROVE AsPrinted(s) = AsPrinted(t)
  <2>1. [code |-> "OK", text |-> AsPrinted(s)].text = [code |-> "OK", text |-> AsPrinted(t)].text
    BY <1>1, <1>2
  <2> QED
    BY <2>1
<1>3. ASSUME AsPrinted(s) = AsPrinted(t) PROVE Pack(s) = Pack(t)
  <2>1. \A u \in Text : /\ AsPrinted(u).prefix = u.prefix /\ AsPrinted(u).version = u.version
                         /\ AsPrinted(u).sb = u.sb /\ AsPrinted(u).cross = u.cross
                         /\ AsPrinted(u).digits = WithoutZeros(u.digits)
    BY DEF Text, AsPrinted
  <2>2. \A u \in Text : Fits(u) => ReadDigits(u.digits) = NumberOf(AsPrinted(u).digits)
    <3> SUFFICES ASSUME NEW u \in Text, Fits(u)
                 PROVE  ReadDigits(u.digits) = NumberOf(AsPrinted(u).digits)
      OBVIOUS
    <3>1. u.digits \in Seq(0..9) /\ ReadDigits(u.digits) <= NumberMax
      BY PartsOfText DEF Fits
    <3> QED
      BY <2>1, <3>1, ReadIsWritten
  <2>3. /\ s.prefix = t.prefix /\ s.version = t.version /\ s.sb = t.sb /\ s.cross = t.cross
        /\ ReadDigits(s.digits) = ReadDigits(t.digits)
    BY <1>3, <2>1, <2>2
  <2> QED
    BY <2>3 DEF Pack
<1> QED
  BY <1>2, <1>3

-----------------------------------------------------------------------------
(* sfc_card_deserialize, read by read. *)

Reading(c, v, rest) == [code |-> "OK", card |-> c, value |-> v, rest |-> rest]

LEMMA UintIsRead ==
  ASSUME NEW c, NEW v, NEW rest \in Bytes, NEW w \in Word
  PROVE  ReadUint32(Reading(c, v, WriteVarSizeUint32(w) \o rest)) = Reading(c, w, rest)
<1>1. TakeVarSizeUint32(WriteVarSizeUint32(w) \o rest) = Took(w, rest)
  BY TakesVarSize
<1> QED
  BY <1>1 DEF ReadUint32, Read, Look, Reading, Took

LEMMA NumberIsRead ==
  ASSUME NEW c, NEW v, NEW rest \in Bytes, NEW w \in Word
  PROVE  ReadNumber(Reading(c, v, WriteVarSizeUint32(w) \o rest))
           = Reading([c EXCEPT !.number = w], w, rest)
<1>1. TakeVarSizeUint32(WriteVarSizeUint32(w) \o rest) = Took(w, rest)
  BY TakesVarSize
<1> QED
  BY <1>1 DEF ReadNumber, Read, Reading, Took

LEMMA SetIsRead ==
  ASSUME NEW c, NEW v, NEW rest \in Bytes, NEW s \in Seq(Byte \ {NUL}), Len(s) < MaxSet
  PROVE  ReadSet(Reading(c, v, WriteString(s) \o rest)) = Reading([c EXCEPT !.set = s], s, rest)
<1>1. TakeString(WriteString(s) \o rest, MaxSet) = Took(s, rest)
  BY TakesString DEF MaxSet
<1> QED
  BY <1>1 DEF ReadSet, Read, Reading, Took

LEMMA DataIsRead ==
  ASSUME NEW c, NEW v, NEW rest \in Bytes, NEW data \in Bytes, Len(data) < 2^31
  PROVE  ReadData(Reading(c, v, WriteVarSizeUint32(Bits(Len(data))) \o (data \o rest)))
           = Reading([c EXCEPT !.data = data], data, rest)
<1> DEFINE w == Bits(Len(data))
<1>1. w \in Word /\ Value(w) = Len(data) /\ data \o rest \in Bytes
  BY LenProperties, BitsAreAWord, ValueOfBits, ConcatProperties DEF Bytes
<1> HIDE DEF w
<1>3. TakeBuffer(data \o rest, Len(data)) = Took(data, rest)
  BY TakesBuffer
<1> DEFINE size == ReadUint32(Reading(c, v, WriteVarSizeUint32(w) \o (data \o rest)))
<1>4. size = Reading(c, w, data \o rest)
  BY <1>1, UintIsRead
<1>5. ReadData(Reading(c, v, WriteVarSizeUint32(w) \o (data \o rest)))
        = IF size.code # "OK" THEN size
          ELSE LET t == TakeBuffer(size.rest, Value(size.value))
               IN  IF t.code # "OK" THEN t
                   ELSE Reading([size.card EXCEPT !.data = t.value], t.value, t.rest)
  BY DEF ReadData, Read, Reading
<1> HIDE DEF size
<1>6. size.code = "OK" /\ size.card = c /\ size.value = w /\ size.rest = data \o rest
  BY <1>4 DEF Reading
<1> QED
  BY <1>1, <1>3, <1>5, <1>6 DEF Took, w

LEMMA EntriesAreASequence ==
  /\ Len(StringEntries) \in Nat /\ StringIndex = 1..Len(StringEntries)
  /\ \A i, j \in StringIndex : StringEntries[i] = StringEntries[j] => i = j
<1>1. Len(StringEntries) \in Nat /\ DOMAIN StringEntries = 1..Len(StringEntries)
  BY EntriesAssumption, LenProperties
<1> QED
  BY <1>1, EntriesAssumption DEF StringIndex, IsInjective

LEMMA IndexIsRead ==
  ASSUME NEW c, NEW v, NEW rest \in Bytes, NEW i \in StringIndex, Len(StringEntries) < 2^31
  PROVE  ReadIndex(Reading(c, v, WriteVarSizeUint32(Bits(i - 1)) \o rest))
           = Reading(c, Bits(i - 1), rest)
<1> DEFINE w == Bits(i - 1)
<1>1. w \in Word /\ Value(w) = i - 1 /\ i - 1 < Len(StringEntries)
  <2> DEFINE j == i - 1
  <2>1. j \in Nat /\ j < Len(StringEntries)
    BY EntriesAreASequence
  <2>2. j < 2^31
    BY <2>1, EntriesAreASequence, SMT
  <2> HIDE DEF j
  <2>3. Bits(j) \in Word /\ Value(Bits(j)) = j
    BY <2>1, <2>2, BitsAreAWord, ValueOfBits
  <2> QED
    BY <2>1, <2>3 DEF j
<1> HIDE DEF w
<1> DEFINE r == ReadUint32(Reading(c, v, WriteVarSizeUint32(w) \o rest))
<1>2. r = Reading(c, w, rest)
  BY <1>1, UintIsRead
<1>3. r.value = w
  BY <1>2 DEF Reading
<1>4. ReadIndex(Reading(c, v, WriteVarSizeUint32(w) \o rest))
        = IF r.code # "OK" \/ Value(r.value) < Len(StringEntries) THEN r ELSE Failed("OUT_OF_BOUNDS")
  BY DEF ReadIndex, Check
<1> HIDE DEF r
<1>5. Value(r.value) < Len(StringEntries)
  BY <1>1, <1>3
<1> QED
  BY <1>2, <1>4, <1>5 DEF w

LEMMA OffsetIsRead ==
  ASSUME NEW c, NEW v, NEW rest \in Bytes, NEW i \in StringIndex, Len(StringEntries) < 2^31,
         NEW offset \in Nat, offset < Len(c.data), offset < 2^31
  PROVE  ReadOffset(Reading(c, v, WriteVarSizeUint32(Bits(i - 1))
                                    \o (WriteVarSizeUint32(Bits(offset)) \o rest)))
           = Reading(StoreOffset(c, i, offset), Bits(offset), rest)
<1> DEFINE w == Bits(offset)
           more == WriteVarSizeUint32(w) \o rest
           r == Reading(c, v, WriteVarSizeUint32(Bits(i - 1)) \o more)
           index == ReadIndex(r)
           stored == StoreOffset(c, Value(index.value) + 1, Value(w))
<1>1. w \in Word /\ Value(w) = offset
  BY BitsAreAWord, ValueOfBits
<1> HIDE DEF w
<1>2. more \in Bytes
  <2>1. WriteVarSizeUint32(w) \in Bytes
    BY <1>1, WritesVarSize
  <2> QED
    BY <2>1, ConcatProperties DEF Bytes
<1>3. index = Reading(c, Bits(i - 1), more)
  BY <1>2, IndexIsRead
<1>4. TakeVarSizeUint32(more) = Took(w, rest)
  BY <1>1, TakesVarSize
<1>5. index.code = "OK" /\ index.card = c /\ index.value = Bits(i - 1) /\ index.rest = more
  <2> HIDE DEF index, more
  <2> QED
    BY <1>3 DEF Reading
<1>6. Value(Bits(i - 1)) + 1 = i
  <2> DEFINE j == i - 1
  <2>1. j \in Nat /\ j < Len(StringEntries) /\ j + 1 = i
    BY EntriesAreASequence
  <2>2. j < 2^31
    BY <2>1, EntriesAreASequence, SMT
  <2> HIDE DEF j
  <2>3. Value(Bits(j)) + 1 = i
    BY <2>1, <2>2, ValueOfBits
  <2> QED
    BY <2>3 DEF j
<1>7. r.card = c
  BY DEF Reading
<1> DEFINE t == TakeVarSizeUint32(index.rest)
           u == IF index.code # "OK" THEN index
                ELSE IF t.code # "OK" THEN t
                ELSE Reading(StoreOffset(index.card, Value(index.value) + 1, Value(t.value)),
                             t.value, t.rest)
<1> HIDE DEF r
<1>8. ReadOffset(r)
        = IF u.code # "OK" \/ Value(u.value) < Len(r.card.data) THEN u ELSE Failed("OUT_OF_BOUNDS")
  BY DEF ReadOffset, Read, Check, Reading
<1> HIDE DEF index, more
<1>9. u = Reading(StoreOffset(c, i, offset), w, rest)
  BY <1>1, <1>4, <1>5, <1>6 DEF Took
<1> HIDE DEF u
<1>10. u.value = w
  BY <1>9 DEF Reading
<1> QED
  BY <1>1, <1>7, <1>8, <1>9, <1>10 DEF r, more, w

\* The card with the strings of c that the filter lets pass, up to string n.
WithStrings(base, c, n) ==
  [base EXCEPT !.offsets = [j \in StringIndex |->
     IF j \in Used(c) /\ j \in filter /\ j <= n THEN c.offsets[j] ELSE NoOffset]]

\* The function that ReadOffsets defines, whatever it starts from.
ReadOffsetsUpTo(read, r, m) ==
  read = [n \in 0..m |-> IF n = 0 THEN r ELSE ReadOffset(read[n - 1])]

LEMMA ReadOffsetsUnfolds ==
  ASSUME NEW r, NEW m \in Nat
  PROVE  \E read : ReadOffsetsUpTo(read, r, m)
<1> DEFINE T == {n \in 0..m : \E read : ReadOffsetsUpTo(read, r, n)}
<1>1. 0 \in T
  <2> DEFINE z == [n \in 0..0 |-> r]
  <2>1. z = [n \in 0..0 |-> IF n = 0 THEN r ELSE ReadOffset(z[n - 1])]
    OBVIOUS
  <2> HIDE DEF z
  <2>2. ReadOffsetsUpTo(z, r, 0)
    BY <2>1 DEF ReadOffsetsUpTo
  <2> QED
    BY <2>2
<1>2. ASSUME NEW n \in 0..(m - 1), n \in T PROVE n + 1 \in T
  <2>1. PICK f : ReadOffsetsUpTo(f, r, n)
    BY <1>2
  <2>2. \A i \in 0..n : f[i] = IF i = 0 THEN r ELSE ReadOffset(f[i - 1])
    BY <2>1 DEF ReadOffsetsUpTo
  <2> DEFINE g == [i \in 0..(n + 1) |-> IF i = n + 1 THEN ReadOffset(f[n]) ELSE f[i]]
  <2>3. g[n + 1] = ReadOffset(f[n]) /\ \A i \in 0..n : g[i] = f[i]
    OBVIOUS
  <2>4. \A i \in 0..(n + 1) : g[i] = IF i = 0 THEN r ELSE ReadOffset(g[i - 1])
    <3> HIDE DEF g
    <3> SUFFICES ASSUME NEW i \in 0..(n + 1)
                 PROVE  g[i] = IF i = 0 THEN r ELSE ReadOffset(g[i - 1])
      OBVIOUS
    <3>1. CASE i = n + 1
      <4>1. i - 1 = n /\ i # 0 /\ n \in 0..n
        BY <3>1
      <4> QED
        BY <2>3, <3>1, <4>1
    <3>2. CASE i # n + 1
      <4>1. i \in 0..n /\ (i # 0 => i - 1 \in 0..n)
        BY <3>2
      <4> QED
        BY <2>2, <2>3, <4>1
    <3> QED
      BY <3>1, <3>2
  <2>5. g = [i \in 0..(n + 1) |-> g[i]]
    OBVIOUS
  <2> HIDE DEF g
  <2>6. ReadOffsetsUpTo(g, r, n + 1)
    BY <2>4, <2>5 DEF ReadOffsetsUpTo
  <2> QED
    BY <2>6
<1>3. m \in T
  <2> HIDE DEF T
  <2> QED
    BY <1>1, <1>2, InductionUpTo
<1> QED
  BY <1>3

LEMMA ReadOffsetsSteps ==
  ASSUME NEW r, r.code = "OK"
  PROVE  \E read : /\ ReadOffsets(r) = read[Value(r.value)] /\ read[0] = r
                   /\ \A n \in 1..Value(r.value) : read[n] = ReadOffset(read[n - 1])
<1> DEFINE m == Value(r.value)
           k == CHOOSE read : ReadOffsetsUpTo(read, r, m)
<1>1. m \in Nat
  BY ValueIsNat
<1>2. ReadOffsets(r) = k[m]
  BY DEF ReadOffsets, ReadOffsetsUpTo
<1> HIDE DEF m
<1>3. ReadOffsetsUpTo(k, r, m)
  BY <1>1, ReadOffsetsUnfolds
<1> HIDE DEF k
<1>4. k[0] = r /\ \A n \in 1..m : k[n] = ReadOffset(k[n - 1])
  BY <1>1, <1>3 DEF ReadOffsetsUpTo
<1> QED
  BY <1>2, <1>4 DEF m

\* The strings among the first n that are in use.
UsedUpTo(c, n) == Used(c) \cap (1..n)

LEMMA UsedCount ==
  ASSUME NEW c
  PROVE  /\ UsedUpTo(c, 0) = {} /\ UsedUpTo(c, Len(StringEntries)) = Used(c)
         /\ Cardinality(UsedUpTo(c, 0)) = 0
         /\ Cardinality(Used(c)) \in 0..Len(StringEntries)
         /\ \A n \in 0..(Len(StringEntries) - 1) :
              /\ Cardinality(UsedUpTo(c, n)) \in Nat
              /\ Cardinality(UsedUpTo(c, n)) <= Cardinality(Used(c))
              /\ Cardinality(UsedUpTo(c, n + 1)) =
                   IF n + 1 \in Used(c) THEN Cardinality(UsedUpTo(c, n)) + 1
                   ELSE Cardinality(UsedUpTo(c, n))
<1> DEFINE N == Len(StringEntries)
<1>1. N \in Nat /\ StringIndex = 1..N
  BY EntriesAreASequence
<1> HIDE DEF N
<1>2. Used(c) \subseteq 1..N
  BY <1>1 DEF Used
<1>3. IsFiniteSet(1..N) /\ Cardinality(1..N) = N
  BY <1>1, FS_Interval
<1>4. IsFiniteSet(Used(c)) /\ Cardinality(Used(c)) \in Nat /\ Cardinality(Used(c)) <= N
  BY <1>2, <1>3, FS_Subset, FS_CardinalityType
<1>5. UsedUpTo(c, 0) = {} /\ UsedUpTo(c, N) = Used(c)
  BY <1>1, <1>2 DEF UsedUpTo
<1>6. Cardinality(UsedUpTo(c, 0)) = 0
  BY <1>5, FS_EmptySet
<1>7. ASSUME NEW n \in 0..(N - 1)
      PROVE  /\ Cardinality(UsedUpTo(c, n)) \in Nat
             /\ Cardinality(UsedUpTo(c, n)) <= Cardinality(Used(c))
             /\ Cardinality(UsedUpTo(c, n + 1)) =
                   IF n + 1 \in Used(c) THEN Cardinality(UsedUpTo(c, n)) + 1
                   ELSE Cardinality(UsedUpTo(c, n))
  <2>1. UsedUpTo(c, n) \subseteq Used(c)
    BY DEF UsedUpTo
  <2>2. /\ IsFiniteSet(UsedUpTo(c, n)) /\ Cardinality(UsedUpTo(c, n)) \in Nat
        /\ Cardinality(UsedUpTo(c, n)) <= Cardinality(Used(c))
    BY <1>4, <2>1, FS_Subset, FS_CardinalityType
  <2>3. n + 1 \notin UsedUpTo(c, n)
    BY <1>1 DEF UsedUpTo
  <2>4. UsedUpTo(c, n + 1)
          = IF n + 1 \in Used(c) THEN UsedUpTo(c, n) \cup {n + 1} ELSE UsedUpTo(c, n)
    BY <1>1 DEF UsedUpTo
  <2>5. Cardinality(UsedUpTo(c, n) \cup {n + 1}) = Cardinality(UsedUpTo(c, n)) + 1
    BY <2>2, <2>3, FS_AddElement
  <2> QED
    BY <2>2, <2>4, <2>5
<1> QED
  BY <1>1, <1>4, <1>5, <1>6, <1>7 DEF N

LEMMA TwoIsOneAndOne ==
  ASSUME NEW T, NEW x \in T, NEW y \in T
  PROVE  /\ <<x>> \in Seq(T) /\ <<y>> \in Seq(T) /\ <<x, y>> \in Seq(T)
         /\ <<x, y>> = <<x>> \o <<y>>
<1>1. <<x>> \in Seq(T) /\ <<y>> \in Seq(T) /\ <<x, y>> \in Seq(T)
  OBVIOUS
<1>2. Append(<<x>>, y) = <<x>> \o <<y>>
  BY <1>1, AppendIsConcat
<1>3. Append(<<x>>, y) = <<x, y>>
  <2> DEFINE s == Append(<<x>>, y)
  <2>1. Len(s) = 2 /\ s[1] = x /\ s[2] = y /\ s \in Seq(T)
    BY <1>1, AppendProperties
  <2> HIDE DEF s
  <2>2. s = <<x, y>>
    BY <1>1, <2>1, SeqEqual
  <2> QED
    BY <2>2 DEF s
<1> QED
  BY <1>1, <1>2, <1>3

LEMMA FlattenOfTwo ==
  ASSUME NEW S, NEW x \in Seq(S), NEW y \in Seq(S)
  PROVE  FlattenSeq(<<x, y>>) = x \o y /\ <<x, y>> \in Seq(Seq(S))
<1> DEFINE T == Seq(S)
           one == <<x>>
           other == <<y>>
<1>0. x \in T /\ y \in T
  OBVIOUS
<1> HIDE DEF T
<1>1. one \in Seq(T) /\ other \in Seq(T) /\ <<x, y>> = one \o other /\ <<x, y>> \in Seq(T)
  BY <1>0, TwoIsOneAndOne
<1>3. FlattenSeq(one) = x /\ FlattenSeq(other) = y
  BY FlattenOfOne
<1> HIDE DEF one, other
<1>2. FlattenSeq(one \o other) = FlattenSeq(one) \o FlattenSeq(other)
  BY <1>1, FlattenConcat DEF T
<1> QED
  BY <1>1, <1>2, <1>3 DEF T

\* The bytes of the record from the offset of string n + 1 on.
OffsetTails(B, c, rest) ==
  /\ B[0] = FlattenSeq(WriteOffsets(c)) \o rest /\ B[Len(StringEntries)] = rest
  /\ \A i \in 0..Len(StringEntries) : B[i] \in Bytes
  /\ \A i \in StringIndex :
       B[i - 1] = IF i \in Used(c)
                  THEN WriteVarSizeUint32(Bits(i - 1))
                    \o (WriteVarSizeUint32(Bits(c.offsets[i])) \o B[i])
                  ELSE B[i]

LEMMA OffsetTailsOf ==
  ASSUME NEW c \in CardFields, NEW rest \in Bytes
  PROVE  /\ \E B : OffsetTails(B, c, rest)
         /\ WriteOffsets(c) \in Seq(Bytes)
<1> DEFINE N == Len(StringEntries)
           pair(i) == IF i \in Used(c)
                      THEN <<WriteVarSizeUint32(Bits(i - 1)),
                             WriteVarSizeUint32(Bits(c.offsets[i]))>>
                      ELSE <<>>
           pairs == [i \in StringIndex |-> pair(i)]
<1>1. N \in Nat /\ StringIndex = 1..N
  BY EntriesAreASequence
<1>2. \A i \in Used(c) : i \in StringIndex /\ c.offsets[i] \in Nat
  BY DEF Used, CardFields
<1>2a. ASSUME NEW i \in Used(c)
       PROVE  WriteVarSizeUint32(Bits(i - 1)) \in Bytes
                /\ WriteVarSizeUint32(Bits(c.offsets[i])) \in Bytes
  <2> DEFINE j == i - 1
  <2>1. j \in Nat
    BY <1>1, <1>2
  <2> HIDE DEF j
  <2>2. Bits(j) \in Word /\ Bits(c.offsets[i]) \in Word
    BY <1>2, <2>1, BitsAreAWord
  <2>3. WriteVarSizeUint32(Bits(j)) \in Bytes /\ WriteVarSizeUint32(Bits(c.offsets[i])) \in Bytes
    BY <2>2, WritesVarSize
  <2> QED
    BY <2>3 DEF j
<1>3. \A i \in StringIndex : pair(i) \in Seq(Bytes)
  BY <1>2a
<1>4. pairs \in Seq(Seq(Bytes)) /\ Len(pairs) = N
  BY <1>1, <1>3, FunctionIsSeq
<1>5. WriteOffsets(c) = FlattenSeq(pairs)
  BY DEF WriteOffsets
<1>5a. \A i \in 1..N : pairs[i] = pair(i)
  BY <1>1
<1> HIDE DEF pairs
<1>5b. WriteOffsets(c) \in Seq(Bytes)
  BY <1>4, <1>5, FlattenConcat
<1>6. PICK rests : Tails(rests, pairs, Bytes)
  BY <1>4, FlattenTails
<1>6a. \A i \in 0..N : rests[i] \in Seq(Bytes)
  BY <1>4, <1>6 DEF Tails
<1>6b. \A i \in 1..N : i - 1 \in 0..N /\ i \in 0..N /\ rests[i - 1] = pairs[i] \o rests[i]
  <2> HIDE DEF N, pair
  <2>1. \A i \in 1..N : rests[i - 1] = pairs[i] \o rests[i]
    BY <1>4, <1>6 DEF Tails
  <2>2. \A i \in 1..N : i - 1 \in 0..N /\ i \in 0..N
    BY <1>1
  <2> QED
    BY <2>1, <2>2, Zenon
<1> DEFINE B == [i \in 0..N |-> FlattenSeq(rests[i]) \o rest]
<1>7. \A i \in 0..N : FlattenSeq(rests[i]) \in Bytes /\ B[i] \in Bytes
  <2> SUFFICES ASSUME NEW i \in 0..N PROVE FlattenSeq(rests[i]) \in Bytes /\ B[i] \in Bytes
    OBVIOUS
  <2>1. FlattenSeq(rests[i]) \in Seq(Byte)
    BY <1>6a, FlattenConcat DEF Bytes
  <2> QED
    BY <2>1, ConcatProperties DEF Bytes
<1>8. ASSUME NEW i \in 1..N, i \notin Used(c) PROVE B[i - 1] = B[i]
  <2>1. pairs[i] = <<>>
    BY <1>5a, <1>8
  <2> DEFINE s == rests[i]
  <2>2. s \in Seq(Bytes) /\ rests[i - 1] = <<>> \o s
    BY <1>6a, <1>6b, <2>1
  <2> HIDE DEF s
  <2>3. <<>> \o s = s
    BY <2>2, ConcatEmptySeq
  <2>4. rests[i - 1] = rests[i]
    BY <2>2, <2>3 DEF s
  <2> QED
    BY <1>6b, <2>4
<1>9. ASSUME NEW i \in Used(c)
      PROVE  B[i - 1] = WriteVarSizeUint32(Bits(i - 1))
               \o (WriteVarSizeUint32(Bits(c.offsets[i])) \o B[i])
  <2> DEFINE x == WriteVarSizeUint32(Bits(i - 1))
             y == WriteVarSizeUint32(Bits(c.offsets[i]))
             s == rests[i]
             z == FlattenSeq(s)
  <2>0. i \in 1..N
    BY <1>1, <1>2
  <2>3. x \in Bytes /\ y \in Bytes
    BY <1>2a
  <2>4. rests[i - 1] = <<x, y>> \o s
    BY <1>5a, <1>6b, <2>0
  <2>4a. s \in Seq(Seq(Byte)) /\ z \in Bytes
    BY <1>6a, <1>7, <2>0 DEF Bytes
  <2>4b. B[i] = z \o rest /\ B[i - 1] = FlattenSeq(rests[i - 1]) \o rest
    BY <1>6b, <2>0
  <2> HIDE DEF x, y, s, z, B
  <2>6. FlattenSeq(<<x, y>>) = x \o y /\ <<x, y>> \in Seq(Seq(Byte))
    BY <2>3, FlattenOfTwo DEF Bytes
  <2>7. FlattenSeq(<<x, y>> \o s) = (x \o y) \o z
    BY <2>4a, <2>6, FlattenConcat DEF z
  <2>8. ((x \o y) \o z) \o rest = x \o (y \o (z \o rest))
    <3>1. x \o y \in Bytes /\ z \o rest \in Bytes
      BY <2>3, <2>4a, ConcatProperties DEF Bytes
    <3>2. ((x \o y) \o z) \o rest = (x \o y) \o (z \o rest)
      BY <2>4a, <3>1, ConcatAssociative DEF Bytes
    <3>3. (x \o y) \o (z \o rest) = x \o (y \o (z \o rest))
      BY <2>3, <3>1, ConcatAssociative DEF Bytes
    <3> QED
      BY <3>2, <3>3
  <2> QED
    BY <2>4, <2>4b, <2>7, <2>8 DEF x, y
<1>10. B[0] = FlattenSeq(WriteOffsets(c)) \o rest
  BY <1>1, <1>4, <1>5, <1>6 DEF Tails
<1>11. B[N] = rest
  <2>1. FlattenSeq(rests[N]) = <<>>
    BY <1>4, <1>6, FlattenOfNone DEF Tails
  <2>2. <<>> \o rest = rest
    BY ConcatEmptySeq DEF Bytes
  <2> QED
    <3> HIDE DEF N, pair
    <3>1. B[N] = FlattenSeq(rests[N]) \o rest
      BY <1>1
    <3> HIDE DEF B
    <3> QED
      BY <2>1, <2>2, <3>1
<1> HIDE DEF B
<1>12. OffsetTails(B, c, rest)
  BY <1>1, <1>7, <1>8, <1>9, <1>10, <1>11 DEF OffsetTails
<1> QED
  BY <1>5b, <1>12

LEMMA OffsetsAreRead ==
  ASSUME NEW c0 \in CardFields, NEW c \in CardFields, NEW v, NEW rest \in Bytes,
         Len(StringEntries) < 2^31, Len(c.data) < 2^31, c0.data = c.data,
         \A i \in Used(c) : c.offsets[i] < Len(c.data),
         c0.offsets = [i \in StringIndex |-> NoOffset]
  PROVE  \E w : ReadStrings(Reading(c0, v, WriteVarSizeUint32(Bits(Cardinality(Used(c))))
                                             \o (FlattenSeq(WriteOffsets(c)) \o rest)))
                  = Reading(WithStrings(c0, c, Len(StringEntries)), w, rest)
<1> DEFINE N == Len(StringEntries)
           used == Cardinality(Used(c))
<1>1. N \in Nat /\ StringIndex = 1..N
  BY EntriesAreASequence
<1>2. \A i \in Used(c) : i \in StringIndex /\ c.offsets[i] \in Nat
  BY DEF Used, CardFields
<1>6. PICK B : OffsetTails(B, c, rest)
  BY OffsetTailsOf
<1>7. \A i \in 0..N : B[i] \in Bytes
  BY <1>6 DEF OffsetTails
<1>8. ASSUME NEW i \in 1..N, i \notin Used(c) PROVE B[i - 1] = B[i]
  BY <1>1, <1>6, <1>8 DEF OffsetTails
<1>9. ASSUME NEW i \in Used(c)
      PROVE  B[i - 1] = WriteVarSizeUint32(Bits(i - 1))
               \o (WriteVarSizeUint32(Bits(c.offsets[i])) \o B[i])
  BY <1>2, <1>6 DEF OffsetTails
<1> DEFINE first == Reading(c0, v, WriteVarSizeUint32(Bits(used)) \o B[0])
           start == Reading(c0, Bits(used), B[0])
<1>10. used \in 0..N /\ used < 2^31
  BY <1>1, UsedCount, SMT
<1>11. Bits(used) \in Word /\ Value(Bits(used)) = used
  BY <1>10, BitsAreAWord, ValueOfBits
<1>12. ReadUint32(first) = start
  <2>1. B[0] \in Bytes
    BY <1>1, <1>7
  <2> HIDE DEF used
  <2> QED
    BY <1>11, <2>1, UintIsRead
<1>13. start.code = "OK" /\ Value(start.value) = used
  BY <1>11 DEF Reading
<1> HIDE DEF start
<1>14. PICK read : /\ ReadOffsets(start) = read[used] /\ read[0] = start
                   /\ \A n \in 1..used : read[n] = ReadOffset(read[n - 1])
  BY <1>13, ReadOffsetsSteps
<1> DEFINE count(i) == Cardinality(UsedUpTo(c, i))
           Holds(i) == \E w : read[count(i)] = Reading(WithStrings(c0, c, i), w, B[i])
           T == {i \in 0..N : Holds(i)}
<1>15. 0 \in T
  <2>1. WithStrings(c0, c, 0) = c0
    <3>1. [j \in StringIndex |->
             IF j \in Used(c) /\ j \in filter /\ j <= 0 THEN c.offsets[j] ELSE NoOffset]
            = c0.offsets
      BY <1>1
    <3> QED
      BY <3>1 DEF WithStrings, CardFields
  <2>2. count(0) = 0
    BY UsedCount
  <2> QED
    BY <1>1, <1>14, <2>1, <2>2 DEF start
<1>16. ASSUME NEW i \in 0..(N - 1), i \in T PROVE i + 1 \in T
  <2> DEFINE j == i + 1
             k == count(i)
  <2>0. j \in 1..N /\ j - 1 = i /\ i \in 0..N
    BY <1>1
  <2>1. /\ k \in Nat /\ k <= used
        /\ count(j) = IF j \in Used(c) THEN k + 1 ELSE k
    BY <1>1, UsedCount
  <2>1a. count(j) <= used
    <3>1. CASE j < N
      BY <1>1, <2>0, <3>1, UsedCount
    <3>2. CASE j = N
      BY <3>2, <1>10, UsedCount
    <3> QED
      BY <2>0, <3>1, <3>2
  <2>2. PICK w : read[k] = Reading(WithStrings(c0, c, i), w, B[i])
    BY <1>16
  <2> HIDE DEF count, j, k
  <2>3. CASE j \notin Used(c)
    <3>1. WithStrings(c0, c, j) = WithStrings(c0, c, i)
      <4>1. \A l \in StringIndex : l \in Used(c) => (l <= j <=> l <= i)
        BY <1>1, <2>0, <2>3
      <4> QED
        BY <4>1 DEF WithStrings
    <3>2. B[j] = B[i]
      BY <1>8, <2>0, <2>3
    <3> QED
      BY <2>0, <2>1, <2>2, <2>3, <3>1, <3>2 DEF j
  <2>4. CASE j \in Used(c)
    <3> DEFINE d == WithStrings(c0, c, i)
    <3>1. d \in CardFields /\ d.data = c.data
      BY DEF WithStrings, CardFields, Used
    <3>2. c.offsets[j] \in Nat /\ c.offsets[j] < Len(c.data) /\ Len(c.data) \in Nat
      BY <1>2, <2>4, LenProperties DEF CardFields
    <3>3. c.offsets[j] < 2^31
      BY <3>2, SMT
    <3>4. B[j] \in Bytes
      BY <1>7, <2>0
    <3>5. B[i] = WriteVarSizeUint32(Bits(j - 1)) \o (WriteVarSizeUint32(Bits(c.offsets[j])) \o B[j])
      BY <1>9, <2>0, <2>4
    <3>6. j \in StringIndex
      BY <1>2, <2>4
    <3> HIDE DEF d
    <3>7. ReadOffset(Reading(d, w, B[i]))
            = Reading(StoreOffset(d, j, c.offsets[j]), Bits(c.offsets[j]), B[j])
      BY <3>1, <3>2, <3>3, <3>4, <3>5, <3>6, OffsetIsRead
    <3>8. StoreOffset(d, j, c.offsets[j]) = WithStrings(c0, c, j)
      <4>1. \A l \in StringIndex : (l <= j <=> (l <= i \/ l = j)) /\ (l = j => ~(l <= i))
        BY <1>1, <2>0
      <4>2. CASE j \in filter
        <5>1. [d.offsets EXCEPT ![j] = c.offsets[j]]
               = [l \in StringIndex |->
                    IF l \in Used(c) /\ l \in filter /\ l <= j THEN c.offsets[l] ELSE NoOffset]
          BY <2>4, <3>6, <4>1, <4>2 DEF d, WithStrings, CardFields
        <5>2. StoreOffset(d, j, c.offsets[j])
                = [d EXCEPT !.offsets = [d.offsets EXCEPT ![j] = c.offsets[j]]]
          BY <3>1, <4>2 DEF StoreOffset, CardFields
        <5> QED
          BY <5>1, <5>2 DEF d, WithStrings, CardFields
      <4>3. CASE j \notin filter
        <5>1. \A l \in StringIndex : l \in filter => (l <= j <=> l <= i)
          BY <4>1, <4>3
        <5>2. WithStrings(c0, c, j) = d
          BY <5>1 DEF d, WithStrings
        <5> QED
          BY <4>3, <5>2 DEF StoreOffset
      <4> QED
        BY <4>2, <4>3
    <3>9. k + 1 \in 1..used /\ (k + 1) - 1 = k /\ count(j) = k + 1
      BY <1>10, <2>1, <2>1a, <2>4
    <3>10. read[k + 1] = ReadOffset(read[k])
      BY <1>14, <3>9
    <3>11. Holds(j)
      BY <2>2, <3>7, <3>8, <3>9, <3>10 DEF d
    <3> QED
      BY <2>0, <3>11 DEF j
  <2> QED
    BY <2>3, <2>4
<1>17. N \in T
  <2>1. \A i \in 0..(N - 1) : i \in T => i + 1 \in T
    BY <1>16
  <2> HIDE DEF T, N, Holds, count
  <2>2. 0..N \subseteq T
    BY <1>1, <1>15, <2>1, InductionUpTo
  <2> QED
    BY <1>1, <2>2
<1>18. count(N) = used
  BY UsedCount
<1>19. B[N] = rest
  BY <1>6 DEF OffsetTails
<1>20. \E w : ReadOffsets(start) = Reading(WithStrings(c0, c, N), w, rest)
  BY <1>14, <1>17, <1>18, <1>19
<1> QED
  BY <1>6, <1>12, <1>20 DEF ReadStrings, OffsetTails

\* The bytes of a field that is there only with its flag.
OptionalBytes(c, flag, bytes) == IF flag \subseteq c.flags THEN bytes ELSE <<>>

LEMMA OptionalFlattens ==
  ASSUME NEW c, NEW flag, NEW bytes \in Bytes
  PROVE  /\ Optional(c, flag, bytes) \in Seq(Seq(Byte))
         /\ FlattenSeq(Optional(c, flag, bytes)) = OptionalBytes(c, flag, bytes)
         /\ OptionalBytes(c, flag, bytes) \in Bytes
<1>1. CASE flag \subseteq c.flags
  <2> DEFINE ss == Optional(c, flag, bytes)
  <2>1. ss = <<bytes>> /\ OptionalBytes(c, flag, bytes) = bytes
    BY <1>1 DEF Optional, OptionalBytes
  <2>2. <<bytes>> \in Seq(Seq(Byte))
    BY DEF Bytes
  <2>3. FlattenSeq(<<bytes>>) = bytes
    BY FlattenOfOne DEF Bytes
  <2> HIDE DEF ss
  <2>4. FlattenSeq(ss) = bytes /\ ss \in Seq(Seq(Byte))
    BY <2>1, <2>2, <2>3
  <2> QED
    BY <2>1, <2>4 DEF ss
<1>2. CASE ~(flag \subseteq c.flags)
  <2> DEFINE ss == Optional(c, flag, bytes)
  <2>1. ss = <<>> /\ OptionalBytes(c, flag, bytes) = <<>>
    BY <1>2 DEF Optional, OptionalBytes
  <2>2. <<>> \in Seq(Seq(Byte)) /\ <<>> \in Bytes
    BY DEF Bytes
  <2> HIDE DEF ss
  <2>4. FlattenSeq(ss) = <<>> /\ ss \in Seq(Seq(Byte))
    BY <2>1, <2>2, FlattenOfNone
  <2> QED
    BY <2>1, <2>2, <2>4 DEF ss
<1> QED
  BY <1>1, <1>2

TailsBefore(f, ss, t) ==
  /\ f[0] = FlattenSeq(ss) \o t /\ f[Len(ss)] = t
  /\ \A i \in 1..Len(ss) : f[i - 1] = ss[i] \o f[i]

LEMMA FlattenTailsBefore ==
  ASSUME NEW S, NEW ss \in Seq(Seq(S)), NEW t \in Seq(S)
  PROVE  \E f : TailsBefore(f, ss, t)
<1> DEFINE n == Len(ss)
<1>1. n \in Nat /\ \A i \in 1..n : ss[i] \in Seq(S)
  BY LenProperties, ElementOfSeq
<1>2. PICK rests : Tails(rests, ss, S)
  BY FlattenTails
<1> DEFINE f == [i \in 0..n |-> rests[i] \o t]
<1>3. ASSUME NEW i \in 1..n PROVE f[i - 1] = ss[i] \o f[i]
  <2> DEFINE x == ss[i]
             y == rests[i]
  <2>2. i \in 0..n /\ i - 1 \in 0..n
    BY <1>1
  <2>1. x \in Seq(S) /\ y \in Seq(S) /\ rests[i - 1] = x \o y
    <3>1. x \in Seq(S)
      BY <1>1
    <3>2. y \in Seq(S)
      BY <1>2, <2>2 DEF Tails
    <3>3. rests[i - 1] = x \o y
      BY <1>2, Zenon DEF Tails
    <3> QED
      BY <3>1, <3>2, <3>3
  <2>3. f[i] = y \o t /\ f[i - 1] = (x \o y) \o t
    BY <2>1, <2>2
  <2> HIDE DEF x, y, f
  <2>4. (x \o y) \o t = x \o (y \o t)
    BY <2>1, ConcatAssociative
  <2> QED
    BY <2>3, <2>4 DEF x
<1>4. f[0] = FlattenSeq(ss) \o t
  <2>1. rests[0] = FlattenSeq(ss)
    BY <1>2 DEF Tails
  <2>2. 0 \in 0..n
    BY <1>1
  <2> QED
    BY <2>1, <2>2, Zenon
<1>5. f[n] = t
  <2>1. rests[n] = <<>>
    BY <1>2 DEF Tails
  <2>2. n \in 0..n
    BY <1>1
  <2>3. f[n] = rests[n] \o t
    BY <2>2, Zenon
  <2> HIDE DEF f, n
  <2> QED
    BY <2>1, <2>3, ConcatEmptySeq
<1> HIDE DEF f
<1>6. TailsBefore(f, ss, t)
  BY <1>3, <1>4, <1>5 DEF TailsBefore
<1> QED
  BY <1>6

Five(x1, x2, x3, x4, x5) == <<x1, x2, x3, x4, x5>>
Joins(x1, x2, x3, x4, x5, t) ==
  FlattenSeq(Five(x1, x2, x3, x4, x5)) \o t = x1 \o (x2 \o (x3 \o (x4 \o (x5 \o t))))

LEMMA FlattenOfFive ==
  ASSUME NEW x1 \in Bytes, NEW x2 \in Bytes, NEW x3 \in Bytes, NEW x4 \in Bytes,
         NEW x5 \in Bytes, NEW t \in Bytes
  PROVE  /\ Five(x1, x2, x3, x4, x5) \in Seq(Bytes)
         /\ Joins(x1, x2, x3, x4, x5, t)
<1> DEFINE T == Bytes
           ss == <<x1, x2, x3, x4, x5>>
<1>1. x1 \in T /\ x2 \in T /\ x3 \in T /\ x4 \in T /\ x5 \in T
  OBVIOUS
<1> HIDE DEF T
<1>3. /\ ss \in Seq(T) /\ Len(ss) = 5
      /\ ss[1] = x1 /\ ss[2] = x2 /\ ss[3] = x3 /\ ss[4] = x4 /\ ss[5] = x5
  BY <1>1
<1> HIDE DEF ss
<1>4. PICK f : TailsBefore(f, ss, t)
  BY <1>3, FlattenTailsBefore DEF T, Bytes
<1>5. /\ f[0] = FlattenSeq(ss) \o t /\ f[5] = t
      /\ \A i \in 1..5 : f[i - 1] = ss[i] \o f[i]
  BY <1>3, <1>4 DEF TailsBefore
<1>5a. ASSUME NEW i \in 1..5, NEW j \in Nat, j = i - 1, NEW x, x = ss[i]
       PROVE  f[j] = x \o f[i]
  BY <1>5, <1>5a
<1>6a. f[4] = x5 \o f[5]
  BY <1>3, <1>5a
<1>6b. f[3] = x4 \o f[4]
  BY <1>3, <1>5a
<1>6c. f[2] = x3 \o f[3]
  BY <1>3, <1>5a
<1>6d. f[1] = x2 \o f[2]
  BY <1>3, <1>5a
<1>6e. f[0] = x1 \o f[1]
  BY <1>3, <1>5a
<1> QED
  BY <1>3, <1>5, <1>6a, <1>6b, <1>6c, <1>6d, <1>6e DEF T, ss, Five, Joins

\* What sfc_card_serialize writes of a card, and when it can be read back.
Storable(c) ==
  /\ c \in CardFields
  /\ c.set \in Seq(Byte \ {NUL}) /\ Len(c.set) < MaxSet
  /\ \A i \in Used(c) : c.offsets[i] < Len(c.data)
  /\ ~(TcgplayerId \subseteq c.flags)   => c.tcgplayerId = {}
  /\ ~(CardmarketId \subseteq c.flags)  => c.cardmarketId = {}
  /\ ~(Colors \subseteq c.flags)        => c.colors = {}
  /\ ~(ColorIdentity \subseteq c.flags) => c.colorIdentity = {}

FlagBytes(c, rest)      == WriteUint32(c.flags) \o rest
IdBytes(c, rest)        ==
  OptionalBytes(c, TcgplayerId, WriteVarSizeUint32(c.tcgplayerId))
    \o (OptionalBytes(c, CardmarketId, WriteVarSizeUint32(c.cardmarketId)) \o rest)
ColorBytes(c, rest)     ==
  OptionalBytes(c, ColorIdentity, WriteUint8(c.colorIdentity))
    \o (OptionalBytes(c, Colors, WriteUint8(c.colors)) \o rest)
StringBytes(c, rest)    ==
  WriteVarSizeUint32(Bits(Cardinality(Used(c)))) \o (FlattenSeq(WriteOffsets(c)) \o rest)
DataBytes(c, rest)      == WriteVarSizeUint32(Bits(Len(c.data))) \o (c.data \o rest)
HeadBytes(c, rest)      == WriteVarSizeUint32(c.number) \o (WriteString(c.set) \o rest)

LEMMA PiecesAreBytes ==
  ASSUME NEW c \in CardFields
  PROVE  /\ WriteVarSizeUint32(c.number) \in Bytes /\ WriteString(c.set) \in Bytes
         /\ WriteVarSizeUint32(Bits(Len(c.data))) \in Bytes /\ c.data \in Bytes
         /\ WriteVarSizeUint32(Bits(Cardinality(Used(c)))) \in Bytes
         /\ WriteOffsets(c) \in Seq(Seq(Byte)) /\ FlattenSeq(WriteOffsets(c)) \in Bytes
         /\ WriteUint32(c.flags) \in Bytes /\ WriteUint64(c.timestamp) \in Bytes
         /\ WriteVarSizeUint32(c.tcgplayerId) \in Bytes
              /\ WriteVarSizeUint32(c.cardmarketId) \in Bytes
         /\ WriteUint8(c.colors) \in Bytes /\ WriteUint8(c.colorIdentity) \in Bytes
<1>1. /\ c.number \in Word /\ c.set \in Seq(Byte) /\ c.data \in Seq(Byte) /\ c.flags \subseteq 0..5
      /\ c.timestamp \in Word64 /\ c.tcgplayerId \in Word /\ c.cardmarketId \in Word
      /\ c.colors \in Byte /\ c.colorIdentity \in Byte
  BY DEF CardFields
<1>2. Bits(Len(c.data)) \in Word
  BY <1>1, LenProperties, BitsAreAWord
<1>3. Bits(Cardinality(Used(c))) \in Word
  BY UsedCount, EntriesAreASequence, BitsAreAWord
<1>4. WriteOffsets(c) \in Seq(Bytes)
  <2>1. <<>> \in Bytes
    BY DEF Bytes
  <2> QED
    BY <2>1, OffsetTailsOf
<1>5. FlattenSeq(WriteOffsets(c)) \in Bytes
  BY <1>4, FlattenConcat DEF Bytes
<1>6. WriteString(c.set) \in Bytes
  <2>1. NUL \in Byte
    BY DEF NUL, Byte, Width
  <2> QED
    BY <1>1, <2>1, AppendProperties DEF WriteString, Bytes
<1>7. WriteUint32(c.flags) \in Bytes
  <2>1. 4 \in 0..8 /\ c.flags \in Width(8 * 4)
    <3>1. 8 * 4 - 1 = 31
      OBVIOUS
    <3>2. c.flags \subseteq 0..5
      BY <1>1
    <3> QED
      BY <3>1, <3>2 DEF Width
  <2> QED
    BY <2>1, SplitIsJoined DEF WriteUint32
<1>8. WriteUint64(c.timestamp) \in Bytes
  <2>1. 8 \in 0..8 /\ c.timestamp \in Width(8 * 8)
    BY <1>1 DEF Width, Word64
  <2> QED
    BY <2>1, SplitIsJoined DEF WriteUint64
<1>9. WriteUint8(c.colors) \in Bytes /\ WriteUint8(c.colorIdentity) \in Bytes
  <2> DEFINE T == Byte
  <2> HIDE DEF T
  <2>1. c.colors \in T /\ c.colorIdentity \in T
    BY <1>1 DEF T
  <2>2. <<c.colors>> \in Seq(T) /\ <<c.colorIdentity>> \in Seq(T)
    BY <2>1
  <2> QED
    BY <2>2 DEF WriteUint8, Bytes, T
<1> QED
  BY <1>1, <1>2, <1>3, <1>4, <1>5, <1>6, <1>7, <1>8, <1>9, WritesVarSize DEF Bytes

LEMMA OptionalsAreBytes ==
  ASSUME NEW c \in CardFields, NEW rest \in Bytes
  PROVE  FlagBytes(c, rest) \in Bytes /\ IdBytes(c, rest) \in Bytes /\ ColorBytes(c, rest) \in Bytes
<1>1. \A x, y \in Bytes : x \o y \in Bytes
  BY ConcatProperties DEF Bytes
<1>2. FlagBytes(c, rest) \in Bytes
  BY <1>1, PiecesAreBytes DEF FlagBytes
<1>3. IdBytes(c, rest) \in Bytes
  <2>1. /\ OptionalBytes(c, TcgplayerId, WriteVarSizeUint32(c.tcgplayerId)) \in Bytes
        /\ OptionalBytes(c, CardmarketId, WriteVarSizeUint32(c.cardmarketId)) \in Bytes
    BY PiecesAreBytes, OptionalFlattens
  <2> QED
    BY <1>1, <2>1 DEF IdBytes
<1>4. ColorBytes(c, rest) \in Bytes
  <2>1. /\ OptionalBytes(c, ColorIdentity, WriteUint8(c.colorIdentity)) \in Bytes
        /\ OptionalBytes(c, Colors, WriteUint8(c.colors)) \in Bytes
    BY PiecesAreBytes, OptionalFlattens
  <2> QED
    BY <1>1, <2>1 DEF ColorBytes
<1> QED
  BY <1>2, <1>3, <1>4

LEMMA StringsAreBytes ==
  ASSUME NEW c \in CardFields, NEW rest \in Bytes
  PROVE  StringBytes(c, rest) \in Bytes /\ DataBytes(c, rest) \in Bytes
           /\ HeadBytes(c, rest) \in Bytes
<1>1. \A x, y \in Bytes : x \o y \in Bytes
  BY ConcatProperties DEF Bytes
<1> QED
  BY <1>1, PiecesAreBytes DEF StringBytes, DataBytes, HeadBytes

\* What the buffer holds after all writes.
LEMMA RecordOfCard ==
  ASSUME NEW c \in CardFields
  PROVE  Serialized(c) = HeadBytes(c, DataBytes(c, StringBytes(c, FlagBytes(c, IdBytes(c,
                           ColorBytes(c, WriteUint64(c.timestamp)))))))
<1> DEFINE five == <<WriteVarSizeUint32(c.number), WriteString(c.set),
                     WriteVarSizeUint32(Bits(Len(c.data))), c.data,
                     WriteVarSizeUint32(Bits(Cardinality(Used(c))))>>
           offsets == WriteOffsets(c)
           flags == <<WriteUint32(c.flags)>>
           tcg == Optional(c, TcgplayerId, WriteVarSizeUint32(c.tcgplayerId))
           cm == Optional(c, CardmarketId, WriteVarSizeUint32(c.cardmarketId))
           identity == Optional(c, ColorIdentity, WriteUint8(c.colorIdentity))
           colors == Optional(c, Colors, WriteUint8(c.colors))
           time == <<WriteUint64(c.timestamp)>>
           T == Seq(Seq(Byte))
<1>1. Writes(c) = five \o offsets \o flags \o tcg \o cm \o identity \o colors \o time
  BY DEF Writes
<1>2. /\ tcg \in T /\ cm \in T /\ identity \in T /\ colors \in T /\ offsets \in T
      /\ FlattenSeq(tcg) = OptionalBytes(c, TcgplayerId, WriteVarSizeUint32(c.tcgplayerId))
      /\ FlattenSeq(cm) = OptionalBytes(c, CardmarketId, WriteVarSizeUint32(c.cardmarketId))
      /\ FlattenSeq(identity) = OptionalBytes(c, ColorIdentity, WriteUint8(c.colorIdentity))
      /\ FlattenSeq(colors) = OptionalBytes(c, Colors, WriteUint8(c.colors))
  BY PiecesAreBytes, OptionalFlattens
<1>3. /\ flags \in T /\ time \in T
      /\ FlattenSeq(flags) = WriteUint32(c.flags) /\ FlattenSeq(time) = WriteUint64(c.timestamp)
  <2>1. WriteUint32(c.flags) \in Seq(Byte) /\ WriteUint64(c.timestamp) \in Seq(Byte)
    BY PiecesAreBytes DEF Bytes
  <2> QED
    BY <2>1, FlattenOfOne
<1>4. five \in T /\ \A t \in Bytes : FlattenSeq(five) \o t = HeadBytes(c, DataBytes(c,
                         WriteVarSizeUint32(Bits(Cardinality(Used(c)))) \o t))
  <2>1. five \in T
    BY PiecesAreBytes DEF Bytes
  <2>2. ASSUME NEW t \in Bytes
        PROVE  FlattenSeq(five) \o t = HeadBytes(c, DataBytes(c,
                         WriteVarSizeUint32(Bits(Cardinality(Used(c)))) \o t))
    <3> DEFINE p1 == WriteVarSizeUint32(c.number)
               p2 == WriteString(c.set)
               p3 == WriteVarSizeUint32(Bits(Len(c.data)))
               p4 == c.data
               p5 == WriteVarSizeUint32(Bits(Cardinality(Used(c))))
    <3>0. /\ p1 \in Bytes /\ p2 \in Bytes /\ p3 \in Bytes /\ p4 \in Bytes
          /\ p5 \in Bytes /\ t \in Bytes
      BY PiecesAreBytes
    <3>1. FlattenSeq(five) \o t = p1 \o (p2 \o (p3 \o (p4 \o (p5 \o t))))
      <4> HIDE DEF p1, p2, p3, p4, p5
      <4>1. FlattenSeq(Five(p1, p2, p3, p4, p5)) \o t = p1 \o (p2 \o (p3 \o (p4 \o (p5 \o t))))
        <5>1. Joins(p1, p2, p3, p4, p5, t)
          BY <3>0, FlattenOfFive
        <5> QED
          BY <5>1, Zenon DEF Joins
      <4> QED
        BY <4>1 DEF Five, p1, p2, p3, p4, p5
    <3> QED
      BY <3>1 DEF HeadBytes, DataBytes
  <2> QED
    BY <2>1, <2>2
<1> HIDE DEF five, offsets, flags, tcg, cm, identity, colors, time, T
<1>5. \A x, y \in T : x \o y \in T
  BY ConcatProperties DEF T
<1>6. \A x, y \in T : FlattenSeq(x \o y) = FlattenSeq(x) \o FlattenSeq(y)
  BY FlattenConcat DEF T
<1>7. \A x \in T : FlattenSeq(x) \in Bytes
  BY FlattenConcat DEF T, Bytes
<1>8. ASSUME NEW x \in T, NEW y \in T, NEW t \in Bytes
      PROVE  FlattenSeq(x \o y) \o t = FlattenSeq(x) \o (FlattenSeq(y) \o t)
  <2>1. FlattenSeq(x) \in Bytes /\ FlattenSeq(y) \in Bytes
    BY <1>7
  <2>2. (FlattenSeq(x) \o FlattenSeq(y)) \o t = FlattenSeq(x) \o (FlattenSeq(y) \o t)
    BY <2>1, ConcatAssociative DEF Bytes
  <2> QED
    BY <1>6, <2>2
<1> DEFINE w1 == five \o offsets
           w2 == w1 \o flags
           w3 == w2 \o tcg
           w4 == w3 \o cm
           w5 == w4 \o identity
           w6 == w5 \o colors
           t7 == FlattenSeq(time)
           t6 == FlattenSeq(colors) \o t7
           t5 == FlattenSeq(identity) \o t6
           t4 == FlattenSeq(cm) \o t5
           t3 == FlattenSeq(tcg) \o t4
           t2 == FlattenSeq(flags) \o t3
           t1 == FlattenSeq(offsets) \o t2
<1>9. w1 \in T /\ w2 \in T /\ w3 \in T /\ w4 \in T /\ w5 \in T /\ w6 \in T
  BY <1>2, <1>3, <1>4, <1>5
<1>10. \A x, y \in Bytes : x \o y \in Bytes
  BY ConcatProperties DEF Bytes
<1>11. /\ t7 \in Bytes /\ t6 \in Bytes /\ t5 \in Bytes /\ t4 \in Bytes /\ t3 \in Bytes
       /\ t2 \in Bytes /\ t1 \in Bytes
  BY <1>2, <1>3, <1>7, <1>10
<1>11a. /\ w2 = w1 \o flags /\ w3 = w2 \o tcg /\ w4 = w3 \o cm /\ w5 = w4 \o identity
        /\ w6 = w5 \o colors
        /\ t6 = FlattenSeq(colors) \o t7 /\ t5 = FlattenSeq(identity) \o t6
        /\ t4 = FlattenSeq(cm) \o t5 /\ t3 = FlattenSeq(tcg) \o t4
        /\ t2 = FlattenSeq(flags) \o t3 /\ t1 = FlattenSeq(offsets) \o t2
  OBVIOUS
<1> HIDE DEF w2, w3, w4, w5, w6, t1, t2, t3, t4, t5, t6
<1>12. FlattenSeq(w6 \o time) = FlattenSeq(w6) \o t7
  BY <1>3, <1>6, <1>9
<1>13. FlattenSeq(w6) \o t7 = FlattenSeq(w5) \o t6
  <2>1. FlattenSeq(w5 \o colors) \o t7 = FlattenSeq(w5) \o (FlattenSeq(colors) \o t7)
    <3>1. w5 \in T /\ colors \in T /\ t7 \in Bytes
      BY <1>2, <1>3, <1>9, <1>11
    <3> QED
      BY <1>8, <3>1
  <2> QED
    BY <1>11a, <2>1
<1>14. FlattenSeq(w5) \o t6 = FlattenSeq(w4) \o t5
  <2>1. FlattenSeq(w4 \o identity) \o t6 = FlattenSeq(w4) \o (FlattenSeq(identity) \o t6)
    <3>1. w4 \in T /\ identity \in T /\ t6 \in Bytes
      BY <1>2, <1>3, <1>9, <1>11
    <3> QED
      BY <1>8, <3>1
  <2> QED
    BY <1>11a, <2>1
<1>15. FlattenSeq(w4) \o t5 = FlattenSeq(w3) \o t4
  <2>1. FlattenSeq(w3 \o cm) \o t5 = FlattenSeq(w3) \o (FlattenSeq(cm) \o t5)
    <3>1. w3 \in T /\ cm \in T /\ t5 \in Bytes
      BY <1>2, <1>3, <1>9, <1>11
    <3> QED
      BY <1>8, <3>1
  <2> QED
    BY <1>11a, <2>1
<1>16. FlattenSeq(w3) \o t4 = FlattenSeq(w2) \o t3
  <2>1. FlattenSeq(w2 \o tcg) \o t4 = FlattenSeq(w2) \o (FlattenSeq(tcg) \o t4)
    <3>1. w2 \in T /\ tcg \in T /\ t4 \in Bytes
      BY <1>2, <1>3, <1>9, <1>11
    <3> QED
      BY <1>8, <3>1
  <2> QED
    BY <1>11a, <2>1
<1>17. FlattenSeq(w2) \o t3 = FlattenSeq(w1) \o t2
  <2>1. FlattenSeq(w1 \o flags) \o t3 = FlattenSeq(w1) \o (FlattenSeq(flags) \o t3)
    <3>1. w1 \in T /\ flags \in T /\ t3 \in Bytes
      BY <1>2, <1>3, <1>9, <1>11
    <3> QED
      BY <1>8, <3>1
  <2> QED
    BY <1>11a, <2>1
<1>18. FlattenSeq(w1) \o t2 = FlattenSeq(five) \o t1
  <2>1. FlattenSeq(five \o offsets) \o t2 = FlattenSeq(five) \o (FlattenSeq(offsets) \o t2)
    BY <1>2, <1>4, <1>8, <1>11
  <2> QED
    BY <1>11a, <2>1
<1>18a. Writes(c) = w6 \o time
  BY <1>1 DEF w2, w3, w4, w5, w6
<1>19. FlattenSeq(Writes(c)) = FlattenSeq(five) \o t1
  BY <1>18a, <1>12, <1>13, <1>14, <1>15, <1>16, <1>17, <1>18
<1>20. Writes(c) \in T
  BY <1>18a, <1>3, <1>5, <1>9
<1>21. Serialized(c) = FlattenSeq(Writes(c))
  BY <1>20, CollectedHolds DEF Serialized, T, Bytes
<1>22. t1 = FlattenSeq(offsets) \o FlagBytes(c, IdBytes(c, ColorBytes(c, WriteUint64(c.timestamp))))
  BY <1>2, <1>3 DEF FlagBytes, IdBytes, ColorBytes, t1, t2, t3, t4, t5, t6
<1>23. FlattenSeq(five) \o t1
         = HeadBytes(c, DataBytes(c, WriteVarSizeUint32(Bits(Cardinality(Used(c)))) \o t1))
  BY <1>4, <1>11
<1>24. WriteVarSizeUint32(Bits(Cardinality(Used(c)))) \o t1
         = StringBytes(c, FlagBytes(c, IdBytes(c, ColorBytes(c, WriteUint64(c.timestamp)))))
  BY <1>22 DEF StringBytes, offsets
<1> QED
  BY <1>19, <1>21, <1>23, <1>24

LEMMA FlagsAreRead ==
  ASSUME NEW c \in CardFields, NEW d, NEW v, NEW rest \in Bytes
  PROVE  ReadFlags(Reading(d, v, FlagBytes(c, rest)))
           = Reading([d EXCEPT !.flags = c.flags], c.flags, rest)
<1>1. c.flags \subseteq 0..31
  BY DEF CardFields
<1>2. 4 \in 0..8 /\ c.flags \in Width(8 * 4)
  <2>1. 8 * 4 - 1 = 31
    OBVIOUS
  <2> QED
    BY <1>1, <2>1 DEF Width
<1>3. TakeUint32(FlagBytes(c, rest)) = Took(c.flags, rest)
  BY <1>2, TakesWord DEF TakeUint32, FlagBytes, WriteUint32
<1> QED
  BY <1>3 DEF ReadFlags, Read, Reading, Took

LEMMA TimestampIsRead ==
  ASSUME NEW c \in CardFields, NEW d, NEW v
  PROVE  ReadTimestamp(Reading(d, v, WriteUint64(c.timestamp)))
           = Reading([d EXCEPT !.timestamp = c.timestamp], c.timestamp, <<>>)
<1>1. 8 \in 0..8 /\ c.timestamp \in Width(8 * 8)
  BY DEF CardFields, Word64, Width
<1>2. <<>> \in Bytes
  BY DEF Bytes
<1>3. TakeWord(Split(c.timestamp, 8) \o <<>>, 8) = Took(c.timestamp, <<>>)
  BY <1>1, <1>2, TakesWord
<1>4. Split(c.timestamp, 8) \o <<>> = Split(c.timestamp, 8)
  <2>1. Split(c.timestamp, 8) \in Seq(Byte)
    BY <1>1, SplitIsJoined DEF Bytes
  <2> QED
    BY <2>1, ConcatEmptySeq
<1>5. TakeUint64(WriteUint64(c.timestamp)) = Took(c.timestamp, <<>>)
  BY <1>3, <1>4 DEF TakeUint64, WriteUint64
<1> QED
  BY <1>5 DEF ReadTimestamp, Read, Reading, Took

LEMMA TakesByte ==
  ASSUME NEW b \in Byte, NEW rest \in Bytes
  PROVE  TakeUint8(WriteUint8(b) \o rest) = Took(b, rest)
<1>1. 1 \in 0..8 /\ b \in Width(8 * 1)
  BY DEF Byte, Width
<1>2. Split(b, 1) = WriteUint8(b)
  <2>1. Field(b, 8 * (1 - 1), 8) = b
    <3>1. 8 * (1 - 1) = 0 /\ 8 - 1 = 7
      OBVIOUS
    <3>2. b \subseteq 0..7 /\ \A i \in 0..7 : i + 0 = i
      BY DEF Byte, Width
    <3>3. {i \in 0..7 : i + 0 \in b} = b
      BY <3>2
    <3> QED
      BY <3>1, <3>3 DEF Field
  <2>2. Split(b, 1) \in Bytes /\ Len(Split(b, 1)) = 1
    BY <1>1, SplitIsJoined
  <2>3. Split(b, 1)[1] = b
    BY <2>1 DEF Split
  <2> DEFINE s == Split(b, 1)
  <2> HIDE DEF s
  <2>4. s = <<s[1]>>
    BY <2>2 DEF Bytes, s
  <2> QED
    BY <2>3, <2>4 DEF s, WriteUint8
<1>3. TakeWord(Split(b, 1) \o rest, 1) = Took(b, rest)
  BY <1>1, TakesWord
<1> QED
  BY <1>2, <1>3 DEF TakeUint8

\* What a read leaves, whatever value it ends with.
ReadsOn(r, d, rest) == \E w : r = Reading(d, w, rest)

\* The optional fields, each under a name of its own.
WithTcgplayerId(d, x) == [d EXCEPT !.tcgplayerId = x]
WithCardmarketId(d, x) == [d EXCEPT !.cardmarketId = x]
WithColorIdentity(d, x) == [d EXCEPT !.colorIdentity = x]
WithColors(d, x) == [d EXCEPT !.colors = x]

LEMMA TcgplayerIdIsRead ==
  ASSUME NEW c \in CardFields, NEW d, d.flags = c.flags, NEW v, NEW rest \in Bytes,
         NEW e, TcgplayerId \subseteq c.flags => e = WithTcgplayerId(d, c.tcgplayerId),
         ~(TcgplayerId \subseteq c.flags) => e = d
  PROVE  ReadsOn(ReadTcgplayerId(Reading(d, v,
                                         OptionalBytes(c, TcgplayerId,
                                                       WriteVarSizeUint32(c.tcgplayerId)) \o rest)),
                                                         e, rest)
<1> DEFINE r == Reading(d, v, OptionalBytes(c, TcgplayerId, WriteVarSizeUint32(c.tcgplayerId))
                        \o rest)
           t == TakeVarSizeUint32(r.rest)
<1>1. ReadTcgplayerId(r)
        = IF r.code = "OK" /\ TcgplayerId \subseteq r.card.flags
          THEN IF r.code # "OK" THEN r
               ELSE IF t.code # "OK" THEN t
               ELSE Reading(WithTcgplayerId(r.card, t.value), t.value, t.rest)
          ELSE r
  BY DEF ReadTcgplayerId, ReadOptional, Read, Reading, WithTcgplayerId
<1>2. r.code = "OK" /\ r.card = d
      /\ r.rest = OptionalBytes(c, TcgplayerId, WriteVarSizeUint32(c.tcgplayerId)) \o rest
  BY DEF Reading
<1>3. CASE TcgplayerId \subseteq c.flags
  <2>1. TakeVarSizeUint32(WriteVarSizeUint32(c.tcgplayerId) \o rest) = Took(c.tcgplayerId, rest)
    BY TakesVarSize DEF CardFields
  <2>2. t = Took(c.tcgplayerId, rest)
    BY <1>2, <1>3, <2>1 DEF OptionalBytes
  <2> HIDE DEF t
  <2>3. t.code = "OK" /\ t.value = c.tcgplayerId /\ t.rest = rest
    BY <2>2 DEF Took
  <2> HIDE DEF r
  <2> QED
    BY <1>1, <1>2, <1>3, <2>3 DEF r, ReadsOn
<1>4. CASE ~(TcgplayerId \subseteq c.flags)
  <2>1. <<>> \o rest = rest
    BY ConcatEmptySeq DEF Bytes
  <2>2. r = Reading(d, v, rest)
    BY <1>4, <2>1 DEF OptionalBytes
  <2> HIDE DEF r, t
  <2> QED
    BY <1>1, <1>2, <1>4, <2>2 DEF r, ReadsOn
<1> QED
  BY <1>3, <1>4

LEMMA CardmarketIdIsRead ==
  ASSUME NEW c \in CardFields, NEW d, d.flags = c.flags, NEW v, NEW rest \in Bytes,
         NEW e, CardmarketId \subseteq c.flags => e = WithCardmarketId(d, c.cardmarketId),
         ~(CardmarketId \subseteq c.flags) => e = d
  PROVE  ReadsOn(ReadCardmarketId(Reading(d, v,
                                          OptionalBytes(c, CardmarketId,
                                                        WriteVarSizeUint32(c.cardmarketId))
                                                          \o rest)), e, rest)
<1> DEFINE r == Reading(d, v, OptionalBytes(c, CardmarketId, WriteVarSizeUint32(c.cardmarketId))
                        \o rest)
           t == TakeVarSizeUint32(r.rest)
<1>1. ReadCardmarketId(r)
        = IF r.code = "OK" /\ CardmarketId \subseteq r.card.flags
          THEN IF r.code # "OK" THEN r
               ELSE IF t.code # "OK" THEN t
               ELSE Reading(WithCardmarketId(r.card, t.value), t.value, t.rest)
          ELSE r
  BY DEF ReadCardmarketId, ReadOptional, Read, Reading, WithCardmarketId
<1>2. r.code = "OK" /\ r.card = d
      /\ r.rest = OptionalBytes(c, CardmarketId, WriteVarSizeUint32(c.cardmarketId)) \o rest
  BY DEF Reading
<1>3. CASE CardmarketId \subseteq c.flags
  <2>1. TakeVarSizeUint32(WriteVarSizeUint32(c.cardmarketId) \o rest) = Took(c.cardmarketId, rest)
    BY TakesVarSize DEF CardFields
  <2>2. t = Took(c.cardmarketId, rest)
    BY <1>2, <1>3, <2>1 DEF OptionalBytes
  <2> HIDE DEF t
  <2>3. t.code = "OK" /\ t.value = c.cardmarketId /\ t.rest = rest
    BY <2>2 DEF Took
  <2> HIDE DEF r
  <2> QED
    BY <1>1, <1>2, <1>3, <2>3 DEF r, ReadsOn
<1>4. CASE ~(CardmarketId \subseteq c.flags)
  <2>1. <<>> \o rest = rest
    BY ConcatEmptySeq DEF Bytes
  <2>2. r = Reading(d, v, rest)
    BY <1>4, <2>1 DEF OptionalBytes
  <2> HIDE DEF r, t
  <2> QED
    BY <1>1, <1>2, <1>4, <2>2 DEF r, ReadsOn
<1> QED
  BY <1>3, <1>4

LEMMA IdentityIsRead ==
  ASSUME NEW c \in CardFields, NEW d, d.flags = c.flags, NEW v, NEW rest \in Bytes,
         NEW e, ColorIdentity \subseteq c.flags => e = WithColorIdentity(d, c.colorIdentity),
         ~(ColorIdentity \subseteq c.flags) => e = d
  PROVE  ReadsOn(ReadIdentity(Reading(d, v,
                                      OptionalBytes(c, ColorIdentity, WriteUint8(c.colorIdentity))
                                        \o rest)), e, rest)
<1> DEFINE r == Reading(d, v, OptionalBytes(c, ColorIdentity, WriteUint8(c.colorIdentity)) \o rest)
           t == TakeUint8(r.rest)
<1>1. ReadIdentity(r)
        = IF r.code = "OK" /\ ColorIdentity \subseteq r.card.flags
          THEN IF r.code # "OK" THEN r
               ELSE IF t.code # "OK" THEN t
               ELSE Reading(WithColorIdentity(r.card, t.value), t.value, t.rest)
          ELSE r
  BY DEF ReadIdentity, ReadOptional, Read, Reading, WithColorIdentity
<1>2. r.code = "OK" /\ r.card = d
      /\ r.rest = OptionalBytes(c, ColorIdentity, WriteUint8(c.colorIdentity)) \o rest
  BY DEF Reading
<1>3. CASE ColorIdentity \subseteq c.flags
  <2>1. TakeUint8(WriteUint8(c.colorIdentity) \o rest) = Took(c.colorIdentity, rest)
    BY TakesByte DEF CardFields
  <2>2. t = Took(c.colorIdentity, rest)
    BY <1>2, <1>3, <2>1 DEF OptionalBytes
  <2> HIDE DEF t
  <2>3. t.code = "OK" /\ t.value = c.colorIdentity /\ t.rest = rest
    BY <2>2 DEF Took
  <2> HIDE DEF r
  <2> QED
    BY <1>1, <1>2, <1>3, <2>3 DEF r, ReadsOn
<1>4. CASE ~(ColorIdentity \subseteq c.flags)
  <2>1. <<>> \o rest = rest
    BY ConcatEmptySeq DEF Bytes
  <2>2. r = Reading(d, v, rest)
    BY <1>4, <2>1 DEF OptionalBytes
  <2> HIDE DEF r, t
  <2> QED
    BY <1>1, <1>2, <1>4, <2>2 DEF r, ReadsOn
<1> QED
  BY <1>3, <1>4

LEMMA ColorsAreRead ==
  ASSUME NEW c \in CardFields, NEW d, d.flags = c.flags, NEW v, NEW rest \in Bytes,
         NEW e, Colors \subseteq c.flags => e = WithColors(d, c.colors),
         ~(Colors \subseteq c.flags) => e = d
  PROVE  ReadsOn(ReadOwnColors(Reading(d, v, OptionalBytes(c, Colors, WriteUint8(c.colors))
                                       \o rest)), e, rest)
<1> DEFINE r == Reading(d, v, OptionalBytes(c, Colors, WriteUint8(c.colors)) \o rest)
           t == TakeUint8(r.rest)
<1>1. ReadOwnColors(r)
        = IF r.code = "OK" /\ Colors \subseteq r.card.flags
          THEN IF r.code # "OK" THEN r
               ELSE IF t.code # "OK" THEN t
               ELSE Reading(WithColors(r.card, t.value), t.value, t.rest)
          ELSE r
  BY DEF ReadOwnColors, ReadOptional, Read, Reading, WithColors
<1>2. r.code = "OK" /\ r.card = d
      /\ r.rest = OptionalBytes(c, Colors, WriteUint8(c.colors)) \o rest
  BY DEF Reading
<1>3. CASE Colors \subseteq c.flags
  <2>1. TakeUint8(WriteUint8(c.colors) \o rest) = Took(c.colors, rest)
    BY TakesByte DEF CardFields
  <2>2. t = Took(c.colors, rest)
    BY <1>2, <1>3, <2>1 DEF OptionalBytes
  <2> HIDE DEF t
  <2>3. t.code = "OK" /\ t.value = c.colors /\ t.rest = rest
    BY <2>2 DEF Took
  <2> HIDE DEF r
  <2> QED
    BY <1>1, <1>2, <1>3, <2>3 DEF r, ReadsOn
<1>4. CASE ~(Colors \subseteq c.flags)
  <2>1. <<>> \o rest = rest
    BY ConcatEmptySeq DEF Bytes
  <2>2. r = Reading(d, v, rest)
    BY <1>4, <2>1 DEF OptionalBytes
  <2> HIDE DEF r, t
  <2> QED
    BY <1>1, <1>2, <1>4, <2>2 DEF r, ReadsOn
<1> QED
  BY <1>3, <1>4

\* A card by its fields.
Made(number, set, flags, tcg, cm, colors, identity, time, data, offsets, block) ==
  [number |-> number, set |-> set, flags |-> flags, tcgplayerId |-> tcg, cardmarketId |-> cm,
   colors |-> colors, colorIdentity |-> identity, timestamp |-> time, data |-> data,
   offsets |-> offsets, block |-> block]

\* What becomes of a card in a file: the strings the filter lets pass.
Loaded(c) == [WithStrings(c, c, Len(StringEntries)) EXCEPT !.block = 0]

LEMMA CardIsMade ==
  ASSUME NEW c \in CardFields
  PROVE  /\ c = Made(c.number, c.set, c.flags, c.tcgplayerId, c.cardmarketId, c.colors,
                     c.colorIdentity, c.timestamp, c.data, c.offsets, c.block)
         /\ Loaded(c) = Made(c.number, c.set, c.flags, c.tcgplayerId, c.cardmarketId, c.colors,
                             c.colorIdentity, c.timestamp, c.data,
                             WithStrings(c, c, Len(StringEntries)).offsets, 0)
<1>1. c = Made(c.number, c.set, c.flags, c.tcgplayerId, c.cardmarketId, c.colors,
               c.colorIdentity, c.timestamp, c.data, c.offsets, c.block)
  BY DEF CardFields, Made
<1> DEFINE offsets == [j \in StringIndex |->
               IF j \in Used(c) /\ j \in filter /\ j <= Len(StringEntries)
               THEN c.offsets[j] ELSE NoOffset]
<1>2. WithStrings(c, c, Len(StringEntries)) = [c EXCEPT !.offsets = offsets]
  BY DEF WithStrings
<1> HIDE DEF offsets
<1>3. Loaded(c) = [[c EXCEPT !.offsets = offsets] EXCEPT !.block = 0]
  BY <1>2 DEF Loaded
<1>4. [c EXCEPT !.offsets = offsets].offsets = offsets
  BY DEF CardFields
<1> QED
  BY <1>1, <1>2, <1>3, <1>4 DEF CardFields, Made

LEMMA Updates ==
  ASSUME NEW d \in CardFields, NEW x
  PROVE  /\ [d EXCEPT !.number = x]
              = Made(x, d.set, d.flags, d.tcgplayerId, d.cardmarketId, d.colors, d.colorIdentity,
                     d.timestamp, d.data, d.offsets, d.block)
         /\ [d EXCEPT !.set = x]
              = Made(d.number, x, d.flags, d.tcgplayerId, d.cardmarketId, d.colors, d.colorIdentity,
                     d.timestamp, d.data, d.offsets, d.block)
         /\ [d EXCEPT !.flags = x]
              = Made(d.number, d.set, x, d.tcgplayerId, d.cardmarketId, d.colors, d.colorIdentity,
                     d.timestamp, d.data, d.offsets, d.block)
         /\ [d EXCEPT !.tcgplayerId = x]
              = Made(d.number, d.set, d.flags, x, d.cardmarketId, d.colors, d.colorIdentity,
                     d.timestamp, d.data, d.offsets, d.block)
         /\ [d EXCEPT !.cardmarketId = x]
              = Made(d.number, d.set, d.flags, d.tcgplayerId, x, d.colors, d.colorIdentity,
                     d.timestamp, d.data, d.offsets, d.block)
         /\ [d EXCEPT !.colors = x]
              = Made(d.number, d.set, d.flags, d.tcgplayerId, d.cardmarketId, x, d.colorIdentity,
                     d.timestamp, d.data, d.offsets, d.block)
         /\ [d EXCEPT !.colorIdentity = x]
              = Made(d.number, d.set, d.flags, d.tcgplayerId, d.cardmarketId, d.colors, x,
                     d.timestamp, d.data, d.offsets, d.block)
         /\ [d EXCEPT !.timestamp = x]
              = Made(d.number, d.set, d.flags, d.tcgplayerId, d.cardmarketId, d.colors,
                     d.colorIdentity, x, d.data, d.offsets, d.block)
         /\ [d EXCEPT !.data = x]
              = Made(d.number, d.set, d.flags, d.tcgplayerId, d.cardmarketId, d.colors,
                     d.colorIdentity, d.timestamp, x, d.offsets, d.block)
         /\ [d EXCEPT !.offsets = x]
              = Made(d.number, d.set, d.flags, d.tcgplayerId, d.cardmarketId, d.colors,
                     d.colorIdentity, d.timestamp, d.data, x, d.block)
<1>1. d = Made(d.number, d.set, d.flags, d.tcgplayerId, d.cardmarketId, d.colors,
               d.colorIdentity, d.timestamp, d.data, d.offsets, d.block)
  BY CardIsMade
<1>2. [d EXCEPT !.number = x]
        = Made(x, d.set, d.flags, d.tcgplayerId, d.cardmarketId, d.colors, d.colorIdentity,
               d.timestamp, d.data, d.offsets, d.block)
  BY SMTT(60) DEF Made, CardFields
<1>3. [d EXCEPT !.set = x]
        = Made(d.number, x, d.flags, d.tcgplayerId, d.cardmarketId, d.colors, d.colorIdentity,
               d.timestamp, d.data, d.offsets, d.block)
  BY SMTT(60) DEF Made, CardFields
<1>4. [d EXCEPT !.flags = x]
        = Made(d.number, d.set, x, d.tcgplayerId, d.cardmarketId, d.colors, d.colorIdentity,
               d.timestamp, d.data, d.offsets, d.block)
  BY SMTT(60) DEF Made, CardFields
<1>5. [d EXCEPT !.tcgplayerId = x]
        = Made(d.number, d.set, d.flags, x, d.cardmarketId, d.colors, d.colorIdentity, d.timestamp,
               d.data, d.offsets, d.block)
  BY SMTT(60) DEF Made, CardFields
<1>6. [d EXCEPT !.cardmarketId = x]
        = Made(d.number, d.set, d.flags, d.tcgplayerId, x, d.colors, d.colorIdentity, d.timestamp,
               d.data, d.offsets, d.block)
  BY SMTT(60) DEF Made, CardFields
<1>7. [d EXCEPT !.colors = x]
        = Made(d.number, d.set, d.flags, d.tcgplayerId, d.cardmarketId, x, d.colorIdentity,
               d.timestamp, d.data, d.offsets, d.block)
  BY SMTT(60) DEF Made, CardFields
<1>8. [d EXCEPT !.colorIdentity = x]
        = Made(d.number, d.set, d.flags, d.tcgplayerId, d.cardmarketId, d.colors, x, d.timestamp,
               d.data, d.offsets, d.block)
  BY SMTT(60) DEF Made, CardFields
<1>9. [d EXCEPT !.timestamp = x]
        = Made(d.number, d.set, d.flags, d.tcgplayerId, d.cardmarketId, d.colors, d.colorIdentity,
               x, d.data, d.offsets, d.block)
  BY SMTT(60) DEF Made, CardFields
<1>10. [d EXCEPT !.data = x]
         = Made(d.number, d.set, d.flags, d.tcgplayerId, d.cardmarketId, d.colors, d.colorIdentity,
                d.timestamp, x, d.offsets, d.block)
  BY SMTT(60) DEF Made, CardFields
<1>11. [d EXCEPT !.offsets = x]
         = Made(d.number, d.set, d.flags, d.tcgplayerId, d.cardmarketId, d.colors, d.colorIdentity,
                d.timestamp, d.data, x, d.block)
  BY SMTT(60) DEF Made, CardFields
<1> QED
  BY <1>2, <1>3, <1>4, <1>5, <1>6, <1>7, <1>8, <1>9, <1>10, <1>11

LEMMA RecordIsRead ==
  ASSUME NEW c, Storable(c), Len(StringEntries) < 2^31, Len(c.data) < 2^31
  PROVE  \E w : Deserialize(Serialized(c)) = Reading(Loaded(c), w, <<>>)
<1> DEFINE none == [i \in StringIndex |-> NoOffset]
           offsets == WithStrings(c, c, Len(StringEntries)).offsets
           time == WriteUint64(c.timestamp)
           b9 == ColorBytes(c, time)
           b7 == IdBytes(c, b9)
           b5 == FlagBytes(c, b7)
           b4 == StringBytes(c, b5)
           b3 == DataBytes(c, b4)
           d0 == Made({}, <<>>, {}, {}, {}, {}, {}, {}, <<>>, none, 0)
           d1 == Made(c.number, <<>>, {}, {}, {}, {}, {}, {}, <<>>, none, 0)
           d2 == Made(c.number, c.set, {}, {}, {}, {}, {}, {}, <<>>, none, 0)
           d3 == Made(c.number, c.set, {}, {}, {}, {}, {}, {}, c.data, none, 0)
           d4 == Made(c.number, c.set, {}, {}, {}, {}, {}, {}, c.data, offsets, 0)
           d5 == Made(c.number, c.set, c.flags, {}, {}, {}, {}, {}, c.data, offsets, 0)
           d6 == Made(c.number, c.set, c.flags, c.tcgplayerId, {}, {}, {}, {}, c.data, offsets, 0)
           d7 == Made(c.number, c.set, c.flags, c.tcgplayerId, c.cardmarketId, {}, {}, {}, c.data,
                      offsets, 0)
           d8 == Made(c.number, c.set, c.flags, c.tcgplayerId, c.cardmarketId, {}, c.colorIdentity,
                      {}, c.data, offsets, 0)
           d9 == Made(c.number, c.set, c.flags, c.tcgplayerId, c.cardmarketId, c.colors,
                      c.colorIdentity, {}, c.data, offsets, 0)
           d10 == Made(c.number, c.set, c.flags, c.tcgplayerId, c.cardmarketId, c.colors,
                       c.colorIdentity, c.timestamp, c.data, offsets, 0)
<1>1. /\ c \in CardFields
      /\ c.set \in Seq(Byte \ {NUL}) /\ Len(c.set) < MaxSet
      /\ \A i \in Used(c) : c.offsets[i] < Len(c.data)
  BY DEF Storable
<1>2. /\ ~(TcgplayerId \subseteq c.flags)   => c.tcgplayerId = {}
      /\ ~(CardmarketId \subseteq c.flags)  => c.cardmarketId = {}
      /\ ~(Colors \subseteq c.flags)        => c.colors = {}
      /\ ~(ColorIdentity \subseteq c.flags) => c.colorIdentity = {}
  BY DEF Storable
<1>3. c.number \in Word /\ c.data \in Bytes
  BY <1>1 DEF CardFields, Bytes
<1>4. time \in Bytes
  BY <1>1, PiecesAreBytes
<1>5. b9 \in Bytes
  BY <1>1, <1>4, OptionalsAreBytes
<1>6. b7 \in Bytes
  BY <1>1, <1>5, OptionalsAreBytes
<1>7. b5 \in Bytes
  BY <1>1, <1>6, OptionalsAreBytes
<1>8. b4 \in Bytes
  BY <1>1, <1>7, StringsAreBytes
<1>9. b3 \in Bytes
  BY <1>1, <1>8, StringsAreBytes
<1>10. WriteString(c.set) \o b3 \in Bytes
  BY <1>1, <1>9, PiecesAreBytes, ConcatProperties DEF Bytes
<1>11. d0 = NewCard
  BY DEF Made, NewCard
<1>11a. /\ {} \in Word /\ {} \in Byte /\ {} \in Word64 /\ <<>> \in Seq(Byte)
        /\ {} \in SUBSET (0..5) /\ 0 \in Nat
        /\ none \in [StringIndex -> Nat \cup {NoOffset}]
  BY DEF Word, Byte, Word64, Width
<1>11b. offsets \in [StringIndex -> Nat \cup {NoOffset}]
  <2> DEFINE passed == [j \in StringIndex |->
               IF j \in Used(c) /\ j \in filter /\ j <= Len(StringEntries)
               THEN c.offsets[j] ELSE NoOffset]
  <2>1. WithStrings(c, c, Len(StringEntries)) = [c EXCEPT !.offsets = passed]
    BY DEF WithStrings
  <2>2. passed \in [StringIndex -> Nat \cup {NoOffset}]
    BY <1>1 DEF CardFields, Used
  <2> HIDE DEF passed
  <2> QED
    BY <1>1, <2>1, <2>2 DEF CardFields
<1>11c. /\ c.set \in Seq(Byte) /\ c.data \in Seq(Byte) /\ c.number \in Word
        /\ c.flags \in SUBSET (0..5) /\ c.tcgplayerId \in Word /\ c.cardmarketId \in Word
        /\ c.colors \in Byte /\ c.colorIdentity \in Byte
  BY <1>1 DEF CardFields
<1>d0. /\ d0 \in CardFields
       /\ d0.number = {} /\ d0.set = <<>> /\ d0.flags = {}
       /\ d0.tcgplayerId = {} /\ d0.cardmarketId = {} /\ d0.colors = {}
       /\ d0.colorIdentity = {} /\ d0.timestamp = {} /\ d0.data = <<>>
       /\ d0.offsets = none /\ d0.block = 0
  <2>1. d0 = Made({}, <<>>, {}, {}, {}, {}, {}, {}, <<>>, none, 0)
    OBVIOUS
  <2> HIDE DEF d0, none, offsets
  <2> QED
    BY <1>11a, <1>11b, <1>11c, <2>1 DEF Made, CardFields
<1>d1. /\ d1 \in CardFields
       /\ d1.number = c.number /\ d1.set = <<>> /\ d1.flags = {}
       /\ d1.tcgplayerId = {} /\ d1.cardmarketId = {} /\ d1.colors = {}
       /\ d1.colorIdentity = {} /\ d1.timestamp = {} /\ d1.data = <<>>
       /\ d1.offsets = none /\ d1.block = 0
  <2>1. d1 = Made(c.number, <<>>, {}, {}, {}, {}, {}, {}, <<>>, none, 0)
    OBVIOUS
  <2> HIDE DEF d1, none, offsets
  <2> QED
    BY <1>11a, <1>11b, <1>11c, <2>1 DEF Made, CardFields
<1>d2. /\ d2 \in CardFields
       /\ d2.number = c.number /\ d2.set = c.set /\ d2.flags = {}
       /\ d2.tcgplayerId = {} /\ d2.cardmarketId = {} /\ d2.colors = {}
       /\ d2.colorIdentity = {} /\ d2.timestamp = {} /\ d2.data = <<>>
       /\ d2.offsets = none /\ d2.block = 0
  <2>1. d2 = Made(c.number, c.set, {}, {}, {}, {}, {}, {}, <<>>, none, 0)
    OBVIOUS
  <2> HIDE DEF d2, none, offsets
  <2> QED
    BY <1>11a, <1>11b, <1>11c, <2>1 DEF Made, CardFields
<1>d3. /\ d3 \in CardFields
       /\ d3.number = c.number /\ d3.set = c.set /\ d3.flags = {}
       /\ d3.tcgplayerId = {} /\ d3.cardmarketId = {} /\ d3.colors = {}
       /\ d3.colorIdentity = {} /\ d3.timestamp = {} /\ d3.data = c.data
       /\ d3.offsets = none /\ d3.block = 0
  <2>1. d3 = Made(c.number, c.set, {}, {}, {}, {}, {}, {}, c.data, none, 0)
    OBVIOUS
  <2> HIDE DEF d3, none, offsets
  <2> QED
    BY <1>11a, <1>11b, <1>11c, <2>1 DEF Made, CardFields
<1>d4. /\ d4 \in CardFields
       /\ d4.number = c.number /\ d4.set = c.set /\ d4.flags = {}
       /\ d4.tcgplayerId = {} /\ d4.cardmarketId = {} /\ d4.colors = {}
       /\ d4.colorIdentity = {} /\ d4.timestamp = {} /\ d4.data = c.data
       /\ d4.offsets = offsets /\ d4.block = 0
  <2>1. d4 = Made(c.number, c.set, {}, {}, {}, {}, {}, {}, c.data, offsets, 0)
    OBVIOUS
  <2> HIDE DEF d4, none, offsets
  <2> QED
    BY <1>11a, <1>11b, <1>11c, <2>1 DEF Made, CardFields
<1>d5. /\ d5 \in CardFields
       /\ d5.number = c.number /\ d5.set = c.set /\ d5.flags = c.flags
       /\ d5.tcgplayerId = {} /\ d5.cardmarketId = {} /\ d5.colors = {}
       /\ d5.colorIdentity = {} /\ d5.timestamp = {} /\ d5.data = c.data
       /\ d5.offsets = offsets /\ d5.block = 0
  <2>1. d5 = Made(c.number, c.set, c.flags, {}, {}, {}, {}, {}, c.data, offsets, 0)
    OBVIOUS
  <2> HIDE DEF d5, none, offsets
  <2> QED
    BY <1>11a, <1>11b, <1>11c, <2>1 DEF Made, CardFields
<1>d6. /\ d6 \in CardFields
       /\ d6.number = c.number /\ d6.set = c.set /\ d6.flags = c.flags
       /\ d6.tcgplayerId = c.tcgplayerId /\ d6.cardmarketId = {} /\ d6.colors = {}
       /\ d6.colorIdentity = {} /\ d6.timestamp = {} /\ d6.data = c.data
       /\ d6.offsets = offsets /\ d6.block = 0
  <2>1. d6 = Made(c.number, c.set, c.flags, c.tcgplayerId, {}, {}, {}, {}, c.data, offsets, 0)
    OBVIOUS
  <2> HIDE DEF d6, none, offsets
  <2> QED
    BY <1>11a, <1>11b, <1>11c, <2>1 DEF Made, CardFields
<1>d7. /\ d7 \in CardFields
       /\ d7.number = c.number /\ d7.set = c.set /\ d7.flags = c.flags
       /\ d7.tcgplayerId = c.tcgplayerId /\ d7.cardmarketId = c.cardmarketId /\ d7.colors = {}
       /\ d7.colorIdentity = {} /\ d7.timestamp = {} /\ d7.data = c.data
       /\ d7.offsets = offsets /\ d7.block = 0
  <2>1. d7 = Made(c.number, c.set, c.flags, c.tcgplayerId, c.cardmarketId, {}, {}, {}, c.data,
                      offsets, 0)
    OBVIOUS
  <2> HIDE DEF d7, none, offsets
  <2> QED
    BY <1>11a, <1>11b, <1>11c, <2>1 DEF Made, CardFields
<1>d8. /\ d8 \in CardFields
       /\ d8.number = c.number /\ d8.set = c.set /\ d8.flags = c.flags
       /\ d8.tcgplayerId = c.tcgplayerId /\ d8.cardmarketId = c.cardmarketId /\ d8.colors = {}
       /\ d8.colorIdentity = c.colorIdentity /\ d8.timestamp = {} /\ d8.data = c.data
       /\ d8.offsets = offsets /\ d8.block = 0
  <2>1. d8 = Made(c.number, c.set, c.flags, c.tcgplayerId, c.cardmarketId, {}, c.colorIdentity,
                      {}, c.data, offsets, 0)
    OBVIOUS
  <2> HIDE DEF d8, none, offsets
  <2> QED
    BY <1>11a, <1>11b, <1>11c, <2>1 DEF Made, CardFields
<1>d9. /\ d9 \in CardFields
       /\ d9.number = c.number /\ d9.set = c.set /\ d9.flags = c.flags
       /\ d9.tcgplayerId = c.tcgplayerId /\ d9.cardmarketId = c.cardmarketId /\ d9.colors = c.colors
       /\ d9.colorIdentity = c.colorIdentity /\ d9.timestamp = {} /\ d9.data = c.data
       /\ d9.offsets = offsets /\ d9.block = 0
  <2>1. d9 = Made(c.number, c.set, c.flags, c.tcgplayerId, c.cardmarketId, c.colors,
                      c.colorIdentity, {}, c.data, offsets, 0)
    OBVIOUS
  <2> HIDE DEF d9, none, offsets
  <2> QED
    BY <1>11a, <1>11b, <1>11c, <2>1 DEF Made, CardFields
<1>12a. d1 = [d0 EXCEPT !.number = c.number]
  <2> HIDE DEF d0, none, offsets
  <2>1. [d0 EXCEPT !.number = c.number]
          = Made(c.number, d0.set, d0.flags, d0.tcgplayerId, d0.cardmarketId, d0.colors,
                 d0.colorIdentity, d0.timestamp, d0.data, d0.offsets, d0.block)
    BY <1>d0, Updates
  <2> QED
    BY <1>d0, <2>1
<1>12b. d2 = [d1 EXCEPT !.set = c.set]
  <2> HIDE DEF d1, none, offsets
  <2>1. [d1 EXCEPT !.set = c.set]
          = Made(d1.number, c.set, d1.flags, d1.tcgplayerId, d1.cardmarketId, d1.colors,
                 d1.colorIdentity, d1.timestamp, d1.data, d1.offsets, d1.block)
    BY <1>d1, Updates
  <2> QED
    BY <1>d1, <2>1
<1>12c. d3 = [d2 EXCEPT !.data = c.data]
  <2> HIDE DEF d2, none, offsets
  <2>1. [d2 EXCEPT !.data = c.data]
          = Made(d2.number, d2.set, d2.flags, d2.tcgplayerId, d2.cardmarketId, d2.colors,
                 d2.colorIdentity, d2.timestamp, c.data, d2.offsets, d2.block)
    BY <1>d2, Updates
  <2> QED
    BY <1>d2, <2>1
<1>12d. d4 = [d3 EXCEPT !.offsets = offsets]
  <2> HIDE DEF d3, none, offsets
  <2>1. [d3 EXCEPT !.offsets = offsets]
          = Made(d3.number, d3.set, d3.flags, d3.tcgplayerId, d3.cardmarketId, d3.colors,
                 d3.colorIdentity, d3.timestamp, d3.data, offsets, d3.block)
    BY <1>d3, Updates
  <2> QED
    BY <1>d3, <2>1
<1>12e. d5 = [d4 EXCEPT !.flags = c.flags]
  <2> HIDE DEF d4, none, offsets
  <2>1. [d4 EXCEPT !.flags = c.flags]
          = Made(d4.number, d4.set, c.flags, d4.tcgplayerId, d4.cardmarketId, d4.colors,
                 d4.colorIdentity, d4.timestamp, d4.data, d4.offsets, d4.block)
    BY <1>d4, Updates
  <2> QED
    BY <1>d4, <2>1
<1>13a. d6 = [d5 EXCEPT !.tcgplayerId = c.tcgplayerId]
  <2> HIDE DEF d5, none, offsets
  <2>1. [d5 EXCEPT !.tcgplayerId = c.tcgplayerId]
          = Made(d5.number, d5.set, d5.flags, c.tcgplayerId, d5.cardmarketId, d5.colors,
                 d5.colorIdentity, d5.timestamp, d5.data, d5.offsets, d5.block)
    BY <1>d5, Updates
  <2> QED
    BY <1>d5, <2>1
<1>13b. d7 = [d6 EXCEPT !.cardmarketId = c.cardmarketId]
  <2> HIDE DEF d6, none, offsets
  <2>1. [d6 EXCEPT !.cardmarketId = c.cardmarketId]
          = Made(d6.number, d6.set, d6.flags, d6.tcgplayerId, c.cardmarketId, d6.colors,
                 d6.colorIdentity, d6.timestamp, d6.data, d6.offsets, d6.block)
    BY <1>d6, Updates
  <2> QED
    BY <1>d6, <2>1
<1>13c. d8 = [d7 EXCEPT !.colorIdentity = c.colorIdentity]
  <2> HIDE DEF d7, none, offsets
  <2>1. [d7 EXCEPT !.colorIdentity = c.colorIdentity]
          = Made(d7.number, d7.set, d7.flags, d7.tcgplayerId, d7.cardmarketId, d7.colors,
                 c.colorIdentity, d7.timestamp, d7.data, d7.offsets, d7.block)
    BY <1>d7, Updates
  <2> QED
    BY <1>d7, <2>1
<1>13d. d9 = [d8 EXCEPT !.colors = c.colors]
  <2> HIDE DEF d8, none, offsets
  <2>1. [d8 EXCEPT !.colors = c.colors]
          = Made(d8.number, d8.set, d8.flags, d8.tcgplayerId, d8.cardmarketId, c.colors,
                 d8.colorIdentity, d8.timestamp, d8.data, d8.offsets, d8.block)
    BY <1>d8, Updates
  <2> QED
    BY <1>d8, <2>1
<1>13e. d10 = [d9 EXCEPT !.timestamp = c.timestamp]
  <2> HIDE DEF d9, none, offsets
  <2>1. [d9 EXCEPT !.timestamp = c.timestamp]
          = Made(d9.number, d9.set, d9.flags, d9.tcgplayerId, d9.cardmarketId, d9.colors,
                 d9.colorIdentity, c.timestamp, d9.data, d9.offsets, d9.block)
    BY <1>d9, Updates
  <2> QED
    BY <1>d9, <2>1
<1>14. /\ c.tcgplayerId = {} => d6 = d5
       /\ c.cardmarketId = {} => d7 = d6
       /\ c.colorIdentity = {} => d8 = d7
       /\ c.colors = {} => d9 = d8
  OBVIOUS
<1>15. d5.flags = c.flags /\ d6.flags = c.flags /\ d7.flags = c.flags /\ d8.flags = c.flags
  BY DEF Made
<1>16. d3 \in CardFields /\ d3.data = c.data /\ d3.offsets = none
  BY <1>d3
<1>17. WithStrings(d3, c, Len(StringEntries)) = d4
  <2> DEFINE passed == [j \in StringIndex |->
               IF j \in Used(c) /\ j \in filter /\ j <= Len(StringEntries)
               THEN c.offsets[j] ELSE NoOffset]
  <2>1. /\ WithStrings(c, c, Len(StringEntries)) = [c EXCEPT !.offsets = passed]
        /\ WithStrings(d3, c, Len(StringEntries)) = [d3 EXCEPT !.offsets = passed]
    BY DEF WithStrings
  <2> HIDE DEF passed, d3, d4
  <2>2. [c EXCEPT !.offsets = passed].offsets = passed
    BY <1>1 DEF CardFields
  <2>3. offsets = passed
    BY <2>1, <2>2
  <2> QED
    BY <1>12d, <2>1, <2>3
<1>18. Loaded(c) = d10
  BY <1>1, CardIsMade
<1>19. Serialized(c) = HeadBytes(c, b3)
  BY <1>1, RecordOfCard
<1> HIDE DEF time, b9, b7, b5, b4, b3, d0, d1, d2, d3, d4, d5, d6, d7, d8, d9, d10, none, offsets
<1> DEFINE r0 == Reading(NewCard, {}, Serialized(c))
           r1 == ReadNumber(r0)
           r2 == ReadSet(r1)
           r3 == ReadData(r2)
           r4 == ReadStrings(r3)
           r5 == ReadFlags(r4)
           r7 == ReadIds(r5)
           r9 == ReadColors(r7)
<1>20. Deserialize(Serialized(c)) = ReadTimestamp(r9)
  BY DEF Deserialize, Reading
<1>21. r1 = Reading(d1, c.number, WriteString(c.set) \o b3)
  BY <1>3, <1>10, <1>11, <1>12a, <1>19, NumberIsRead DEF HeadBytes
<1> HIDE DEF r1
<1>22. r2 = Reading(d2, c.set, b3)
  BY <1>1, <1>9, <1>12b, <1>21, SetIsRead
<1> HIDE DEF r2
<1>23. r3 = Reading(d3, c.data, b4)
  BY <1>3, <1>8, <1>12c, <1>22, DataIsRead DEF DataBytes, b3
<1> HIDE DEF r3
<1>24. \E w : r4 = Reading(d4, w, b5)
  <2>1. \A i \in StringIndex : d3.offsets = [j \in StringIndex |-> NoOffset]
    BY <1>16 DEF none
  <2>2. d3.offsets = [j \in StringIndex |-> NoOffset]
    BY <1>16 DEF none
  <2>3. \E w : ReadStrings(Reading(d3, c.data, WriteVarSizeUint32(Bits(Cardinality(Used(c))))
                                                 \o (FlattenSeq(WriteOffsets(c)) \o b5)))
               = Reading(WithStrings(d3, c, Len(StringEntries)), w, b5)
    BY <1>1, <1>7, <1>16, <2>2, OffsetsAreRead
  <2> QED
    BY <1>17, <1>23, <2>3 DEF StringBytes, b4
<1> HIDE DEF r4
<1>25. \E w : r5 = Reading(d5, w, b7)
  <2>1. PICK w : r4 = Reading(d4, w, b5)
    BY <1>24
  <2>2. r5 = Reading(d5, c.flags, b7)
    BY <1>1, <1>6, <1>12e, <2>1, FlagsAreRead DEF b5
  <2> QED
    BY <2>2
<1> HIDE DEF r5
<1>26. \E w : r7 = Reading(d7, w, b9)
  <2> DEFINE more == OptionalBytes(c, CardmarketId, WriteVarSizeUint32(c.cardmarketId)) \o b9
             r6 == ReadTcgplayerId(r5)
  <2>1. PICK w : r5 = Reading(d5, w, b7)
    BY <1>25
  <2>2. more \in Bytes
    BY <1>1, <1>5, PiecesAreBytes, OptionalFlattens, ConcatProperties DEF Bytes
  <2> HIDE DEF more
  <2>3. b7 = OptionalBytes(c, TcgplayerId, WriteVarSizeUint32(c.tcgplayerId)) \o more
    BY DEF b7, IdBytes, more
  <2>4. (TcgplayerId \subseteq c.flags => d6 = WithTcgplayerId(d5, c.tcgplayerId))
        /\ (~(TcgplayerId \subseteq c.flags) => d6 = d5)
    BY <1>2, <1>13a, <1>14 DEF WithTcgplayerId
  <2>5. \E x : r6 = Reading(d6, x, more)
    <3>1. ReadsOn(ReadTcgplayerId(Reading(d5, w,
                                          OptionalBytes(c, TcgplayerId,
                                                        WriteVarSizeUint32(c.tcgplayerId))
                                                          \o more)), d6, more)
      BY <1>1, <1>15, <2>2, <2>4, TcgplayerIdIsRead
    <3> QED
      BY <2>1, <2>3, <3>1 DEF ReadsOn
  <2>6. PICK x : r6 = Reading(d6, x, more)
    BY <2>5
  <2> HIDE DEF r6
  <2>7. (CardmarketId \subseteq c.flags => d7 = WithCardmarketId(d6, c.cardmarketId))
        /\ (~(CardmarketId \subseteq c.flags) => d7 = d6)
    BY <1>2, <1>13b, <1>14 DEF WithCardmarketId
  <2>8. \E y : ReadCardmarketId(r6) = Reading(d7, y, b9)
    <3>1. ReadsOn(ReadCardmarketId(Reading(d6, x,
                                           OptionalBytes(c, CardmarketId,
                                                         WriteVarSizeUint32(c.cardmarketId))
                                                           \o b9)), d7, b9)
      BY <1>1, <1>15, <1>5, <2>7, CardmarketIdIsRead
    <3> QED
      BY <2>6, <3>1 DEF ReadsOn, more
  <2> QED
    BY <2>8 DEF ReadIds, r6
<1> HIDE DEF r7
<1>27. \E w : r9 = Reading(d9, w, time)
  <2> DEFINE more == OptionalBytes(c, Colors, WriteUint8(c.colors)) \o time
             r8 == ReadIdentity(r7)
  <2>1. PICK w : r7 = Reading(d7, w, b9)
    BY <1>26
  <2>2. more \in Bytes
    BY <1>1, <1>4, PiecesAreBytes, OptionalFlattens, ConcatProperties DEF Bytes
  <2> HIDE DEF more
  <2>3. b9 = OptionalBytes(c, ColorIdentity, WriteUint8(c.colorIdentity)) \o more
    BY DEF b9, ColorBytes, more
  <2>4. (ColorIdentity \subseteq c.flags => d8 = WithColorIdentity(d7, c.colorIdentity))
        /\ (~(ColorIdentity \subseteq c.flags) => d8 = d7)
    BY <1>2, <1>13c, <1>14 DEF WithColorIdentity
  <2>5. \E x : r8 = Reading(d8, x, more)
    <3>1. ReadsOn(ReadIdentity(Reading(d7, w,
                                       OptionalBytes(c, ColorIdentity, WriteUint8(c.colorIdentity))
                                         \o more)), d8, more)
      BY <1>1, <1>15, <2>2, <2>4, IdentityIsRead
    <3> QED
      BY <2>1, <2>3, <3>1 DEF ReadsOn
  <2>6. PICK x : r8 = Reading(d8, x, more)
    BY <2>5
  <2> HIDE DEF r8
  <2>7. (Colors \subseteq c.flags => d9 = WithColors(d8, c.colors))
        /\ (~(Colors \subseteq c.flags) => d9 = d8)
    BY <1>2, <1>13d, <1>14 DEF WithColors
  <2>8. \E y : ReadOwnColors(r8) = Reading(d9, y, time)
    <3>1. ReadsOn(ReadOwnColors(Reading(d8, x, OptionalBytes(c, Colors, WriteUint8(c.colors))
                                        \o time)), d9, time)
      BY <1>1, <1>15, <1>4, <2>7, ColorsAreRead
    <3> QED
      BY <2>6, <3>1 DEF ReadsOn, more
  <2> QED
    BY <2>8 DEF ReadColors, r8
<1> HIDE DEF r9
<1>28. PICK w : r9 = Reading(d9, w, time)
  BY <1>27
<1>29. ReadTimestamp(r9) = Reading(d10, c.timestamp, <<>>)
  BY <1>1, <1>13e, <1>28, TimestampIsRead DEF time
<1> QED
  BY <1>18, <1>20, <1>29
=============================================================================
