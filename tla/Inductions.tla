----------------------------- MODULE Inductions -----------------------------
(***************************************************************************)
(* Induction over the natural numbers, stated about a set instead of a     *)
(* predicate, so that the proofs about recursive functions can use it: the *)
(* set of numbers for which a claim holds is all of Nat.                   *)
(***************************************************************************)
EXTENDS Integers, WellFoundedInduction, TLAPS

LEMMA LeastNumber ==
  ASSUME NEW T, T \subseteq Nat, T # {}
  PROVE  \E m \in T : \A k \in T : ~(k < m)
<1> DEFINE R == OpToRel(<, Nat)
<1>1. IsWellFoundedOn(R, Nat)
  BY NatLessThanWellFounded
<1>2. \A x, y \in Nat : x < y => <<x, y>> \in R
  BY DEF OpToRel
<1> HIDE DEF R
<1>3. PICK m \in T : \A k \in T : <<k, m>> \notin R
  BY <1>1, WFMin
<1> QED
  BY <1>2, <1>3

\* A set that holds 0 and the successor of each number it holds has every number.
THEOREM InductionOnNat ==
  ASSUME NEW T, 0 \in T, \A n \in Nat : n \in T => n + 1 \in T
  PROVE  Nat \subseteq T
<1> SUFFICES ASSUME NEW n \in Nat, n \notin T PROVE FALSE
  OBVIOUS
<1> DEFINE Rest == {k \in Nat : k \notin T}
<1>1. PICK m \in Rest : \A k \in Rest : ~(k < m)
  BY LeastNumber
<1>2. m - 1 \in Nat /\ m - 1 \in T
  BY <1>1
<1> QED
  BY <1>1, <1>2

\* The same up to a bound.
THEOREM InductionUpTo ==
  ASSUME NEW m \in Nat, NEW T, 0 \in T, \A n \in 0..(m - 1) : n \in T => n + 1 \in T
  PROVE  0..m \subseteq T
<1> DEFINE U == {n \in Nat : n <= m => n \in T}
<1>1. 0 \in U
  OBVIOUS
<1>2. ASSUME NEW n \in Nat, n \in U PROVE n + 1 \in U
  BY <1>2
<1>3. Nat \subseteq U
  <2> HIDE DEF U
  <2> QED
    BY <1>1, <1>2, InductionOnNat
<1> QED
  BY <1>3
=============================================================================
