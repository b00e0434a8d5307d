----------------------------- MODULE MCSfcCache -----------------------------
(***************************************************************************)
(* Instances of SfcCache for TLC.  The catalogs and what the applications  *)
(* of the runs ask for are small: plain numbers and a number with versions *)
(* in one set, as in the set "test" of test.c.                             *)
(***************************************************************************)
EXTENDS SfcCache

P(s, n, v) == PlainKey(s, n, v)

MCSets == {"test"}
MCIds  == {5}

\* 1a and 2: enumerable, the shortest walk that takes every turn.
TestCatalog == {P("test", 1, 1), P("test", 2, 0)}
OneCard     == {P("test", 1, 0)}

\* A set the walk does not see all of: there is no 2.
GapCatalog == {P("test", 1, 0), P("test", 3, 0)}

MCIdOf(k) == IF k.num = 1 THEN 5 ELSE 0

HonestServes(u) ==
  CASE u.kind = "key" -> {u.key}
    [] u.kind = "id"  -> {k \in Catalog : IdOf(k) = u.id}
    [] OTHER          -> {}

\* A server that answers for "2a" of "test" with "3b", a card of another version,
\* and for "1" with "1a".
AliasServes(u) ==
  CASE u = KeyUrl(P("test", 2, 1)) -> {P("test", 3, 2)}
    [] u = KeyUrl(P("test", 1, 0)) -> {P("test", 1, 1)}
    [] OTHER                       -> HonestServes(u)
AliasCatalog == {P("test", 3, 1), P("test", 3, 2), P("test", 1, 1)}

\* What is asked for.
SetAndCards ==
  {SetTarget("test"), KeyTarget(P("test", 1, 1)), KeyTarget(P("test", 1, 0)), IdTarget(5)}
SetOrCard == {SetTarget("test"), IdTarget(5)}
AliasTargets ==
  {KeyTarget(P("test", 2, 1)), KeyTarget(P("test", 1, 0)), KeyTarget(P("test", 3, 2)),
   KeyTarget([P("test", 1, 0) EXCEPT !.mark = "unprintable"])}

\* The runs that rely on an honest server and an enumerable catalog have them,
\* for the keys they can meet.
NearKeys == {P(s, n, v) : s \in MCSets, n \in 1..4, v \in 0..4}
ASSUME HonestInstance ==
  Catalog \in {TestCatalog, OneCard} => HonestAbout(NearKeys) /\ Enumerable

Perms == Permutations(Query)
=============================================================================
