---------------------------- MODULE MCQueryWait ----------------------------
(***************************************************************************)
(* Instances of QueryWait for TLC, on the catalogs of MCSfcCache.          *)
(***************************************************************************)
EXTENDS QueryWait

P(s, n, v) == PlainKey(s, n, v)

MCSets  == {"test"}
MCIds   == {5}
OneCard == {P("test", 1, 0)}

MCIdOf(k)   == IF k.num = 1 THEN 5 ELSE 0
MCServes(u) ==
  CASE u.kind = "key" -> {u.key}
    [] u.kind = "id"  -> {k \in Catalog : IdOf(k) = u.id}
    [] OTHER          -> {}

OneSet == {SetTarget("test")}
=============================================================================
