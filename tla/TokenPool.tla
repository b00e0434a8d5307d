----------------------------- MODULE TokenPool -----------------------------
(***************************************************************************)
(* What the rate limiter is to a query, with no word about time: a pool of *)
(* at most Size tokens that fills at some moments and gives tokens away    *)
(* one at a time.  SfcCache draws its tokens from such a pool.             *)
(***************************************************************************)
EXTENDS Naturals

CONSTANT Size

VARIABLE tokens

Init   == tokens \in 0..Size
Refill == tokens' \in (tokens + 1)..Size
Take   == tokens > 0 /\ tokens' = tokens - 1
Next   == Refill \/ Take
Spec   == Init /\ [][Next]_tokens
=============================================================================
