---------------------------- MODULE QueryService ----------------------------
(***************************************************************************)
(* What the cache promises the application, with no word about requests,   *)
(* walks or the store: a query that is asked is pending, is answered once, *)
(* its answer stays until the application lets go of it, and an answer is  *)
(* right about Scryfall's catalog.                                         *)
(***************************************************************************)
EXTENDS Scryfall, Sequences, Functions

CONSTANTS Query, Targets

VARIABLES
  phase,   \* "none", "pending" or "answered"
  target,  \* what the query asks for
  answer   \* its result code and the keys of its result cards, in order

vars == <<phase, target, answer>>

NoTarget == [type |-> "NONE"]
NoAnswer == [code |-> "NONE", keys |-> <<>>]

\* The cards a target is about.
Wanted(t) ==
  CASE t.type = "CARDMARKET_ID" -> {k \in Catalog : IdOf(k) = t.id}
    [] t.type = "CARD_KEY"      -> {t.key} \cap Catalog
    [] t.type = "SET"           -> {k \in Catalog : k.set = t.set}

\* OK brings one wanted card, or every card of the set once; NOT_FOUND is said
\* only of a card that does not exist; any other code may come with some of the
\* wanted cards (a walk that was cut short), never with others.
Right(t, a) ==
  /\ Range(a.keys) \subseteq Wanted(t)
  /\ IsInjective(a.keys)
  /\ a.code = "OK" => IF t.type = "SET" THEN Range(a.keys) = Wanted(t)
                                        ELSE Len(a.keys) = 1
  /\ a.code = "NOT_FOUND" => Wanted(t) = {} /\ t.type # "SET"
  /\ a.code # "NONE"

Init ==
  /\ phase  = [q \in Query |-> "none"]
  /\ target = [q \in Query |-> NoTarget]
  /\ answer = [q \in Query |-> NoAnswer]

Ask(q) ==
  /\ phase[q] = "none"
  /\ phase' = [phase EXCEPT ![q] = "pending"]
  /\ \E t \in Targets : target' = [target EXCEPT ![q] = t]
  /\ UNCHANGED answer

Answer(q) ==
  /\ phase[q] = "pending"
  /\ phase' = [phase EXCEPT ![q] = "answered"]
  /\ Right(target[q], answer'[q])
  /\ answer' = [answer EXCEPT ![q] = answer'[q]]
  /\ UNCHANGED target

Release(q) ==
  /\ phase[q] = "answered"
  /\ phase'  = [phase EXCEPT ![q] = "none"]
  /\ target' = [target EXCEPT ![q] = NoTarget]
  /\ answer' = [answer EXCEPT ![q] = NoAnswer]

\* The application gives up all its queries with the cache; none is pending.
ReleaseAll ==
  /\ \A q \in Query : phase[q] # "pending"
  /\ phase'  = [q \in Query |-> "none"]
  /\ target' = [q \in Query |-> NoTarget]
  /\ answer' = [q \in Query |-> NoAnswer]

Next ==
  \/ \E q \in Query : Ask(q) \/ Answer(q) \/ Release(q)
  \/ ReleaseAll

Spec == Init /\ [][Next]_vars
=============================================================================
