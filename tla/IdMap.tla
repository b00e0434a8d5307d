------------------------------- MODULE IdMap -------------------------------
(***************************************************************************)
(* What the map from cardmarket ids to cards is to the cache: a function.  *)
(* A set that fails may lose entries, of any keys, and changes no other.   *)
(***************************************************************************)
CONSTANTS Keys, Cards, NoCard

VARIABLES
  lookup,   \* the card found under each key, or NoCard
  result    \* of the last set

Init ==
  /\ lookup = [k \in Keys |-> NoCard]
  /\ result = "OK"

Set ==
  /\ \E k \in Keys, c \in Cards : lookup' = [lookup EXCEPT ![k] = c]
  /\ result' = "OK"

SetFails ==
  /\ lookup' \in [Keys -> Cards \cup {NoCard}]
  /\ \A k \in Keys : lookup'[k] \in {lookup[k], NoCard}
  /\ result' = "INTERNAL_ERROR"

Clear ==
  /\ lookup' = [k \in Keys |-> NoCard]
  /\ UNCHANGED result

Next == Set \/ SetFails \/ Clear

Spec == Init /\ [][Next]_<<lookup, result>>
=============================================================================
