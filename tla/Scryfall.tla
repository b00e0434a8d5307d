------------------------------ MODULE Scryfall ------------------------------
(***************************************************************************)
(* The vocabulary of the cache: card keys, request URLs, response bodies,  *)
(* and the Scryfall server, which is outside the repository and known here *)
(* only through the requests sfc_query.c sends and the answers             *)
(* sfc_card_parse_json understands.                                        *)
(***************************************************************************)
EXTENDS Naturals

CONSTANTS
  Sets,       \* set codes; strings of at most SFC_MAX_SET - 1 characters
  Ids,        \* cardmarket ids that occur
  Catalog,    \* the keys of the cards Scryfall has
  IdOf(_),    \* the cardmarket id of a card, 0 when its flag is not set
  Serves(_)   \* the cards the server may answer a URL with, {} for a 404

(***************************************************************************)
(* sfc_card_key.  The packed collector number has a 12-bit number, a 3-bit *)
(* version (0 for "12", 1 for "12a", ...) and the World Championship and   *)
(* cross fields, kept here as a mark: "plain" when all of these are zero,  *)
(* "marked" when some are set, "unprintable" when a prefix code is not a   *)
(* letter and sfc_collector_number_to_string refuses the number.           *)
(***************************************************************************)
Mark == {"plain", "marked", "unprintable"}
Key  == [set: Sets, num: Nat, ver: Nat, mark: Mark]

\* The key a set walk stands at: SFC_COLLECTOR_NUMBER_MAKE(num, ver).
PlainKey(s, n, v) == [set |-> s, num |-> n, ver |-> v, mark |-> "plain"]

Printable(k) == k.mark # "unprintable"

\* The two forms of http_get_url, and its value before it is first written.
KeyUrl(k) == [kind |-> "key", key |-> k]
IdUrl(i)  == [kind |-> "id", id |-> i]
NoUrl     == [kind |-> "none"]

Url == [kind: {"key"}, key: Key] \cup [kind: {"id"}, id: Ids]

\* Response bodies, by what sfc_card_parse_json makes of them.  NoBody is a
\* transfer that left no data: a transport error or a status other than
\* 200 and 404.
CardBody(k)  == [kind |-> "card", key |-> k]
NotFoundBody == [kind |-> "not_found"]
GarbageBody  == [kind |-> "garbage"]
NoBody       == [kind |-> "none"]

Body == [kind: {"card"}, key: Catalog] \cup {NotFoundBody, GarbageBody, NoBody}

\* The result code of sfc_card_parse_json for each body; NoBody is size 0.
ParseJson(b) ==
  CASE b.kind = "card"      -> "OK"
    [] b.kind = "not_found" -> "NOT_FOUND"
    [] b.kind = "garbage"   -> "JSON_PARSE_ERROR"
    [] OTHER                -> "JSON_RESPONSE_ERROR"

\* The cards the server has for a URL, and what it sends for it when the
\* network does not interfere.
CardsAt(u)      == Serves(u) \cap Catalog
ServerBodies(u) ==
  IF CardsAt(u) = {} THEN {NotFoundBody} ELSE {CardBody(k) : k \in CardsAt(u)}

(***************************************************************************)
(* Assumptions.  KeysFit says that every position a walk can reach fits    *)
(* the 12-bit and 3-bit fields, so that comparing packed numbers compares  *)
(* (num, ver) pairs.                                                       *)
(***************************************************************************)
ASSUME IdsAssumption     == Ids \subseteq Nat \ {0}
ASSUME CatalogAssumption == \A k \in Catalog : k \in Key /\ Printable(k)
ASSUME KeysFit           == \A k \in Catalog : k.num < 4095 /\ k.ver < 7
ASSUME IdOfAssumption    == \A k \in Catalog : IdOf(k) \in Ids \cup {0}

(***************************************************************************)
(* Conditions the code relies on without checking them; the properties     *)
(* that need them name them.                                               *)
(***************************************************************************)

\* A key's URL is answered with that card exactly when Scryfall has it, and an
\* id's URL with a card of that id, if there is one.
HonestAbout(keys) ==
  /\ \A k \in keys : CardsAt(KeyUrl(k)) = {k} \cap Catalog
  /\ \A i \in Ids :
       LET owners == {k \in Catalog : IdOf(k) = i}
       IN  CardsAt(IdUrl(i)) \subseteq owners /\ (CardsAt(IdUrl(i)) = {} => owners = {})

ServerHonest == HonestAbout(Key)

\* The set walk of sfc_query.c sees every card of a set: numbers have no gap,
\* a number has either a plain card or versions from "a" on, never both, and
\* no card carries a prefix, sideboard or cross flag.
Enumerable ==
  \A k \in Catalog :
    /\ k.mark = "plain"
    /\ \A n \in 1..k.num : \E v \in {0, 1} : PlainKey(k.set, n, v) \in Catalog
    /\ \A v \in 1..k.ver : PlainKey(k.set, k.num, v) \in Catalog
    /\ k.ver > 0 => PlainKey(k.set, k.num, 0) \notin Catalog
    /\ k.num > 0
=============================================================================
