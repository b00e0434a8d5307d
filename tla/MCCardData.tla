----------------------------- MODULE MCCardData -----------------------------
(***************************************************************************)
(* Instances of CardData for TLC: three of the strings, of the card, of an *)
(* object in it and of another, and responses of three kinds: cards that   *)
(* differ in their strings and optional values, cards that differ in their *)
(* number, and responses that are no card.                                 *)
(***************************************************************************)
EXTENDS CardData

MCStringEntries ==
  <<[object |-> "", key |-> "name"], [object |-> "image_uris", key |-> "small"],
    [object |-> "prices", key |-> "usd"]>>

a == {0, 5, 6}
b == {1, 5, 6}

String(object, key, text) ==
  [object |-> object, key |-> key, type |-> "STRING", text |-> text, value |-> text]
Said1(key, value) == [String("", key, <<a>>) EXCEPT !.value = value]
Letters(key, letters) ==
  [object |-> "", key |-> key, type |-> "ARRAY", text |-> <<>>, value |-> letters]
Nested(object) == [String(object, "standard", <<>>) EXCEPT !.type = "NESTED"]

Plain == [prefix |-> <<>>, digits |-> <<1, 2>>, version |-> 0, sb |-> FALSE, cross |-> FALSE,
          odd |-> FALSE]

Object(values) == [shape |-> "object", values |-> values]
IsA(kind)      == <<Said1("object", kind)>>
In(code, text) == <<String("", "set", code), Said1("collector_number", text)>>

\* A value or nothing; each of a set of ways to continue.
Maybe(v) == {<<>>, <<v>>}

WithStrings ==
  {Object(IsA("card") \o name \o In(<<a, b>>, Plain) \o ids \o small \o colors \o usd) :
     name   \in {<<>>, <<String("", "name", <<a, b>>)>>, <<String("", "name", <<>>)>>,
                 <<String("", "name", <<a>>), String("", "small", <<b, b>>)>>},
     ids    \in {<<>>, <<Said1("tcgplayer_id", {0, 6, 7, 31})>>,
                 <<Said1("cardmarket_id", {7})>>,
                 <<Said1("cardmarket_id", {}), Said1("tcgplayer_id", {1})>>},
     small  \in Maybe(String("image_uris", "small", <<b, a, a>>)),
     colors \in {<<>>, <<Letters("colors", {"W", "G"})>>, <<Letters("color_identity", {"U", "B"})>>,
                 <<Letters("colors", {"R"}), Letters("color_identity", {}), Letters("keywords", {"W"})>>,
                 <<Letters("colors", {"R"}), Letters("colors", {"B"})>>},
     usd    \in Maybe(String("prices", "usd", <<b>>))}

MCTexts ==
  [prefix: {<<>>, <<26>>, <<1, 2, 3>>, <<1, 2, 3, 4>>, <<1, 1, 1, 1, 1>>},
   digits: {<<>>, <<0>>, <<0, 0, 7>>, <<1, 0>>, <<4, 0, 9, 5>>, <<0, 4, 0, 9, 6>>},
   version: {0, 1, 7, 8, 26}, sb: BOOLEAN, cross: BOOLEAN, odd: {FALSE}] \cap Text

WithNumbers ==
  {Object(IsA("card") \o In(<<a>>, text)) : text \in MCTexts \cup {[Plain EXCEPT !.odd = TRUE]}}

NoCards ==
  {Object(IsA("error") \o <<String("", "details", <<a>>)>>),
   Object(IsA("error") \o In(<<a>>, Plain)),
   Object(IsA("card") \o In(<<a, a, a, a, a>>, Plain)),
   Object(IsA("card") \o In(<<a, a, a, a>>, Plain)),
   Object(IsA("set") \o In(<<a>>, Plain)),
   Object(IsA("card") \o In(<<>>, Plain)),
   Object(IsA("card") \o <<String("", "set", <<a>>)>>),
   Object(In(<<a>>, Plain) \o <<Nested("legalities")>>),
   Object(<<>>)}
  \cup {[shape |-> s, values |-> <<>>] : s \in {"empty", "unparsable", "not_object"}}

MCResponses == WithStrings \cup WithNumbers \cup NoCards
MCFilters   == {{}, {1, 2, 3}, {1, 3}, {2}}
MCTimes     == {{0, 31, 35}}

\* What the proofs about CardData rely on holds of these responses.
ASSUME ResponsesAreRegular == ObjectFirst /\ TextsFit(8)
=============================================================================
