------------------------------ MODULE CardData ------------------------------
(***************************************************************************)
(* One card and its data (sfc_card.c): parsed from a response, asked for   *)
(* its strings, written to a file and read back by a later program, under  *)
(* a string filter the application may change in between.                  *)
(*                                                                         *)
(* The response is the sequence of the values the tokenizer (jsmn.h) finds *)
(* in the JSON object, in order: a value of the object itself, or a member *)
(* of an object inside it, which object names.  The strings of a card      *)
(* point into the text of the response, kept here as the bytes of the      *)
(* values with a mark before and behind each, for keys and punctuation.    *)
(***************************************************************************)
EXTENDS CollectorNumber, Codec, Buffer

CONSTANTS
  Responses,      \* what Scryfall may send
  StringEntries,  \* g_sfc_card_string_entries: [object, key] in enum order
  Filters,        \* what the application may set as string filter
  Times,          \* values of time(NULL)
  NoOffset        \* UINT32_MAX as the offset of a string that is not there

StringIndex == DOMAIN StringEntries

\* No string has the name of a value that is parsed as something else.
RootKeys == {"set", "object", "collector_number", "tcgplayer_id", "cardmarket_id"}

ASSUME EntriesAssumption ==
  /\ StringEntries \in Seq([object: STRING, key: STRING])
  /\ IsInjective(StringEntries)
  /\ \A i \in StringIndex : StringEntries[i].object = "" => StringEntries[i].key \notin RootKeys

\* What the tokenizer gives of a value.  Arrays are looked at in the object
\* itself only, and an object where a string is expected in an object inside it
\* only; the values of the root keys are strings or numbers.
IsValue(v) ==
  /\ v.type \in {"STRING", "ARRAY", "NESTED"}
  /\ v.type = "NESTED" => v.object # ""
  /\ v.text \in Seq(Byte \ {NUL})
  /\ v.type = "ARRAY" =>
       /\ v.object = "" /\ v.key \notin RootKeys
       /\ \A i \in StringIndex : StringEntries[i] # [object |-> "", key |-> v.key]
  /\ v.object = "" /\ v.key \in {"colors", "color_identity"} => v.type = "ARRAY"
  /\ v.object = "" /\ v.key = "collector_number" => v.value \in Text
  /\ v.object = "" /\ v.key \in {"tcgplayer_id", "cardmarket_id"} => v.value \in Word

ASSUME ResponsesAssumption ==
  \A r \in Responses :
    /\ r.shape \in {"empty", "not_object", "unparsable", "object"}
    /\ Len(r.values) \in Nat /\ DOMAIN r.values = 1..Len(r.values)
    /\ \A n \in DOMAIN r.values : IsValue(r.values[n])
ASSUME FiltersAssumption == Filters \subseteq SUBSET StringIndex
ASSUME TimesAssumption   == \A t \in Times : t \in Word64
ASSUME NoOffsetAssumption == NoOffset \notin Nat

VARIABLES
  filter,   \* string_filter of the cache, as the indexes that pass
  card,     \* the card object, or NoCard
  file,     \* the record of the card in the saved file, <<>> for none
  returned, \* what sfc_card_parse_json or sfc_cache_load returned last
  origin,   \* the response and the time of the parse
  kept      \* the strings of the card, and of the file, that every filter on
            \* their way has let pass

vars == <<filter, card, file, returned, origin, kept>>

-----------------------------------------------------------------------------
(* State. *)

\* Bits of sfc_card_data.flags and of the colors.
IsCard        == {0}
TcgplayerId   == {1}
CardmarketId  == {2}
IsShrunk      == {3}
Colors        == {4}
ColorIdentity == {5}

MaxSet == 5  \* SFC_MAX_SET
NoCard == [number |-> "no card"]

CardFields ==
  [number: Word, set: Seq(Byte), flags: SUBSET (0..5), tcgplayerId: Word, cardmarketId: Word,
   colors: Byte, colorIdentity: Byte, timestamp: Word64, data: Seq(Byte),
   offsets: [StringIndex -> Nat \cup {NoOffset}], block: Nat]

\* sfc_card_create.  The block is the allocation that string_data points to.
NewCard ==
  [number |-> {}, set |-> <<>>, flags |-> {}, tcgplayerId |-> {}, cardmarketId |-> {},
   colors |-> {}, colorIdentity |-> {}, timestamp |-> {}, data |-> <<>>,
   offsets |-> [i \in StringIndex |-> NoOffset], block |-> 0]

\* The C string at an offset of the string data.
StringAt(data, offset) ==
  LET end == Min({k \in DOMAIN data : k > offset /\ data[k] = NUL})
  IN  SubSeq(data, offset + 1, end - 1)

\* sfc_card_get_string.
GetString(c, i) ==
  IF c.offsets[i] # NoOffset /\ c.offsets[i] < Len(c.data)
  THEN StringAt(c.data, c.offsets[i]) ELSE <<>>

-----------------------------------------------------------------------------
(* sfc_card_parse_json. *)

\* The text of the first n values of response r, and where value n starts.
Mark         == {1, 5}
Chunks(r, n) == [k \in 1..n |-> <<Mark>> \o r.values[k].text \o <<Mark>>]
TextOf(r, n) == FlattenSeq(Chunks(r, n))
Start(r, n)  == Len(TextOf(r, n - 1)) + 1

\* What sfc_curl_poll hands over of what sfc_curl_write_function has appended.
Received(r) ==
  LET detached == Detached(Collected(Chunks(r, Len(r.values))))
  IN  SubSeq(detached.data, 1, detached.size)

With(c)    == [code |-> "OK", card |-> c]
Ends(code) == [code |-> code]

\* The string a value of the response gives, by its name and that of the object
\* it is in, if the filter lets it pass.
StringOf(v, passing) ==
  {i \in passing : StringEntries[i] = [object |-> v.object, key |-> v.key]}

\* Its offset is kept, and it gets a NUL where it has its closing quote.
\* (Mutant: no NUL.)
PointToUnterminated(c, r, n) ==
  [c EXCEPT !.offsets = [i \in StringIndex |->
     IF i \in StringOf(r.values[n], filter) THEN Start(r, n) ELSE @[i]]]

PointTo(c, r, n) ==
  LET strings == StringOf(r.values[n], filter)
  IN  IF strings = {} THEN c
      ELSE [c EXCEPT !.offsets = [i \in StringIndex |-> IF i \in strings THEN Start(r, n) ELSE @[i]],
                     !.data[Len(TextOf(r, n))] = NUL]

\* SFC_CARD_COLOR_*; other letters have no flag.
ColorFlag(letter) ==
  CASE letter = "W" -> {0} [] letter = "B" -> {1} [] letter = "U" -> {2}
    [] letter = "R" -> {3} [] letter = "G" -> {4} [] OTHER -> {}
ColorFlags(letters) == UNION {ColorFlag(l) : l \in letters}

\* "object" says what the response is; an error ends the parse at once.
\* (Mutant: it does not.)
SetObjectGoOn(c, kind) == With(IF kind = "card" THEN [c EXCEPT !.flags = @ \cup IsCard] ELSE c)
SetObject(c, kind) ==
  CASE kind = "card"  -> With([c EXCEPT !.flags = @ \cup IsCard])
    [] kind = "error" -> Ends("NOT_FOUND")
    [] OTHER          -> With(c)

SetNumber(c, text) ==
  LET number == NumberFromString(text)
  IN  IF number.code = "OK" THEN With([c EXCEPT !.number = number.packed]) ELSE number

SetSet(c, code) ==
  IF Len(code) >= MaxSet THEN Ends("JSON_SET_TOO_LONG") ELSE With([c EXCEPT !.set = code])

ParseArray(c, v) ==
  CASE v.key = "colors" ->
         [c EXCEPT !.flags = @ \cup Colors, !.colors = @ \cup ColorFlags(v.value)]
    [] v.key = "color_identity" ->
         [c EXCEPT !.flags = @ \cup ColorIdentity, !.colorIdentity = @ \cup ColorFlags(v.value)]
    [] OTHER -> c

ParseRoot(c, r, n) ==
  LET v == r.values[n]
  IN  CASE v.key = "set"              -> SetSet(c, v.text)
        [] v.key = "object"           -> SetObject(c, v.value)
        [] v.key = "collector_number" -> SetNumber(c, v.value)
        [] v.key = "tcgplayer_id"     ->
             With([c EXCEPT !.flags = @ \cup TcgplayerId, !.tcgplayerId = v.value])
        [] v.key = "cardmarket_id"    ->
             With([c EXCEPT !.flags = @ \cup CardmarketId, !.cardmarketId = v.value])
        [] OTHER                      -> With(PointTo(c, r, n))

\* What value n of response r does to card c, or the code it ends the parse
\* with.  The objects with strings in them must hold nothing but strings, and
\* so must the arrays of colors; other objects and arrays are skipped.
ParseValue(c, r, n) ==
  LET v == r.values[n]
  IN  CASE v.type = "NESTED" -> Ends("JSON_RESPONSE_ERROR")
        [] v.type = "ARRAY"  -> With(ParseArray(c, v))
        [] v.type = "STRING" /\ v.object = ""  -> ParseRoot(c, r, n)
        [] v.type = "STRING" /\ v.object # "" -> With(PointTo(c, r, n))

\* The values in order, up to the first that ends the parse.
ParseValues(r, now) ==
  LET parsed[n \in 0..Len(r.values)] ==
        IF n = 0 THEN With([NewCard EXCEPT !.timestamp = now, !.data = Received(r)])
        ELSE IF parsed[n - 1].code = "OK" THEN ParseValue(parsed[n - 1].card, r, n)
        ELSE parsed[n - 1]
  IN  parsed[Len(r.values)]

\* A card has a set and a collector number, and 0 is none.
Complete(c) ==
  IF c.set = <<>> THEN Ends("JSON_NO_SET")
  ELSE IF c.number = {} THEN Ends("JSON_NO_COLLECTOR_NUMBER") ELSE With(c)

ParseJson(r, now) ==
  LET parsed == ParseValues(r, now)
  IN  CASE r.shape \in {"empty", "not_object"} -> Ends("JSON_RESPONSE_ERROR")
        [] r.shape = "unparsable"              -> Ends("JSON_PARSE_ERROR")
        [] r.shape = "object"                  ->
             IF parsed.code = "OK" THEN Complete(parsed.card) ELSE parsed

-----------------------------------------------------------------------------
(* sfc_card_serialize. *)

Used(c) == {i \in StringIndex : c.offsets[i] # NoOffset}
Shrunk(c) == IsShrunk \subseteq c.flags

\* The strings in use, each with its NUL, those of the strings before i.
Packed(c, i) ==
  FlattenSeq([k \in 1..(i - 1) |->
    IF k \in Used(c) THEN WriteString(StringAt(c.data, c.offsets[k])) ELSE <<>>])

\* The strings one behind the other, in a new block.  (Mutant: the flag that this
\* was done is not set.)
CompactedUnmarked(c) ==
  [c EXCEPT !.data = Packed(c, Len(StringEntries) + 1), !.block = @ + 1,
            !.offsets = [i \in StringIndex |-> IF i \in Used(c) THEN Len(Packed(c, i)) ELSE NoOffset]]
Compacted(c) ==
  [c EXCEPT !.data = Packed(c, Len(StringEntries) + 1), !.block = @ + 1,
            !.offsets = [i \in StringIndex |-> IF i \in Used(c) THEN Len(Packed(c, i)) ELSE NoOffset],
            !.flags = @ \cup IsShrunk]

\* sfc_card_shrink_string_data, once in the life of a card: a later program
\* loads it with its flag.
Shrink(c) == IF Shrunk(c) THEN c ELSE Compacted(c)

\* A field that is there only with its flag.
Optional(c, flag, bytes) == IF flag \subseteq c.flags THEN <<bytes>> ELSE <<>>

WriteOffsets(c) ==
  FlattenSeq([i \in StringIndex |->
    IF i \in Used(c)
    THEN <<WriteVarSizeUint32(Bits(i - 1)), WriteVarSizeUint32(Bits(c.offsets[i]))>>
    ELSE <<>>])

\* The writes to the buffer, in order, and what it holds after them.
Writes(c) ==
  <<WriteVarSizeUint32(c.number), WriteString(c.set), WriteVarSizeUint32(Bits(Len(c.data))),
    c.data, WriteVarSizeUint32(Bits(Cardinality(Used(c))))>>
    \o WriteOffsets(c)
    \o <<WriteUint32(c.flags)>>
    \o Optional(c, TcgplayerId, WriteVarSizeUint32(c.tcgplayerId))
    \o Optional(c, CardmarketId, WriteVarSizeUint32(c.cardmarketId))
    \o Optional(c, ColorIdentity, WriteUint8(c.colorIdentity))
    \o Optional(c, Colors, WriteUint8(c.colors))
    \o <<WriteUint64(c.timestamp)>>

Serialized(c) == Contents(Collected(Writes(c)))

-----------------------------------------------------------------------------
(* sfc_card_deserialize: a chain of reads that the first failure ends. *)

\* One read: the value that Take finds goes into the card.
Read(r, Take(_), Store(_, _)) ==
  IF r.code # "OK" THEN r
  ELSE LET t == Take(r.rest)
       IN  IF t.code # "OK" THEN t
           ELSE [code |-> "OK", card |-> Store(r.card, t.value), value |-> t.value, rest |-> t.rest]

Look(c, v) == c
ReadUint32(r) == Read(r, TakeVarSizeUint32, Look)
Check(r, Test(_)) ==
  IF r.code # "OK" \/ Test(Value(r.value)) THEN r ELSE Failed("OUT_OF_BOUNDS")
ReadOptional(r, flag, Take(_), Store(_, _)) ==
  IF r.code = "OK" /\ flag \subseteq r.card.flags THEN Read(r, Take, Store) ELSE r

\* An index and an offset; the filter decides whether the string is kept.
\* (Mutant: it does not.)
StoreOffsetUnfiltered(c, i, offset) == [c EXCEPT !.offsets[i] = offset]
StoreOffset(c, i, offset) == IF i \in filter THEN [c EXCEPT !.offsets[i] = offset] ELSE c

ReadIndex(r) == Check(ReadUint32(r), LAMBDA v : v < Len(StringEntries))
ReadOffset(r) ==
  LET index == ReadIndex(r)
      Store(c, v) == StoreOffset(c, Value(index.value) + 1, Value(v))
  IN  Check(Read(index, TakeVarSizeUint32, Store), LAMBDA v : v < Len(r.card.data))

ReadOffsets(r) ==
  IF r.code # "OK" THEN r
  ELSE LET read[n \in 0..Value(r.value)] == IF n = 0 THEN r ELSE ReadOffset(read[n - 1])
       IN  read[Value(r.value)]

\* The optional fields.
ReadTcgplayerId(r) ==
  ReadOptional(r, TcgplayerId, TakeVarSizeUint32, LAMBDA c, v : [c EXCEPT !.tcgplayerId = v])
ReadCardmarketId(r) ==
  ReadOptional(r, CardmarketId, TakeVarSizeUint32, LAMBDA c, v : [c EXCEPT !.cardmarketId = v])
ReadIdentity(r) ==
  ReadOptional(r, ColorIdentity, TakeUint8, LAMBDA c, v : [c EXCEPT !.colorIdentity = v])
ReadOwnColors(r) ==
  ReadOptional(r, Colors, TakeUint8, LAMBDA c, v : [c EXCEPT !.colors = v])

\* The colors and the color identity come in the order they were written in.
\* (Mutant: the other way round.)
ReadColorsSwapped(r) == ReadIdentity(ReadOwnColors(r))
ReadColors(r)        == ReadOwnColors(ReadIdentity(r))

ReadNumber(r) == Read(r, TakeVarSizeUint32, LAMBDA c, v : [c EXCEPT !.number = v])
ReadSet(r)    == Read(r, LAMBDA b : TakeString(b, MaxSet), LAMBDA c, v : [c EXCEPT !.set = v])
ReadData(r)   ==
  LET size == ReadUint32(r)
  IN  Read(size, LAMBDA b : TakeBuffer(b, Value(size.value)), LAMBDA c, v : [c EXCEPT !.data = v])
ReadStrings(r) == ReadOffsets(ReadUint32(r))
ReadFlags(r)   == Read(r, TakeUint32, LAMBDA c, v : [c EXCEPT !.flags = v])
ReadIds(r)     == ReadCardmarketId(ReadTcgplayerId(r))
ReadTimestamp(r) == Read(r, TakeUint64, LAMBDA c, v : [c EXCEPT !.timestamp = v])

Deserialize(bytes) ==
  LET start   == [code |-> "OK", card |-> NewCard, value |-> {}, rest |-> bytes]
      strings == ReadStrings(ReadData(ReadSet(ReadNumber(start))))
  IN  ReadTimestamp(ReadColors(ReadIds(ReadFlags(strings))))

-----------------------------------------------------------------------------
(* The life of the card. *)

Init ==
  /\ filter = StringIndex
  /\ card = NoCard
  /\ file = <<>>
  /\ returned = "none"
  /\ origin \in [response: Responses, now: Times]
  /\ kept = [card |-> {}, file |-> {}]

\* sfc_cache_set_string_filter.
SetFilter(f) ==
  /\ filter' = f
  /\ UNCHANGED <<card, file, returned, origin, kept>>

\* sfc_query_update_parse_result: the response is there, the card is new.
Parse ==
  /\ returned = "none"
  /\ LET parsed == ParseJson(origin.response, origin.now)
     IN  /\ returned' = parsed.code
         /\ card' = IF parsed.code = "OK" THEN parsed.card ELSE NoCard
  /\ kept' = [kept EXCEPT !.card = filter]
  /\ UNCHANGED <<filter, file, origin>>

\* sfc_cache_save, the part of this card.
Save ==
  /\ card # NoCard
  /\ card' = Shrink(card)
  /\ file' = WriteBuffer(Serialized(Shrink(card)))
  /\ kept' = [kept EXCEPT !.file = kept.card]
  /\ UNCHANGED <<filter, returned, origin>>

\* The cache is cleared or the program ends.
Forget ==
  /\ card # NoCard
  /\ card' = NoCard
  /\ UNCHANGED <<filter, file, returned, origin, kept>>

\* sfc_cache_load, the part of this card.
Load ==
  /\ file # <<>>
  /\ card = NoCard
  /\ LET record == ReadBuffer(file)
         loaded == Deserialize(record.value)
     IN  /\ returned' = IF record.code = "OK" THEN loaded.code ELSE record.code
         /\ card' = IF returned' = "OK" THEN loaded.card ELSE NoCard
  /\ kept' = [kept EXCEPT !.card = kept.file \cap filter]
  /\ UNCHANGED <<filter, file, origin>>

Next ==
  \/ \E f \in Filters : SetFilter(f)
  \/ Parse \/ Save \/ Forget \/ Load

Spec == Init /\ [][Next]_vars

-----------------------------------------------------------------------------
(* What the response says, for the properties. *)

Response == origin.response

\* The values it has under a name, and the last of them.
Said(object, key) ==
  {n \in DOMAIN Response.values :
     Response.values[n].object = object /\ Response.values[n].key = key}
LastSaid(object, key) == Response.values[Max(Said(object, key))]
SaidOr(key, default) == IF Said("", key) = {} THEN default ELSE LastSaid("", key).value
SaidFlag(key, flag)  == IF Said("", key) = {} THEN {} ELSE flag

\* All of them: what is said twice adds up for flags and colors, where otherwise
\* the last value counts.
AllSaid(key)    == {Response.values[n].value : n \in Said("", key)}
SaidColors(key) == UNION {ColorFlags(letters) : letters \in AllSaid(key)}

SaidString(i) ==
  LET e == StringEntries[i]
  IN  IF Said(e.object, e.key) = {} THEN <<>> ELSE LastSaid(e.object, e.key).text

\* The JSON that Scryfall sends says first what kind of object it is; a parser
\* that meets that behind a value it rejects reports the value.
ObjectFirst ==
  \A r \in Responses : \A n \in DOMAIN r.values :
    r.values[n].object = "" /\ r.values[n].key = "object" => n = 1

\* No text is longer than limit, and all the strings of a card with their offsets
\* stay below the 16 MiB that the frame of a record can say.
TextsFit(limit) ==
  /\ \A r \in Responses : \A n \in DOMAIN r.values : Len(r.values[n].text) <= limit
  /\ Len(StringEntries) * (limit + 11) + 44 < 2^24

(* Properties. *)

\* Every variable has its type, and a string of the card ends inside its data
\* (sfc_card.c:233, strlen).
TypeOK ==
  /\ filter \subseteq StringIndex
  /\ card \in CardFields \cup {NoCard}
  /\ card # NoCard => \A i \in Used(card) :
       \E k \in DOMAIN card.data : k > card.offsets[i] /\ card.data[k] = NUL
  /\ file \in Seq(Byte)
  /\ kept \in [card: SUBSET StringIndex, file: SUBSET StringIndex]

\* Each string of the card reads as in the response when every filter on its
\* way let it pass, and as the empty string otherwise, wherever the data has
\* been moved to (sfc_card.c:236, 580, 686).
StringsRight ==
  card # NoCard =>
    \A i \in StringIndex :
      GetString(card, i) = IF i \in kept.card THEN SaidString(i) ELSE <<>>

\* Everything else of the card is what the response says, after any number of
\* saves and loads too; only IsShrunk is the card's own.
CardRight ==
  card # NoCard =>
    /\ card.set = LastSaid("", "set").text
    /\ card.number = Pack(LastSaid("", "collector_number").value)
    /\ card.flags \ IsShrunk =
         (IF "card" \in AllSaid("object") THEN IsCard ELSE {})
           \cup SaidFlag("tcgplayer_id", TcgplayerId)
           \cup SaidFlag("cardmarket_id", CardmarketId)
           \cup SaidFlag("colors", Colors) \cup SaidFlag("color_identity", ColorIdentity)
    /\ card.tcgplayerId   = SaidOr("tcgplayer_id", {})
    /\ card.cardmarketId  = SaidOr("cardmarket_id", {})
    /\ card.colors        = SaidColors("colors")
    /\ card.colorIdentity = SaidColors("color_identity")
    /\ card.timestamp     = origin.now

\* A record that ends early, anywhere, is not read from the file, and is
\* refused when its frame was damaged with it and its bytes do get read
\* (sfc_file.c:33, sfc_deserializer.c:22).
CutRejected ==
  \A n \in 0..(Len(file) - 1) :
    /\ ReadBuffer(SubSeq(file, 1, n)).code = "FILE_READ_ERROR"
    /\ n >= 4 => Deserialize(SubSeq(file, 5, n)).code # "OK"

\* The whole record is read: a card that was parsed and saved is never lost in
\* loading it, wherever the buffers of its response and of its record have
\* grown (sfc_buffer.c:50).
LoadsBack == file # <<>> => returned = "OK"

\* A number that fits the fields of sfc_collector_number.h prints back as the
\* text it was read from, but for the zeros in front of it: "007" is printed as
\* "7", and a text without digits with a 0.
NumberKept ==
  LET text == LastSaid("", "collector_number").value
  IN  card # NoCard /\ Fits(text)
        => NumberToString(card.number) = [code |-> "OK", text |-> AsPrinted(text)]

\* So does every number that is accepted: test_collector_number reads back what
\* it parsed and has a number that is out of bounds refused (test.c:978, 984).
NumberPrintsBack ==
  LET text == LastSaid("", "collector_number").value
  IN  card # NoCard => NumberToString(card.number) = [code |-> "OK", text |-> AsPrinted(text)]

\* "Not found" is what the query remembers a URL as bad for: it comes of a
\* response that says error, and of nothing else that may be wrong with one.
NotFoundSaid ==
  returned = "NOT_FOUND" <=>
    /\ returned # "none"
    /\ Response.shape = "object"
    /\ SaidOr("object", "none") = "error"

\* The string data of a card moves in its first save only.  Once there is a file
\* of it, neither another save nor a save after any number of loads moves or
\* changes it: a pointer sfc_card_get_string gave out after the first save, or
\* for a card that was loaded, is good as long as the card is (sfc_card.c:244).
StringsMoveOnce ==
  [][card # NoCard /\ card' # NoCard /\ file # <<>>
       => card'.block = card.block /\ card'.data = card.data /\ card'.offsets = card.offsets]_vars
=============================================================================
