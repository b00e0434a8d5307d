--------------------------- MODULE CardDataProofs ---------------------------
(***************************************************************************)
(* Proofs about the life of a card (CardData), for all responses, string   *)
(* tables, filters and sizes of texts: what the parse makes of a response, *)
(* that moving the strings together and saving and loading the card keep   *)
(* what the response says, and that a record which was cut is refused.     *)
(* They rest on the lemmas of DataProofs.                                  *)
(***************************************************************************)
EXTENDS DataProofs

-----------------------------------------------------------------------------
(* sfc_card_parse_json, value by value. *)

Named(v, object, key) == v.object = object /\ v.key = key

\* The values of the first n of a response that have a name.
Before(r, n, object, key) == {m \in 1..n : Named(r.values[m], object, key)}

LEMMA ResponseIs ==
  ASSUME NEW r \in Responses
  PROVE  /\ Len(r.values) \in Nat /\ DOMAIN r.values = 1..Len(r.values)
         /\ \A n \in 1..Len(r.values) : IsValue(r.values[n])
BY ResponsesAssumption

LEMMA LastOfBefore ==
  ASSUME NEW r, NEW n \in Nat, NEW object, NEW key
  PROVE  /\ Before(r, 0, object, key) = {}
         /\ Named(r.values[n + 1], object, key)
              => /\ Before(r, n + 1, object, key) # {}
                 /\ Max(Before(r, n + 1, object, key)) = n + 1
         /\ ~Named(r.values[n + 1], object, key)
              => Before(r, n + 1, object, key) = Before(r, n, object, key)
<1>1. Before(r, 0, object, key) = {}
  BY DEF Before
<1>2. ASSUME Named(r.values[n + 1], object, key)
      PROVE  /\ Before(r, n + 1, object, key) # {}
             /\ Max(Before(r, n + 1, object, key)) = n + 1
  <2> DEFINE B == Before(r, n + 1, object, key)
             m == n + 1
  <2>1. m \in B /\ B \subseteq Nat /\ \A k \in B : k <= m
    BY <1>2 DEF Before
  <2> HIDE DEF B, m
  <2>2. Max(B) \in B /\ \A k \in B : k <= Max(B)
    <3>1. \E x \in B : \A y \in B : x >= y
      BY <2>1
    <3> QED
      BY <3>1, <2>1 DEF Max
  <2>3. Max(B) = m
    <3> DEFINE x == Max(B)
    <3>1. x \in Nat /\ m \in Nat /\ x <= m /\ m <= x
      BY <2>1, <2>2
    <3> HIDE DEF x
    <3>2. x = m
      BY <3>1
    <3> QED
      BY <3>2 DEF x
  <2> QED
    BY <2>1, <2>3 DEF B, m
<1>3. ASSUME ~Named(r.values[n + 1], object, key)
      PROVE  Before(r, n + 1, object, key) = Before(r, n, object, key)
  BY <1>3 DEF Before
<1> QED
  BY <1>1, <1>2, <1>3

LEMMA BeforeHasLast ==
  ASSUME NEW r, NEW n \in Nat, NEW object, NEW key, Before(r, n, object, key) # {}
  PROVE  /\ Max(Before(r, n, object, key)) \in 1..n
         /\ Named(r.values[Max(Before(r, n, object, key))], object, key)
<1> DEFINE B == Before(r, n, object, key)
<1>1. B \subseteq 0..n /\ B # {}
  BY DEF Before
<1>2. Max(B) \in B
  <2> HIDE DEF B
  <2> QED
    BY <1>1, GreatestBit
<1> QED
  BY <1>2 DEF Before

\* The string a value gives is one of none, and no string of an array or of a
\* value with another meaning.
LEMMA StringsOfValues ==
  ASSUME NEW v, IsValue(v), filter \subseteq StringIndex
  PROVE  /\ StringOf(v, filter) \subseteq StringIndex
         /\ \A i \in StringIndex : i \in StringOf(v, filter)
              <=> i \in filter /\ Named(v, StringEntries[i].object, StringEntries[i].key)
         /\ v.type = "ARRAY" => StringOf(v, filter) = {}
         /\ v.object = "" /\ v.key \in RootKeys => StringOf(v, filter) = {}
<1>1. \A i \in StringIndex : StringEntries[i] \in [object: STRING, key: STRING]
  <2>1. StringIndex = 1..Len(StringEntries)
    BY EntriesAreASequence
  <2> QED
    BY <2>1, EntriesAssumption, ElementOfSeq
<1>2. ASSUME NEW i \in StringIndex
      PROVE  StringEntries[i] = [object |-> v.object, key |-> v.key]
               <=> Named(v, StringEntries[i].object, StringEntries[i].key)
  <2> DEFINE e == StringEntries[i]
  <2>1. e \in [object: STRING, key: STRING]
    BY <1>1
  <2> HIDE DEF e
  <2>2. e = [object |-> v.object, key |-> v.key] <=> Named(v, e.object, e.key)
    BY <2>1 DEF Named
  <2> QED
    BY <2>2 DEF e
<1>3. StringOf(v, filter) \subseteq StringIndex
  BY DEF StringOf
<1>4. \A i \in StringIndex : i \in StringOf(v, filter)
         <=> i \in filter /\ Named(v, StringEntries[i].object, StringEntries[i].key)
  BY <1>2 DEF StringOf
<1>5. v.type = "ARRAY" => StringOf(v, filter) = {}
  BY <1>3 DEF IsValue, StringOf
<1>6. v.object = "" /\ v.key \in RootKeys => StringOf(v, filter) = {}
  <2> SUFFICES ASSUME v.object = "", v.key \in RootKeys, NEW i \in StringOf(v, filter) PROVE FALSE
    OBVIOUS
  <2>1. i \in StringIndex /\ StringEntries[i].object = "" /\ StringEntries[i].key = v.key
    BY <1>3, <1>4 DEF Named
  <2> QED
    BY <2>1, EntriesAssumption
<1> QED
  BY <1>3, <1>4, <1>5, <1>6

\* The text of a response and where each value of it starts and ends.
LEMMA TextGrows ==
  ASSUME NEW r \in Responses, NEW n \in 1..Len(r.values)
  PROVE  /\ TextOf(r, n - 1) \in Bytes /\ TextOf(r, n) \in Bytes /\ TextOf(r, 0) = <<>>
         /\ r.values[n].text \in Seq(Byte \ {NUL})
         /\ TextOf(r, n) = TextOf(r, n - 1) \o (<<Mark>> \o r.values[n].text \o <<Mark>>)
         /\ Len(TextOf(r, n)) = Start(r, n) + Len(r.values[n].text) + 1
         /\ Start(r, n) = Len(TextOf(r, n - 1)) + 1
<1> DEFINE N == Len(r.values)
           text(k) == r.values[k].text
           chunk(k) == <<Mark>> \o text(k) \o <<Mark>>
           j == n - 1
<1>1. N \in Nat /\ \A k \in 1..N : text(k) \in Seq(Byte \ {NUL})
  BY ResponseIs DEF IsValue
<1>2. Mark \in Byte
  BY DEF Mark, Byte, Width
<1>3. ASSUME NEW k \in 1..N
      PROVE  chunk(k) \in Bytes /\ Len(chunk(k)) = Len(text(k)) + 2 /\ Len(text(k)) \in Nat
  <2> DEFINE t == text(k)
             mark == <<Mark>>
  <2>1. t \in Seq(Byte)
    <3>1. t \in Seq(Byte \ {NUL})
      BY <1>1
    <3> HIDE DEF t
    <3> QED
      BY <3>1
  <2>2. mark \in Seq(Byte) /\ Len(mark) = 1
    BY <1>2
  <2> HIDE DEF t, mark
  <2>3. mark \o t \in Seq(Byte) /\ Len(mark \o t) = 1 + Len(t) /\ Len(t) \in Nat
    BY <2>1, <2>2, ConcatProperties, LenProperties
  <2>4. (mark \o t) \o mark \in Seq(Byte) /\ Len((mark \o t) \o mark) = Len(mark \o t) + 1
    BY <2>2, <2>3, ConcatProperties
  <2> QED
    BY <2>3, <2>4 DEF t, mark, Bytes
<1>4. \A k \in 0..N : Chunks(r, k) \in Seq(Bytes) /\ Len(Chunks(r, k)) = k
  <2> SUFFICES ASSUME NEW k \in 0..N PROVE Chunks(r, k) \in Seq(Bytes) /\ Len(Chunks(r, k)) = k
    OBVIOUS
  <2> DEFINE f == [l \in 1..k |-> chunk(l)]
  <2>1. f \in [1..k -> Bytes] /\ k \in Nat
    BY <1>1, <1>3
  <2>2. Chunks(r, k) = f
    BY DEF Chunks
  <2> HIDE DEF f
  <2> QED
    BY <2>1, <2>2, FunctionIsSeq
<1>5. Chunks(r, n) = Chunks(r, j) \o <<chunk(n)>>
  <2> DEFINE s == Chunks(r, j)
             x == chunk(n)
  <2>1. j \in 0..N /\ n \in 0..N /\ j + 1 = n
    BY <1>1
  <2>2. s \in Seq(Bytes) /\ Len(s) = j /\ x \in Bytes
    BY <1>3, <1>4, <2>1
  <2>3. \A k \in 1..j : s[k] = chunk(k)
    BY DEF Chunks
  <2>4. Chunks(r, n) \in Seq(Bytes) /\ Len(Chunks(r, n)) = n
          /\ \A k \in 1..n : Chunks(r, n)[k] = chunk(k)
    BY <1>4, <2>1 DEF Chunks
  <2> HIDE DEF s, chunk, j
  <2>5. Append(s, x) \in Seq(Bytes) /\ Len(Append(s, x)) = n
    BY <2>1, <2>2, AppendProperties
  <2>6. \A k \in 1..n : Append(s, x)[k] = chunk(k)
    <3> SUFFICES ASSUME NEW k \in 1..n PROVE Append(s, x)[k] = chunk(k)
      OBVIOUS
    <3>1. CASE k = n
      BY <2>1, <2>2, <3>1, AppendProperties
    <3>2. CASE k # n
      <4>1. k \in 1..j
        BY <2>1, <3>2
      <4> QED
        BY <2>2, <2>3, <4>1, AppendProperties
    <3> QED
      BY <3>1, <3>2
  <2>7. Chunks(r, n) = Append(s, x)
    BY <2>4, <2>5, <2>6, SeqEqual
  <2>8. Append(s, x) = s \o <<x>>
    BY <2>2, AppendIsConcat
  <2> QED
    BY <2>7, <2>8 DEF s
<1>6. TextOf(r, n) = TextOf(r, j) \o chunk(n)
  <2> DEFINE s == Chunks(r, j)
             x == chunk(n)
             t == <<x>>
  <2>1. j \in 0..N
    BY <1>1
  <2>2. s \in Seq(Seq(Byte)) /\ x \in Seq(Byte)
    BY <1>3, <1>4, <2>1 DEF Bytes
  <2>2a. t \in Seq(Seq(Byte))
    <3> HIDE DEF x
    <3> QED
      BY <2>2
  <2>3. FlattenSeq(t) = x
    BY <2>2, FlattenOfOne
  <2>4. Chunks(r, n) = s \o t
    BY <1>5
  <2> HIDE DEF s, x, t
  <2>5. FlattenSeq(s \o t) = FlattenSeq(s) \o FlattenSeq(t)
    BY <2>2, <2>2a, FlattenConcat
  <2>6. TextOf(r, n) = FlattenSeq(s) \o x
    BY <2>3, <2>4, <2>5 DEF TextOf
  <2> QED
    BY <2>6 DEF TextOf, s, x
<1>7. \A k \in 0..N : TextOf(r, k) \in Bytes
  BY <1>4, FlattenConcat DEF TextOf, Bytes
<1>8. TextOf(r, 0) = <<>>
  <2>1. Chunks(r, 0) = <<>>
    <3>1. 0 \in 0..N
      BY <1>1
    <3>2. Chunks(r, 0) \in Seq(Bytes) /\ Len(Chunks(r, 0)) = 0
      BY <1>4, <3>1
    <3> QED
      BY <3>2, EmptySeq
  <2> QED
    BY <2>1, FlattenOfNone DEF TextOf
<1>9. j \in 0..N /\ n \in 0..N
  BY <1>1
<1>10. Start(r, n) = Len(TextOf(r, j)) + 1
  BY DEF Start
<1> HIDE DEF chunk, j
<1>11. Len(TextOf(r, n)) = Len(TextOf(r, j)) + (Len(text(n)) + 2) /\ Len(TextOf(r, j)) \in Nat
  <2>1. TextOf(r, j) \in Seq(Byte) /\ chunk(n) \in Seq(Byte)
    BY <1>3, <1>7, <1>9 DEF Bytes
  <2> DEFINE x == TextOf(r, j)
             y == chunk(n)
  <2>2. Len(x \o y) = Len(x) + Len(y) /\ Len(x) \in Nat
    <3> HIDE DEF x, y
    <3> QED
      BY <2>1, ConcatProperties, LenProperties DEF x, y
  <2>3. Len(y) = Len(text(n)) + 2
    BY <1>3
  <2> QED
    BY <1>6, <2>2, <2>3
<1>12. Len(TextOf(r, n)) = Start(r, n) + Len(text(n)) + 1
  <2> DEFINE l == Len(text(n))
             k == Len(TextOf(r, j))
  <2>1. l \in Nat /\ k \in Nat
    BY <1>3, <1>11
  <2>2. Len(TextOf(r, n)) = k + (l + 2) /\ Start(r, n) = k + 1
    BY <1>10, <1>11
  <2> HIDE DEF l, k
  <2>3. Len(TextOf(r, n)) = Start(r, n) + l + 1
    BY <2>1, <2>2
  <2> QED
    BY <2>3 DEF l
<1> QED
  BY <1>1, <1>6, <1>7, <1>8, <1>9, <1>10, <1>12 DEF j, chunk

\* What a step of the parser assigns, a value and its flag at once.
LEMMA FlagsAreBits ==
  \A x \in SUBSET (0..5) :
    /\ x \cup IsCard \in SUBSET (0..5) /\ x \cup IsShrunk \in SUBSET (0..5)
    /\ x \cup TcgplayerId \in SUBSET (0..5) /\ x \cup CardmarketId \in SUBSET (0..5)
    /\ x \cup Colors \in SUBSET (0..5) /\ x \cup ColorIdentity \in SUBSET (0..5)
  BY SMT DEF IsCard, IsShrunk, TcgplayerId, CardmarketId, Colors, ColorIdentity

LEMMA FlagsKeepType ==
  ASSUME NEW d \in CardFields, NEW x \in SUBSET (0..5)
  PROVE  [d EXCEPT !.flags = x] \in CardFields
  BY DEF CardFields

WithFlags(d, x) == [d EXCEPT !.flags = x]

LEMMA UpdatesOfTwo ==
  ASSUME NEW d \in CardFields, NEW x \in SUBSET (0..5), NEW y
  PROVE  /\ WithTcgplayerId(WithFlags(d, x), y) =
              Made(d.number, d.set, x, y, d.cardmarketId, d.colors,
                   d.colorIdentity, d.timestamp, d.data, d.offsets, d.block)
         /\ WithCardmarketId(WithFlags(d, x), y) =
              Made(d.number, d.set, x, d.tcgplayerId, y, d.colors,
                   d.colorIdentity, d.timestamp, d.data, d.offsets, d.block)
         /\ WithColors(WithFlags(d, x), y) =
              Made(d.number, d.set, x, d.tcgplayerId, d.cardmarketId, y,
                   d.colorIdentity, d.timestamp, d.data, d.offsets, d.block)
         /\ WithColorIdentity(WithFlags(d, x), y) =
              Made(d.number, d.set, x, d.tcgplayerId, d.cardmarketId, d.colors,
                   y, d.timestamp, d.data, d.offsets, d.block)
<1> DEFINE e == WithFlags(d, x)
<1>1. e \in CardFields
  BY FlagsKeepType DEF WithFlags
<1>2. /\ e.number = d.number /\ e.set = d.set /\ e.flags = x /\ e.tcgplayerId = d.tcgplayerId
      /\ e.cardmarketId = d.cardmarketId /\ e.colors = d.colors
      /\ e.colorIdentity = d.colorIdentity /\ e.timestamp = d.timestamp
      /\ e.data = d.data /\ e.offsets = d.offsets /\ e.block = d.block
  BY DEF CardFields, WithFlags
<1> HIDE DEF e
<1>3. WithTcgplayerId(e, y) =
        Made(d.number, d.set, x, y, d.cardmarketId, d.colors,
             d.colorIdentity, d.timestamp, d.data, d.offsets, d.block)
  <2>1. [e EXCEPT !.tcgplayerId = y] =
          Made(e.number, e.set, e.flags, y, e.cardmarketId, e.colors,
               e.colorIdentity, e.timestamp, e.data, e.offsets, e.block)
    BY <1>1, Updates
  <2> QED
    BY <1>2, <2>1 DEF WithTcgplayerId
<1>4. WithCardmarketId(e, y) =
        Made(d.number, d.set, x, d.tcgplayerId, y, d.colors,
             d.colorIdentity, d.timestamp, d.data, d.offsets, d.block)
  <2>1. [e EXCEPT !.cardmarketId = y] =
          Made(e.number, e.set, e.flags, e.tcgplayerId, y, e.colors,
               e.colorIdentity, e.timestamp, e.data, e.offsets, e.block)
    BY <1>1, Updates
  <2> QED
    BY <1>2, <2>1 DEF WithCardmarketId
<1>5. WithColors(e, y) =
        Made(d.number, d.set, x, d.tcgplayerId, d.cardmarketId, y,
             d.colorIdentity, d.timestamp, d.data, d.offsets, d.block)
  <2>1. [e EXCEPT !.colors = y] =
          Made(e.number, e.set, e.flags, e.tcgplayerId, e.cardmarketId, y,
               e.colorIdentity, e.timestamp, e.data, e.offsets, e.block)
    BY <1>1, Updates
  <2> QED
    BY <1>2, <2>1 DEF WithColors
<1>6. WithColorIdentity(e, y) =
        Made(d.number, d.set, x, d.tcgplayerId, d.cardmarketId, d.colors,
             y, d.timestamp, d.data, d.offsets, d.block)
  <2>1. [e EXCEPT !.colorIdentity = y] =
          Made(e.number, e.set, e.flags, e.tcgplayerId, e.cardmarketId, e.colors,
               y, e.timestamp, e.data, e.offsets, e.block)
    BY <1>1, Updates
  <2> QED
    BY <1>2, <2>1 DEF WithColorIdentity
<1> QED
  BY <1>3, <1>4, <1>5, <1>6 DEF e

\* The strings before and after a value, and where that puts a NUL.
NewOffsets(c, r, n) ==
  [i \in StringIndex |-> IF i \in StringOf(r.values[n], filter) THEN Start(r, n) ELSE c.offsets[i]]
NewData(c, r, n) ==
  IF StringOf(r.values[n], filter) = {} THEN c.data
  ELSE [c.data EXCEPT ![Len(TextOf(r, n))] = NUL]
PointedTo(c, r, n) ==
  Made(c.number, c.set, c.flags, c.tcgplayerId, c.cardmarketId, c.colors, c.colorIdentity,
       c.timestamp, NewData(c, r, n), NewOffsets(c, r, n), c.block)

LEMMA PointingTo ==
  ASSUME NEW c \in CardFields, NEW r, NEW n, Start(r, n) \in Nat
  PROVE  /\ PointTo(c, r, n) = PointedTo(c, r, n)
         /\ StringOf(r.values[n], filter) = {} => PointedTo(c, r, n) = c
<1> DEFINE strings == StringOf(r.values[n], filter)
<1>1. CASE strings = {}
  <2>1. NewOffsets(c, r, n) = [i \in StringIndex |-> c.offsets[i]]
    BY <1>1 DEF NewOffsets
  <2>2. c.offsets \in [StringIndex -> Nat \cup {NoOffset}]
    BY DEF CardFields
  <2>3. NewOffsets(c, r, n) = c.offsets /\ NewData(c, r, n) = c.data
    BY <1>1, <2>1, <2>2 DEF NewData
  <2>4. PointedTo(c, r, n) = c
    BY <2>3, CardIsMade DEF PointedTo
  <2> QED
    BY <1>1, <2>4 DEF PointTo
<1>2. CASE strings # {}
  <2> DEFINE end == Len(TextOf(r, n))
             data == [c.data EXCEPT ![end] = NUL]
             offsets == NewOffsets(c, r, n)
             e == [c EXCEPT !.offsets = offsets]
  <2>1. PointTo(c, r, n) = [c EXCEPT !.offsets = offsets, !.data[end] = NUL]
    BY <1>2 DEF PointTo, NewOffsets
  <2>1a. offsets \in [StringIndex -> Nat \cup {NoOffset}]
    <3>1. Start(r, n) \in Nat /\ c.offsets \in [StringIndex -> Nat \cup {NoOffset}]
      BY DEF CardFields
    <3> QED
      BY <3>1 DEF NewOffsets
  <2> HIDE DEF end, offsets
  <2>1b. e \in CardFields
    BY <2>1a DEF CardFields
  <2>1c. /\ e.number = c.number /\ e.set = c.set /\ e.flags = c.flags
         /\ e.tcgplayerId = c.tcgplayerId
         /\ e.cardmarketId = c.cardmarketId /\ e.colors = c.colors
         /\ e.colorIdentity = c.colorIdentity /\ e.timestamp = c.timestamp
         /\ e.data = c.data /\ e.offsets = offsets /\ e.block = c.block
    BY DEF CardFields
  <2>1d. [c EXCEPT !.offsets = offsets, !.data[end] = NUL] = [e EXCEPT !.data[end] = NUL]
    OBVIOUS
  <2> HIDE DEF e
  <2>1e. [e EXCEPT !.data[end] = NUL] = [e EXCEPT !.data = [e.data EXCEPT ![end] = NUL]]
    OBVIOUS
  <2>1f. data = [e.data EXCEPT ![end] = NUL]
    BY <2>1c
  <2> HIDE DEF data
  <2>1g. [e EXCEPT !.data = data] =
           Made(e.number, e.set, e.flags, e.tcgplayerId, e.cardmarketId, e.colors,
                e.colorIdentity, e.timestamp, data, e.offsets, e.block)
    BY <2>1b, Updates
  <2>2. [c EXCEPT !.offsets = offsets, !.data[end] = NUL] =
          Made(c.number, c.set, c.flags, c.tcgplayerId, c.cardmarketId, c.colors, c.colorIdentity,
               c.timestamp, data, offsets, c.block)
    BY <2>1c, <2>1d, <2>1e, <2>1f, <2>1g
  <2>3. NewData(c, r, n) = data
    BY <1>2 DEF NewData, end, data
  <2> QED
    BY <1>2, <2>1, <2>2, <2>3 DEF PointedTo, offsets
<1> QED
  BY <1>1, <1>2

\* The object a value of the response itself is in.
Root == ""

\* A record with the fields of a card.
IsMade(d) ==
  d = Made(d.number, d.set, d.flags, d.tcgplayerId, d.cardmarketId, d.colors, d.colorIdentity,
           d.timestamp, d.data, d.offsets, d.block)

LEMMA CardOfTypes ==
  ASSUME NEW d, IsMade(d), d.number \in Word, d.set \in Seq(Byte), d.flags \in SUBSET (0..5),
         d.tcgplayerId \in Word, d.cardmarketId \in Word, d.colors \in Byte,
         d.colorIdentity \in Byte, d.timestamp \in Word64, d.data \in Seq(Byte),
         d.offsets \in [StringIndex -> Nat \cup {NoOffset}], d.block \in Nat
  PROVE  d \in CardFields
  BY SMTT(60) DEF IsMade, Made, CardFields

\* What value n of the response changes.
If(condition, flag) == IF condition THEN flag ELSE {}
FieldsAfter(c, d, v) ==
  /\ IsMade(d)
  /\ d.set          = IF Named(v, Root, "set") THEN v.text ELSE c.set
  /\ d.number       = IF Named(v, Root, "collector_number") THEN Pack(v.value) ELSE c.number
  /\ d.tcgplayerId  = IF Named(v, Root, "tcgplayer_id") THEN v.value ELSE c.tcgplayerId
  /\ d.cardmarketId = IF Named(v, Root, "cardmarket_id") THEN v.value ELSE c.cardmarketId
  /\ d.colors =
       IF Named(v, Root, "colors") THEN c.colors \cup ColorFlags(v.value) ELSE c.colors
  /\ d.colorIdentity =
       IF Named(v, Root, "color_identity") THEN c.colorIdentity \cup ColorFlags(v.value)
       ELSE c.colorIdentity
  /\ d.flags = c.flags \cup If(Named(v, Root, "object") /\ v.value = "card", IsCard)
                       \cup If(Named(v, Root, "tcgplayer_id"), TcgplayerId)
                       \cup If(Named(v, Root, "cardmarket_id"), CardmarketId)
                       \cup If(Named(v, Root, "colors"), Colors)
                       \cup If(Named(v, Root, "color_identity"), ColorIdentity)
  /\ d.timestamp = c.timestamp /\ d.block = c.block
  /\ Named(v, Root, "set") => Len(v.text) < MaxSet
  /\ Named(v, Root, "object") => v.value # "error"
StringsAfter(c, d, r, n) == d.data = NewData(c, r, n) /\ d.offsets = NewOffsets(c, r, n)

\* Values of an object in the card, and objects and arrays in it.
LEMMA OthersKeepFields ==
  ASSUME NEW c \in CardFields, NEW r, NEW n, NEW v, v = r.values[n],
         \A key \in RootKeys \cup {"colors", "color_identity"} : ~Named(v, Root, key)
  PROVE  FieldsAfter(c, PointedTo(c, r, n), v) /\ StringsAfter(c, PointedTo(c, r, n), r, n)
<1> DEFINE d == PointedTo(c, r, n)
<1>1. /\ ~Named(v, Root, "set") /\ ~Named(v, Root, "object") /\ ~Named(v, Root, "collector_number")
      /\ ~Named(v, Root, "tcgplayer_id") /\ ~Named(v, Root, "cardmarket_id")
      /\ ~Named(v, Root, "colors") /\ ~Named(v, Root, "color_identity")
  BY DEF RootKeys
<1>2. /\ d.set = c.set /\ d.number = c.number /\ d.tcgplayerId = c.tcgplayerId
      /\ d.cardmarketId = c.cardmarketId /\ d.colors = c.colors
      /\ d.colorIdentity = c.colorIdentity /\ d.flags = c.flags
      /\ d.timestamp = c.timestamp /\ d.block = c.block
      /\ d.data = NewData(c, r, n) /\ d.offsets = NewOffsets(c, r, n)
      /\ IsMade(d)
  BY DEF PointedTo, Made, IsMade
<1> HIDE DEF d
<1> QED
  BY <1>1, <1>2 DEF FieldsAfter, StringsAfter, If, d

LEMMA ArrayIsParsed ==
  ASSUME NEW c \in CardFields, NEW r, NEW n, NEW v, v = r.values[n], v.object = "",
           Start(r, n) \in Nat,
         StringOf(v, filter) = {}, v.key \notin RootKeys
  PROVE  FieldsAfter(c, ParseArray(c, v), v) /\ StringsAfter(c, ParseArray(c, v), r, n)
<1> DEFINE d == ParseArray(c, v)
<1>1. NewData(c, r, n) = c.data /\ NewOffsets(c, r, n) = c.offsets
  <2>1. PointedTo(c, r, n) = c
    BY PointingTo
  <2>2. PointedTo(c, r, n).data = NewData(c, r, n)
          /\ PointedTo(c, r, n).offsets = NewOffsets(c, r, n)
    BY DEF PointedTo, Made
  <2> QED
    BY <2>1, <2>2
<1>2. /\ ~Named(v, Root, "set") /\ ~Named(v, Root, "object") /\ ~Named(v, Root, "collector_number")
      /\ ~Named(v, Root, "tcgplayer_id") /\ ~Named(v, Root, "cardmarket_id")
      /\ Named(v, Root, "colors") <=> v.key = "colors"
      /\ Named(v, Root, "color_identity") <=> v.key = "color_identity"
  BY DEF Root, RootKeys, Named
<1>3. CASE v.key = "colors"
  <2>1. d = [c EXCEPT !.flags = c.flags \cup Colors, !.colors = c.colors \cup ColorFlags(v.value)]
    BY <1>3 DEF ParseArray
  <2> DEFINE x == c.flags \cup Colors
             y == c.colors \cup ColorFlags(v.value)
  <2>2. d = Made(c.number, c.set, x, c.tcgplayerId, c.cardmarketId, y, c.colorIdentity,
                 c.timestamp, c.data, c.offsets, c.block)
    <3>1. d = WithColors(WithFlags(c, x), y)
      BY <2>1 DEF WithColors, WithFlags
    <3>2. x \in SUBSET (0..5)
      <4>1. c.flags \in SUBSET (0..5)
        BY DEF CardFields
      <4> QED
        BY <4>1, FlagsAreBits
    <3> HIDE DEF d, x, y
    <3> QED
      BY <3>1, <3>2, UpdatesOfTwo
  <2> HIDE DEF d, x, y
  <2>3. /\ d.set = c.set /\ d.number = c.number /\ d.tcgplayerId = c.tcgplayerId
        /\ d.cardmarketId = c.cardmarketId /\ d.colors = y
        /\ d.colorIdentity = c.colorIdentity /\ d.flags = x
        /\ d.timestamp = c.timestamp /\ d.block = c.block
        /\ d.data = c.data /\ d.offsets = c.offsets
        /\ IsMade(d)
    BY <2>2 DEF Made, IsMade
  <2> QED
    BY <1>1, <1>2, <1>3, <2>3 DEF FieldsAfter, StringsAfter, If, d, x, y
<1>4. CASE v.key = "color_identity"
  <2>1. d = [c EXCEPT !.flags = c.flags \cup ColorIdentity,
                      !.colorIdentity = c.colorIdentity \cup ColorFlags(v.value)]
    BY <1>4 DEF ParseArray
  <2> DEFINE x == c.flags \cup ColorIdentity
             y == c.colorIdentity \cup ColorFlags(v.value)
  <2>2. d = Made(c.number, c.set, x, c.tcgplayerId, c.cardmarketId, c.colors, y,
                 c.timestamp, c.data, c.offsets, c.block)
    <3>1. d = WithColorIdentity(WithFlags(c, x), y)
      BY <2>1 DEF WithColorIdentity, WithFlags
    <3>2. x \in SUBSET (0..5)
      <4>1. c.flags \in SUBSET (0..5)
        BY DEF CardFields
      <4> QED
        BY <4>1, FlagsAreBits
    <3> HIDE DEF d, x, y
    <3> QED
      BY <3>1, <3>2, UpdatesOfTwo
  <2> HIDE DEF d, x, y
  <2>3. /\ d.set = c.set /\ d.number = c.number /\ d.tcgplayerId = c.tcgplayerId
        /\ d.cardmarketId = c.cardmarketId /\ d.colors = c.colors
        /\ d.colorIdentity = y /\ d.flags = x
        /\ d.timestamp = c.timestamp /\ d.block = c.block
        /\ d.data = c.data /\ d.offsets = c.offsets
        /\ IsMade(d)
    BY <2>2 DEF Made, IsMade
  <2> QED
    BY <1>1, <1>2, <1>4, <2>3 DEF FieldsAfter, StringsAfter, If, d, x, y
<1>5. CASE v.key \notin {"colors", "color_identity"}
  <2>1. d = c
    BY <1>5 DEF ParseArray
  <2>2. IsMade(c)
    BY CardIsMade DEF IsMade
  <2> HIDE DEF d
  <2> QED
    BY <1>1, <1>2, <1>5, <2>1, <2>2 DEF FieldsAfter, StringsAfter, If, d
<1> QED
  BY <1>3, <1>4, <1>5

LEMMA ValueStarts ==
  ASSUME NEW r \in Responses, NEW n \in 1..Len(r.values)
  PROVE  /\ IsValue(r.values[n]) /\ Len(r.values[n].text) \in Nat
         /\ Start(r, n) \in Nat /\ Len(TextOf(r, n)) \in Nat
<1>1. IsValue(r.values[n])
  BY ResponseIs
<1>2. /\ TextOf(r, n - 1) \in Seq(Byte) /\ TextOf(r, n) \in Seq(Byte)
      /\ r.values[n].text \in Seq(Byte \ {NUL})
      /\ Start(r, n) = Len(TextOf(r, n - 1)) + 1
  BY TextGrows DEF Bytes
<1>3. Len(TextOf(r, n - 1)) \in Nat /\ Len(TextOf(r, n)) \in Nat /\ Len(r.values[n].text) \in Nat
  BY <1>2, LenProperties
<1> QED
  BY <1>1, <1>2, <1>3

LEMMA TooLongOrNot == \A k \in Nat : ~(k >= MaxSet) => k < MaxSet
  BY DEF MaxSet

LEMMA RootIsParsed ==
  ASSUME NEW r \in Responses, NEW n \in 1..Len(r.values), NEW c \in CardFields, NEW v,
         v = r.values[n], v.object = "", v.type = "STRING", filter \subseteq StringIndex,
         ParseRoot(c, r, n).code = "OK"
  PROVE  FieldsAfter(c, ParseRoot(c, r, n).card, v)
           /\ StringsAfter(c, ParseRoot(c, r, n).card, r, n)
<1> DEFINE p == ParseRoot(c, r, n)
           d == p.card
<1>1. IsValue(v) /\ Start(r, n) \in Nat
  BY ValueStarts
<1>0. p.code = "OK" /\ d = p.card
  OBVIOUS
<1>2. \A key \in {"set", "object", "collector_number", "tcgplayer_id", "cardmarket_id",
                  "colors", "color_identity"} : Named(v, Root, key) <=> v.key = key
  BY DEF Root, Named
<1>3. v.key # "colors" /\ v.key # "color_identity"
  BY <1>1 DEF IsValue
<1>4. CASE v.key \in RootKeys
  <2>1. StringOf(v, filter) = {}
    BY <1>1, <1>4, StringsOfValues
  <2>2. NewData(c, r, n) = c.data /\ NewOffsets(c, r, n) = c.offsets
    <3>1. PointedTo(c, r, n) = c
      BY <1>1, <2>1, PointingTo
    <3>2. PointedTo(c, r, n).data = NewData(c, r, n)
            /\ PointedTo(c, r, n).offsets = NewOffsets(c, r, n)
      BY DEF PointedTo, Made
    <3> QED
      BY <3>1, <3>2
  <2>3. CASE v.key = "set"
    <3>1. p = SetSet(c, v.text)
      BY <2>3 DEF ParseRoot
    <3>2. ~(Len(v.text) >= MaxSet) /\ d = [c EXCEPT !.set = v.text]
      <4> DEFINE e == [c EXCEPT !.set = v.text]
      <4>1. p = IF Len(v.text) >= MaxSet THEN Ends("JSON_SET_TOO_LONG") ELSE With(e)
        BY <3>1 DEF SetSet
      <4> HIDE DEF e, p, d
      <4>2. ~(Len(v.text) >= MaxSet)
        BY <1>0, <4>1 DEF Ends
      <4>3. d = e
        BY <1>0, <4>1, <4>2 DEF With
      <4> QED
        BY <4>2, <4>3 DEF e
    <3>3. Len(v.text) \in Nat
      BY ValueStarts
    <3>4. Len(v.text) < MaxSet
      <4>1. ~(Len(v.text) >= MaxSet)
        BY <3>2
      <4> QED
        BY <3>3, <4>1, TooLongOrNot
    <3> DEFINE x == v.text
    <3>5. d = Made(c.number, x, c.flags, c.tcgplayerId, c.cardmarketId, c.colors,
                   c.colorIdentity, c.timestamp, c.data, c.offsets, c.block)
      BY <3>2, Updates
    <3> HIDE DEF d, x
    <3>6. /\ d.set = x /\ d.number = c.number /\ d.tcgplayerId = c.tcgplayerId
          /\ d.cardmarketId = c.cardmarketId /\ d.colors = c.colors
          /\ d.colorIdentity = c.colorIdentity /\ d.flags = c.flags
          /\ d.timestamp = c.timestamp /\ d.block = c.block
          /\ d.data = c.data /\ d.offsets = c.offsets
          /\ IsMade(d)
      BY <3>5 DEF Made, IsMade
    <3> QED
      BY <1>2, <2>2, <2>3, <3>4, <3>6 DEF FieldsAfter, StringsAfter, If, d, x
  <2>4. CASE v.key = "object"
    <3>1. p = SetObject(c, v.value)
      BY <2>4 DEF ParseRoot
    <3> DEFINE x == c.flags \cup IsCard
    <3>2. v.value # "error" /\ d = IF v.value = "card" THEN [c EXCEPT !.flags = x] ELSE c
      <4> DEFINE e == [c EXCEPT !.flags = x]
      <4>1. p = CASE v.value = "card" -> With(e) [] v.value = "error" -> Ends("NOT_FOUND")
                  [] OTHER -> With(c)
        BY <3>1 DEF SetObject
      <4> HIDE DEF e, p, d
      <4>2. v.value # "error"
        BY <1>0, <4>1 DEF Ends
      <4>3. d = IF v.value = "card" THEN e ELSE c
        BY <1>0, <4>1, <4>2 DEF With
      <4> QED
        BY <4>2, <4>3 DEF e
    <3>3. CASE v.value = "card"
      <4>1. d = Made(c.number, c.set, x, c.tcgplayerId, c.cardmarketId, c.colors,
                     c.colorIdentity, c.timestamp, c.data, c.offsets, c.block)
        BY <3>2, <3>3, Updates
      <4> HIDE DEF d, x
      <4>2. /\ d.set = c.set /\ d.number = c.number /\ d.tcgplayerId = c.tcgplayerId
            /\ d.cardmarketId = c.cardmarketId /\ d.colors = c.colors
            /\ d.colorIdentity = c.colorIdentity /\ d.flags = x
            /\ d.timestamp = c.timestamp /\ d.block = c.block
            /\ d.data = c.data /\ d.offsets = c.offsets
            /\ IsMade(d)
        BY <4>1 DEF Made, IsMade
      <4> QED
        BY <1>2, <2>2, <2>4, <3>2, <3>3, <4>2 DEF FieldsAfter, StringsAfter, If, d, x
    <3>4. CASE v.value # "card"
      <4>1. d = c
        BY <3>2, <3>4
      <4>2. IsMade(c)
        BY CardIsMade DEF IsMade
      <4> HIDE DEF d
      <4> QED
        BY <1>2, <2>2, <2>4, <3>2, <3>4, <4>1, <4>2 DEF FieldsAfter, StringsAfter, If, d
    <3> QED
      BY <3>3, <3>4
  <2>5. CASE v.key = "collector_number"
    <3>1. p = SetNumber(c, v.value)
      BY <2>5 DEF ParseRoot
    <3> DEFINE x == Pack(v.value)
    <3>2. d = [c EXCEPT !.number = x]
      <4> DEFINE number == NumberFromString(v.value)
      <4>1. p = IF number.code = "OK" THEN With([c EXCEPT !.number = number.packed]) ELSE number
        BY <3>1 DEF SetNumber
      <4>2. number = IF Accepted(v.value) THEN [code |-> "OK", packed |-> x]
                     ELSE [code |-> "INVALID_COLLECTOR_NUMBER"]
        BY DEF NumberFromString
      <4>3. number.code = "OK"
        <5>1. number.code # "OK" => p = number
          BY <4>1
        <5> HIDE DEF number, p
        <5> QED
          BY <5>1 DEF p
      <4>4. number.packed = x
        <5> HIDE DEF number, x
        <5> QED
          BY <4>2, <4>3
      <4>5. p = With([c EXCEPT !.number = x])
        BY <4>1, <4>3, <4>4
      <4> DEFINE e == [c EXCEPT !.number = x]
      <4>6. p = With(e)
        BY <4>5
      <4> HIDE DEF e, p
      <4>7. p.card = e
        BY <4>6 DEF With
      <4> QED
        BY <4>7 DEF e, p
    <3>5. d = Made(x, c.set, c.flags, c.tcgplayerId, c.cardmarketId, c.colors,
                   c.colorIdentity, c.timestamp, c.data, c.offsets, c.block)
      BY <3>2, Updates
    <3> HIDE DEF d, x
    <3>6. /\ d.set = c.set /\ d.number = x /\ d.tcgplayerId = c.tcgplayerId
          /\ d.cardmarketId = c.cardmarketId /\ d.colors = c.colors
          /\ d.colorIdentity = c.colorIdentity /\ d.flags = c.flags
          /\ d.timestamp = c.timestamp /\ d.block = c.block
          /\ d.data = c.data /\ d.offsets = c.offsets
          /\ IsMade(d)
      BY <3>5 DEF Made, IsMade
    <3> QED
      BY <1>2, <2>2, <2>5, <3>6 DEF FieldsAfter, StringsAfter, If, d, x
  <2>6. CASE v.key = "tcgplayer_id"
    <3> DEFINE x == c.flags \cup TcgplayerId
               y == v.value
    <3>1. d = WithTcgplayerId(WithFlags(c, x), y)
      <4> DEFINE e == [c EXCEPT !.flags = x, !.tcgplayerId = y]
      <4>1. p = With(e)
        BY <2>6 DEF ParseRoot
      <4>2. e = WithTcgplayerId(WithFlags(c, x), y)
        BY DEF WithTcgplayerId, WithFlags
      <4> HIDE DEF e, p, d
      <4>3. d = e
        BY <1>0, <4>1 DEF With
      <4> QED
        BY <4>2, <4>3
    <3>2. x \in SUBSET (0..5)
      <4>1. c.flags \in SUBSET (0..5)
        BY DEF CardFields
      <4> QED
        BY <4>1, FlagsAreBits
    <3> HIDE DEF d, x, y
    <3>3. d = Made(c.number, c.set, x, y, c.cardmarketId, c.colors,
                   c.colorIdentity, c.timestamp, c.data, c.offsets, c.block)
      BY <3>1, <3>2, UpdatesOfTwo
    <3>4. /\ d.set = c.set /\ d.number = c.number /\ d.tcgplayerId = y
          /\ d.cardmarketId = c.cardmarketId /\ d.colors = c.colors
          /\ d.colorIdentity = c.colorIdentity /\ d.flags = x
          /\ d.timestamp = c.timestamp /\ d.block = c.block
          /\ d.data = c.data /\ d.offsets = c.offsets
          /\ IsMade(d)
      BY <3>3 DEF Made, IsMade
    <3> QED
      BY <1>2, <2>2, <2>6, <3>4 DEF FieldsAfter, StringsAfter, If, d, x, y
  <2>7. CASE v.key = "cardmarket_id"
    <3> DEFINE x == c.flags \cup CardmarketId
               y == v.value
    <3>1. d = WithCardmarketId(WithFlags(c, x), y)
      <4> DEFINE e == [c EXCEPT !.flags = x, !.cardmarketId = y]
      <4>1. p = With(e)
        BY <2>7 DEF ParseRoot
      <4>2. e = WithCardmarketId(WithFlags(c, x), y)
        BY DEF WithCardmarketId, WithFlags
      <4> HIDE DEF e, p, d
      <4>3. d = e
        BY <1>0, <4>1 DEF With
      <4> QED
        BY <4>2, <4>3
    <3>2. x \in SUBSET (0..5)
      <4>1. c.flags \in SUBSET (0..5)
        BY DEF CardFields
      <4> QED
        BY <4>1, FlagsAreBits
    <3> HIDE DEF d, x, y
    <3>3. d = Made(c.number, c.set, x, c.tcgplayerId, y, c.colors,
                   c.colorIdentity, c.timestamp, c.data, c.offsets, c.block)
      BY <3>1, <3>2, UpdatesOfTwo
    <3>4. /\ d.set = c.set /\ d.number = c.number /\ d.tcgplayerId = c.tcgplayerId
          /\ d.cardmarketId = y /\ d.colors = c.colors
          /\ d.colorIdentity = c.colorIdentity /\ d.flags = x
          /\ d.timestamp = c.timestamp /\ d.block = c.block
          /\ d.data = c.data /\ d.offsets = c.offsets
          /\ IsMade(d)
      BY <3>3 DEF Made, IsMade
    <3> QED
      BY <1>2, <2>2, <2>7, <3>4 DEF FieldsAfter, StringsAfter, If, d, x, y
  <2> QED
    BY <1>4, <2>3, <2>4, <2>5, <2>6, <2>7 DEF RootKeys
<1>5. CASE v.key \notin RootKeys
  <2>1. p = With(PointTo(c, r, n))
    BY <1>5 DEF ParseRoot, RootKeys
  <2>2. d = PointedTo(c, r, n)
    <3>1. PointTo(c, r, n) = PointedTo(c, r, n)
      BY <1>1, PointingTo
    <3> HIDE DEF p, d
    <3> QED
      BY <1>0, <2>1, <3>1 DEF With
  <2>3. \A key \in RootKeys \cup {"colors", "color_identity"} : ~Named(v, Root, key)
    BY <1>3, <1>5 DEF Root, Named, RootKeys
  <2> HIDE DEF d
  <2> QED
    BY <2>2, <2>3, OthersKeepFields DEF d
<1> QED
  BY <1>4, <1>5

\* One value: whatever it is, the fields and the strings it changes are those it
\* names, and its string only if the filter lets it pass (sfc_card.c:343).
LEMMA ValueIsParsed ==
  ASSUME NEW r \in Responses, NEW n \in 1..Len(r.values), NEW c \in CardFields,
         filter \subseteq StringIndex, ParseValue(c, r, n).code = "OK"
  PROVE  /\ FieldsAfter(c, ParseValue(c, r, n).card, r.values[n])
         /\ StringsAfter(c, ParseValue(c, r, n).card, r, n)
<1> DEFINE v == r.values[n]
           p == ParseValue(c, r, n)
<1>1. IsValue(v) /\ Start(r, n) \in Nat
  BY ValueStarts
<1>2. v.type \in {"STRING", "ARRAY", "NESTED"}
  BY <1>1 DEF IsValue
<1>3. CASE v.type = "NESTED"
  <2>1. p = Ends("JSON_RESPONSE_ERROR")
    BY <1>3 DEF ParseValue
  <2> QED
    BY <2>1 DEF Ends
<1>4. CASE v.type = "ARRAY"
  <2>1. p = With(ParseArray(c, v))
    BY <1>4 DEF ParseValue
  <2>2. p.card = ParseArray(c, v)
    BY <2>1 DEF With
  <2>3. v.object = "" /\ v.key \notin RootKeys
    BY <1>1, <1>4 DEF IsValue
  <2>4. StringOf(v, filter) = {}
    BY <1>1, <1>4, StringsOfValues
  <2> QED
    BY <1>1, <2>2, <2>3, <2>4, ArrayIsParsed
<1>5. CASE v.type = "STRING" /\ v.object = ""
  <2>1. p = ParseRoot(c, r, n)
    BY <1>5 DEF ParseValue
  <2> QED
    BY <1>5, <2>1, RootIsParsed
<1>6. CASE v.type = "STRING" /\ v.object # ""
  <2>1. p = With(PointTo(c, r, n))
    BY <1>6 DEF ParseValue
  <2>2. p.card = PointedTo(c, r, n)
    <3>1. PointTo(c, r, n) = PointedTo(c, r, n)
      BY <1>1, PointingTo
    <3> QED
      BY <2>1, <3>1 DEF With
  <2>3. \A key \in RootKeys \cup {"colors", "color_identity"} : ~Named(v, Root, key)
    BY <1>6 DEF Root, Named
  <2> QED
    BY <2>2, <2>3, OthersKeepFields
<1> QED
  BY <1>2, <1>3, <1>4, <1>5, <1>6

\* What the first n values of a response say.
LastUpTo(r, n, object, key) == r.values[Max(Before(r, n, object, key))]
ValueUpTo(r, n, key, default) ==
  IF Before(r, n, Root, key) = {} THEN default ELSE LastUpTo(r, n, Root, key).value
FlagUpTo(r, n, key, flag) == If(Before(r, n, Root, key) # {}, flag)
AllUpTo(r, n, key) == {r.values[m].value : m \in Before(r, n, Root, key)}
ColorsUpTo(r, n, key) == UNION {ColorFlags(letters) : letters \in AllUpTo(r, n, key)}

FieldsUpTo(c, r, n, now) ==
  /\ c.set = IF Before(r, n, Root, "set") = {} THEN <<>> ELSE LastUpTo(r, n, Root, "set").text
  /\ Len(c.set) < MaxSet
  /\ c.number = IF Before(r, n, Root, "collector_number") = {} THEN {}
                ELSE Pack(LastUpTo(r, n, Root, "collector_number").value)
  /\ c.tcgplayerId = ValueUpTo(r, n, "tcgplayer_id", {})
  /\ c.cardmarketId = ValueUpTo(r, n, "cardmarket_id", {})
  /\ c.colors = ColorsUpTo(r, n, "colors")
  /\ c.colorIdentity = ColorsUpTo(r, n, "color_identity")
  /\ c.flags = If("card" \in AllUpTo(r, n, "object"), IsCard)
                 \cup FlagUpTo(r, n, "tcgplayer_id", TcgplayerId)
                 \cup FlagUpTo(r, n, "cardmarket_id", CardmarketId)
                 \cup FlagUpTo(r, n, "colors", Colors)
                 \cup FlagUpTo(r, n, "color_identity", ColorIdentity)
  /\ "error" \notin AllUpTo(r, n, "object")
  /\ c.timestamp = now /\ c.block = 0

LEMMA LastOfRoot ==
  ASSUME NEW r, NEW n \in Nat, NEW key
  PROVE  /\ Named(r.values[n + 1], Root, key)
              => /\ Before(r, n + 1, Root, key) # {}
                 /\ Max(Before(r, n + 1, Root, key)) = n + 1
         /\ ~Named(r.values[n + 1], Root, key)
              => Before(r, n + 1, Root, key) = Before(r, n, Root, key)
<1>2. ASSUME Named(r.values[n + 1], Root, key)
      PROVE  /\ Before(r, n + 1, Root, key) # {}
             /\ Max(Before(r, n + 1, Root, key)) = n + 1
  <2> DEFINE B == Before(r, n + 1, Root, key)
             m == n + 1
  <2>1. m \in B /\ B \subseteq Nat /\ \A k \in B : k <= m
    BY <1>2 DEF Before
  <2> HIDE DEF B, m
  <2>2. Max(B) \in B /\ \A k \in B : k <= Max(B)
    <3>1. \E x \in B : \A y \in B : x >= y
      BY <2>1
    <3> QED
      BY <3>1, <2>1 DEF Max
  <2>3. Max(B) = m
    <3> DEFINE x == Max(B)
    <3>1. x \in Nat /\ m \in Nat /\ x <= m /\ m <= x
      BY <2>1, <2>2
    <3> HIDE DEF x
    <3>2. x = m
      BY <3>1
    <3> QED
      BY <3>2 DEF x
  <2> QED
    BY <2>1, <2>3 DEF B, m
<1>3. ASSUME ~Named(r.values[n + 1], Root, key)
      PROVE  Before(r, n + 1, Root, key) = Before(r, n, Root, key)
  BY <1>3 DEF Before
<1> QED
  BY <1>2, <1>3

LEMMA FieldsGoOn ==
  ASSUME NEW r \in Responses, NEW n \in 0..(Len(r.values) - 1),
         NEW c, NEW d, NEW now, FieldsUpTo(c, r, n, now), FieldsAfter(c, d, r.values[n + 1])
  PROVE  FieldsUpTo(d, r, n + 1, now)
<1> DEFINE v == r.values[n + 1]
           B(key) == Before(r, n, Root, key)
           A(key) == Before(r, n + 1, Root, key)
           N(key) == Named(v, Root, key)
           Was(key, default) == ValueUpTo(r, n, key, default)
           Is(key, default) == ValueUpTo(r, n + 1, key, default)
           All(key) == AllUpTo(r, n, key)
           Now(key) == AllUpTo(r, n + 1, key)
<1>0. n \in Nat
  BY ResponseIs
<1>1. \A key : /\ N(key) => A(key) # {} /\ LastUpTo(r, n + 1, Root, key) = v
               /\ ~N(key) => A(key) = B(key)
                    /\ LastUpTo(r, n + 1, Root, key) = LastUpTo(r, n, Root, key)
  <2> SUFFICES ASSUME NEW key
               PROVE  /\ N(key) => A(key) # {} /\ LastUpTo(r, n + 1, Root, key) = v
                      /\ ~N(key) => A(key) = B(key)
                                      /\ LastUpTo(r, n + 1, Root, key) = LastUpTo(r, n, Root, key)
    OBVIOUS
  <2>1. /\ N(key) => A(key) # {} /\ Max(A(key)) = n + 1
        /\ ~N(key) => A(key) = B(key)
    BY <1>0, LastOfRoot
  <2> QED
    BY <2>1 DEF LastUpTo
<1>2. \A key, default : Is(key, default) = IF N(key) THEN v.value ELSE Was(key, default)
  BY <1>1 DEF ValueUpTo
<1>3. \A key, flag : FlagUpTo(r, n + 1, key, flag) = FlagUpTo(r, n, key, flag) \cup If(N(key), flag)
  <2> SUFFICES ASSUME NEW key, NEW flag
               PROVE  FlagUpTo(r, n + 1, key, flag)
                        = FlagUpTo(r, n, key, flag) \cup If(N(key), flag)
    OBVIOUS
  <2>1. A(key) # {} <=> B(key) # {} \/ N(key)
    <3>1. B(key) \subseteq A(key)
      <4>1. 1..n \subseteq 1..(n + 1)
        BY <1>0
      <4> QED
        BY <4>1 DEF Before
    <3> QED
      BY <1>1, <3>1
  <2> QED
    BY <2>1 DEF FlagUpTo, If
<1>4. \A key : Now(key) = IF N(key) THEN All(key) \cup {v.value} ELSE All(key)
  <2> SUFFICES ASSUME NEW key
               PROVE  Now(key) = IF N(key) THEN All(key) \cup {v.value} ELSE All(key)
    OBVIOUS
  <2>1. A(key) = IF N(key) THEN B(key) \cup {n + 1} ELSE B(key)
    <3>1. 1..(n + 1) = 1..n \cup {n + 1}
      BY <1>0
    <3> QED
      BY <3>1 DEF Before
  <2> HIDE DEF N, A, B
  <2>2. Now(key) = {r.values[m].value : m \in A(key)} /\ All(key) = {r.values[m].value : m \in B(key)}
    BY DEF AllUpTo, A, B
  <2> QED
    BY <2>1, <2>2
<1>5. \A key : ColorsUpTo(r, n + 1, key) =
         IF N(key) THEN ColorsUpTo(r, n, key) \cup ColorFlags(v.value) ELSE ColorsUpTo(r, n, key)
  <2> SUFFICES ASSUME NEW key
               PROVE  ColorsUpTo(r, n + 1, key) =
                        IF N(key) THEN ColorsUpTo(r, n, key) \cup ColorFlags(v.value)
                        ELSE ColorsUpTo(r, n, key)
    OBVIOUS
  <2>1. /\ ColorsUpTo(r, n + 1, key) = UNION {ColorFlags(letters) : letters \in Now(key)}
        /\ ColorsUpTo(r, n, key) = UNION {ColorFlags(letters) : letters \in All(key)}
    BY DEF ColorsUpTo
  <2> HIDE DEF N, Now, All, v
  <2>2. N(key) => UNION {ColorFlags(letters) : letters \in All(key) \cup {v.value}}
                  = (UNION {ColorFlags(letters) : letters \in All(key)}) \cup ColorFlags(v.value)
    OBVIOUS
  <2>3. Now(key) = IF N(key) THEN All(key) \cup {v.value} ELSE All(key)
    BY <1>4
  <2>4. CASE N(key)
    BY <2>1, <2>2, <2>3, <2>4
  <2>5. CASE ~N(key)
    BY <2>1, <2>3, <2>5
  <2> QED
    BY <2>4, <2>5
<1>6. /\ c.set = IF B("set") = {} THEN <<>> ELSE LastUpTo(r, n, Root, "set").text
      /\ Len(c.set) < MaxSet
      /\ c.number = IF B("collector_number") = {} THEN {}
                    ELSE Pack(LastUpTo(r, n, Root, "collector_number").value)
      /\ c.tcgplayerId = Was("tcgplayer_id", {}) /\ c.cardmarketId = Was("cardmarket_id", {})
      /\ c.colors = ColorsUpTo(r, n, "colors")
      /\ c.colorIdentity = ColorsUpTo(r, n, "color_identity")
      /\ c.flags = If("card" \in All("object"), IsCard)
                     \cup FlagUpTo(r, n, "tcgplayer_id", TcgplayerId)
                     \cup FlagUpTo(r, n, "cardmarket_id", CardmarketId)
                     \cup FlagUpTo(r, n, "colors", Colors)
                     \cup FlagUpTo(r, n, "color_identity", ColorIdentity)
      /\ "error" \notin All("object") /\ c.timestamp = now /\ c.block = 0
  BY DEF FieldsUpTo
<1>7. /\ d.set = IF N("set") THEN v.text ELSE c.set
      /\ d.number = IF N("collector_number") THEN Pack(v.value) ELSE c.number
      /\ d.tcgplayerId = IF N("tcgplayer_id") THEN v.value ELSE c.tcgplayerId
      /\ d.cardmarketId = IF N("cardmarket_id") THEN v.value ELSE c.cardmarketId
      /\ d.colors = IF N("colors") THEN c.colors \cup ColorFlags(v.value) ELSE c.colors
      /\ d.colorIdentity = IF N("color_identity") THEN c.colorIdentity \cup ColorFlags(v.value)
                           ELSE c.colorIdentity
      /\ d.flags = c.flags \cup If(N("object") /\ v.value = "card", IsCard)
                           \cup If(N("tcgplayer_id"), TcgplayerId)
                           \cup If(N("cardmarket_id"), CardmarketId)
                           \cup If(N("colors"), Colors)
                           \cup If(N("color_identity"), ColorIdentity)
      /\ d.timestamp = c.timestamp /\ d.block = c.block
      /\ N("set") => Len(v.text) < MaxSet
      /\ N("object") => v.value # "error"
  BY DEF FieldsAfter
<1> HIDE DEF v, B, A, N, Was, Is, All, Now
<1>8. /\ d.set = IF A("set") = {} THEN <<>> ELSE LastUpTo(r, n + 1, Root, "set").text
      /\ Len(d.set) < MaxSet
  BY <1>1, <1>6, <1>7
<1>9. d.number = IF A("collector_number") = {} THEN {}
                 ELSE Pack(LastUpTo(r, n + 1, Root, "collector_number").value)
  BY <1>1, <1>6, <1>7
<1>10. d.tcgplayerId = Is("tcgplayer_id", {}) /\ d.cardmarketId = Is("cardmarket_id", {})
  BY <1>2, <1>6, <1>7
<1>11. d.colors = ColorsUpTo(r, n + 1, "colors")
  BY <1>5, <1>6, <1>7
<1>12. d.colorIdentity = ColorsUpTo(r, n + 1, "color_identity")
  BY <1>5, <1>6, <1>7
<1>13. "error" \notin Now("object")
  BY <1>4, <1>6, <1>7
<1>14. If("card" \in Now("object"), IsCard) =
         If("card" \in All("object"), IsCard) \cup If(N("object") /\ v.value = "card", IsCard)
  BY <1>4 DEF If
<1>15. d.flags = If("card" \in Now("object"), IsCard)
                   \cup FlagUpTo(r, n + 1, "tcgplayer_id", TcgplayerId)
                   \cup FlagUpTo(r, n + 1, "cardmarket_id", CardmarketId)
                   \cup FlagUpTo(r, n + 1, "colors", Colors)
                   \cup FlagUpTo(r, n + 1, "color_identity", ColorIdentity)
  <2>1. /\ FlagUpTo(r, n + 1, "tcgplayer_id", TcgplayerId)
             = FlagUpTo(r, n, "tcgplayer_id", TcgplayerId) \cup If(N("tcgplayer_id"), TcgplayerId)
        /\ FlagUpTo(r, n + 1, "cardmarket_id", CardmarketId)
             = FlagUpTo(r, n, "cardmarket_id", CardmarketId) \cup If(N("cardmarket_id"),
                                                                     CardmarketId)
        /\ FlagUpTo(r, n + 1, "colors", Colors)
             = FlagUpTo(r, n, "colors", Colors) \cup If(N("colors"), Colors)
        /\ FlagUpTo(r, n + 1, "color_identity", ColorIdentity)
             = FlagUpTo(r, n, "color_identity", ColorIdentity)
                 \cup If(N("color_identity"), ColorIdentity)
    BY <1>3
  <2>2. d.flags = c.flags \cup If(N("object") /\ v.value = "card", IsCard)
                           \cup If(N("tcgplayer_id"), TcgplayerId)
                           \cup If(N("cardmarket_id"), CardmarketId)
                           \cup If(N("colors"), Colors)
                           \cup If(N("color_identity"), ColorIdentity)
    BY <1>7
  <2>3. c.flags = If("card" \in All("object"), IsCard)
                     \cup FlagUpTo(r, n, "tcgplayer_id", TcgplayerId)
                     \cup FlagUpTo(r, n, "cardmarket_id", CardmarketId)
                     \cup FlagUpTo(r, n, "colors", Colors)
                     \cup FlagUpTo(r, n, "color_identity", ColorIdentity)
    BY <1>6
  <2> QED
    BY <1>14, <2>1, <2>2, <2>3
<1>16. d.timestamp = now /\ d.block = 0
  BY <1>6, <1>7
<1> QED
  BY <1>8, <1>9, <1>10, <1>11, <1>12, <1>13, <1>15, <1>16 DEF FieldsUpTo, A, Is, Now

\* What the parser starts with.
LEMMA FieldsBegin ==
  ASSUME NEW r, NEW now, NEW data
  PROVE  FieldsUpTo([NewCard EXCEPT !.timestamp = now, !.data = data], r, 0, now)
<1>1. \A key : Before(r, 0, Root, key) = {}
  BY DEF Before
<1>2. Len(<<>>) < MaxSet
  BY DEF MaxSet
<1> DEFINE c == [NewCard EXCEPT !.timestamp = now, !.data = data]
<1>3. /\ c.set = <<>> /\ c.number = {} /\ c.tcgplayerId = {} /\ c.cardmarketId = {}
      /\ c.colors = {} /\ c.colorIdentity = {} /\ c.flags = {} /\ c.timestamp = now /\ c.block = 0
  BY DEF NewCard
<1> HIDE DEF c
<1>4. /\ ValueUpTo(r, 0, "tcgplayer_id", {}) = {} /\ ValueUpTo(r, 0, "cardmarket_id", {}) = {}
  BY <1>1 DEF ValueUpTo
<1>5. \A key, flag : FlagUpTo(r, 0, key, flag) = {}
  BY <1>1 DEF FlagUpTo, If
<1>6. \A key : AllUpTo(r, 0, key) = {} /\ ColorsUpTo(r, 0, key) = {}
  BY <1>1 DEF AllUpTo, ColorsUpTo
<1>7. If("card" \in AllUpTo(r, 0, "object"), IsCard) = {}
  BY <1>6 DEF If
<1> QED
  BY <1>1, <1>2, <1>3, <1>4, <1>5, <1>6, <1>7 DEF FieldsUpTo, c

\* The function that ParseValues defines.
ParsedBy(parsed, first, r, m) ==
  parsed = [n \in 0..m |-> IF n = 0 THEN first
                           ELSE IF parsed[n - 1].code
                             = "OK" THEN ParseValue(parsed[n - 1].card, r, n)
                           ELSE parsed[n - 1]]
ParseGoesOn(p, r, n) == IF p.code = "OK" THEN ParseValue(p.card, r, n) ELSE p

LEMMA ParsedUnfolds ==
  ASSUME NEW first, NEW r, NEW m \in Nat
  PROVE  \E parsed : ParsedBy(parsed, first, r, m)
<1> DEFINE T == {n \in 0..m : \E parsed : ParsedBy(parsed, first, r, n)}
<1>1. 0 \in T
  <2> DEFINE z == [n \in 0..0 |-> first]
  <2>1. z = [n \in 0..0 |-> IF n = 0 THEN first
                            ELSE IF z[n - 1].code = "OK" THEN ParseValue(z[n - 1].card, r, n)
                            ELSE z[n - 1]]
    OBVIOUS
  <2> HIDE DEF z
  <2>2. ParsedBy(z, first, r, 0)
    BY <2>1 DEF ParsedBy
  <2> QED
    BY <2>2
<1>2. ASSUME NEW n \in 0..(m - 1), n \in T PROVE n + 1 \in T
  <2>1. PICK f : ParsedBy(f, first, r, n)
    BY <1>2
  <2>2. \A i \in 0..n : f[i] = IF i = 0 THEN first ELSE ParseGoesOn(f[i - 1], r, i)
    BY <2>1 DEF ParsedBy, ParseGoesOn
  <2> DEFINE g == [i \in 0..(n + 1) |-> IF i = n + 1 THEN ParseGoesOn(f[n], r, n + 1) ELSE f[i]]
  <2>3. g[n + 1] = ParseGoesOn(f[n], r, n + 1) /\ \A i \in 0..n : g[i] = f[i]
    OBVIOUS
  <2>4. \A i \in 0..(n + 1) : g[i] = IF i = 0 THEN first ELSE ParseGoesOn(g[i - 1], r, i)
    <3> HIDE DEF g
    <3> SUFFICES ASSUME NEW i \in 0..(n + 1)
                 PROVE  g[i] = IF i = 0 THEN first ELSE ParseGoesOn(g[i - 1], r, i)
      OBVIOUS
    <3>1. CASE i = n + 1
      <4>1. i - 1 = n /\ i # 0 /\ n \in 0..n
        BY <3>1
      <4> QED
        BY <2>3, <3>1, <4>1
    <3>2. CASE i # n + 1
      <4>1. i \in 0..n /\ (i # 0 => i - 1 \in 0..n)
        BY <3>2
      <4> QED
        BY <2>2, <2>3, <4>1
    <3> QED
      BY <3>1, <3>2
  <2>5. g = [i \in 0..(n + 1) |-> g[i]]
    OBVIOUS
  <2> HIDE DEF g
  <2>6. ParsedBy(g, first, r, n + 1)
    BY <2>4, <2>5 DEF ParsedBy, ParseGoesOn
  <2> QED
    BY <2>6
<1>3. m \in T
  <2> HIDE DEF T
  <2> QED
    BY <1>1, <1>2, InductionUpTo
<1> QED
  BY <1>3

\* What the parser starts with.
Empty(r, now) == [NewCard EXCEPT !.timestamp = now, !.data = Received(r)]

LEMMA ParseSteps ==
  ASSUME NEW r \in Responses, NEW now
  PROVE  \E parsed : /\ ParseValues(r, now) = parsed[Len(r.values)]
                     /\ parsed[0] = With(Empty(r, now))
                     /\ \A n \in 1..Len(r.values) : parsed[n] = ParseGoesOn(parsed[n - 1], r, n)
<1> DEFINE m == Len(r.values)
           first == With(Empty(r, now))
           k == CHOOSE parsed : ParsedBy(parsed, first, r, m)
<1>1. m \in Nat
  BY ResponseIs
<1>2. ParseValues(r, now) = k[m]
  BY DEF ParseValues, ParsedBy, Empty
<1> HIDE DEF m, first
<1>3. ParsedBy(k, first, r, m)
  BY <1>1, ParsedUnfolds
<1> HIDE DEF k
<1>4. k[0] = first /\ \A n \in 1..m : k[n] = ParseGoesOn(k[n - 1], r, n)
  BY <1>1, <1>3 DEF ParsedBy, ParseGoesOn
<1> QED
  BY <1>2, <1>4 DEF m, first

-----------------------------------------------------------------------------
(* "Not found" comes of an error. *)

IsError(v) == Named(v, Root, "object") /\ v.value = "error"

\* One value ends the parse with "not found" if, and only if, it says error.
LEMMA ErrorIsNotFound ==
  ASSUME NEW r, NEW n, NEW c, IsValue(r.values[n])
  PROVE  ParseValue(c, r, n).code = "NOT_FOUND" <=> IsError(r.values[n])
<1> DEFINE v == r.values[n]
           p == ParseValue(c, r, n)
<1>1. /\ v.type \in {"STRING", "ARRAY", "NESTED"}
      /\ v.type = "NESTED" => v.object # ""
      /\ v.type = "ARRAY" => v.object = "" /\ v.key \notin RootKeys
  BY DEF IsValue
<1>2. CASE v.type = "NESTED"
  <2>1. p = Ends("JSON_RESPONSE_ERROR")
    BY <1>2 DEF ParseValue
  <2> QED
    <3>1. p.code # "NOT_FOUND"
      BY <2>1 DEF Ends
    <3>2. ~IsError(v)
      BY <1>1, <1>2 DEF IsError, Named, Root
    <3> QED
      BY <3>1, <3>2
<1>3. CASE v.type = "ARRAY"
  <2>1. p = With(ParseArray(c, v))
    BY <1>3 DEF ParseValue
  <2>2. p.code = "OK"
    BY <2>1 DEF With
  <2> QED
    BY <1>1, <1>3, <2>2 DEF IsError, Named, RootKeys
<1>4. CASE v.type = "STRING" /\ v.object # ""
  <2>1. p = With(PointTo(c, r, n))
    BY <1>4 DEF ParseValue
  <2>2. p.code = "OK"
    BY <2>1 DEF With
  <2> QED
    BY <1>4, <2>2 DEF IsError, Named, Root
<1>5. CASE v.type = "STRING" /\ v.object = ""
  <2>1. p = ParseRoot(c, r, n)
    BY <1>5 DEF ParseValue
  <2>2. IsError(v) <=> v.key = "object" /\ v.value = "error"
    BY <1>5 DEF IsError, Named, Root
  <2>3. CASE v.key = "set"
    <3>1. p = SetSet(c, v.text)
      BY <2>1, <2>3 DEF ParseRoot
    <3>2. p.code # "NOT_FOUND"
      BY <3>1 DEF SetSet, Ends, With
    <3> QED
      BY <2>2, <2>3, <3>2
  <2>4. CASE v.key = "object"
    <3>1. p = SetObject(c, v.value)
      BY <2>1, <2>4 DEF ParseRoot
    <3>2. p.code = "NOT_FOUND" <=> v.value = "error"
      BY <3>1 DEF SetObject, Ends, With
    <3> QED
      BY <2>2, <2>4, <3>2
  <2>5. CASE v.key = "collector_number"
    <3>1. p = SetNumber(c, v.value)
      BY <2>1, <2>5 DEF ParseRoot
    <3>2. p.code # "NOT_FOUND"
      BY <3>1 DEF SetNumber, NumberFromString, With
    <3> QED
      BY <2>2, <2>5, <3>2
  <2>6. CASE v.key = "tcgplayer_id"
    <3> DEFINE e == [c EXCEPT !.flags = @ \cup TcgplayerId, !.tcgplayerId = v.value]
    <3>1. p = With(e)
      BY <2>1, <2>6 DEF ParseRoot
    <3> HIDE DEF e, p
    <3>2. p.code = "OK"
      BY <3>1 DEF With
    <3> QED
      BY <2>2, <2>6, <3>2 DEF p
  <2>7. CASE v.key = "cardmarket_id"
    <3> DEFINE e == [c EXCEPT !.flags = @ \cup CardmarketId, !.cardmarketId = v.value]
    <3>1. p = With(e)
      BY <2>1, <2>7 DEF ParseRoot
    <3> HIDE DEF e, p
    <3>2. p.code = "OK"
      BY <3>1 DEF With
    <3> QED
      BY <2>2, <2>7, <3>2 DEF p
  <2>8. CASE v.key \notin {"set", "object", "collector_number", "tcgplayer_id", "cardmarket_id"}
    <3>1. p = With(PointTo(c, r, n))
      BY <2>1, <2>8 DEF ParseRoot
    <3>2. p.code = "OK"
      BY <3>1 DEF With
    <3> QED
      BY <2>2, <2>8, <3>2
  <2> QED
    BY <2>3, <2>4, <2>5, <2>6, <2>7, <2>8
<1> QED
  BY <1>1, <1>2, <1>3, <1>4, <1>5

\* A parse ends with "not found" at the first value or not at all.
LEMMA ParseNotFound ==
  ASSUME ObjectFirst, NEW r \in Responses, NEW now
  PROVE  ParseValues(r, now).code = "NOT_FOUND" <=> \E n \in 1..Len(r.values) : IsError(r.values[n])
<1> DEFINE N == Len(r.values)
<1>1. PICK f : /\ ParseValues(r, now) = f[N]
               /\ f[0] = With(Empty(r, now))
               /\ \A n \in 1..N : f[n] = ParseGoesOn(f[n - 1], r, n)
  BY ParseSteps
<1>2. N \in Nat /\ DOMAIN r.values = 1..N /\ \A n \in 1..N : IsValue(r.values[n])
  BY ResponseIs
<1>3. f[0].code = "OK"
  BY <1>1 DEF With
<1>4. \A n \in 1..N : f[n].code = "NOT_FOUND" <=>
         \/ f[n - 1].code = "OK" /\ IsError(r.values[n])
         \/ f[n - 1].code = "NOT_FOUND"
  <2> SUFFICES ASSUME NEW n \in 1..N
               PROVE  f[n].code = "NOT_FOUND" <=>
                        \/ f[n - 1].code = "OK" /\ IsError(r.values[n])
                        \/ f[n - 1].code = "NOT_FOUND"
    OBVIOUS
  <2>1. f[n] = ParseGoesOn(f[n - 1], r, n)
    BY <1>1
  <2>2. ParseValue(f[n - 1].card, r, n).code = "NOT_FOUND" <=> IsError(r.values[n])
    BY <1>2, ErrorIsNotFound
  <2> QED
    BY <2>1, <2>2 DEF ParseGoesOn
<1>5. \A n \in 1..N : IsError(r.values[n]) => n = 1
  BY <1>2 DEF IsError, Named, Root, ObjectFirst
<1> DEFINE T == {n \in 0..N : /\ f[n].code = "NOT_FOUND" => \E m \in 1..N : IsError(r.values[m])
                              /\ n >= 1 /\ (\E m \in 1..N : IsError(r.values[m]))
                                  => f[n].code = "NOT_FOUND"}
<1> HIDE DEF N
<1>6. 0 \in T
  BY <1>2, <1>3
<1>7. ASSUME NEW n \in 0..(N - 1), n \in T PROVE n + 1 \in T
  <2>1. n + 1 \in 1..N /\ (n + 1) - 1 = n
    BY <1>2
  <2>2. f[n + 1].code = "NOT_FOUND" <=>
          \/ f[n].code = "OK" /\ IsError(r.values[n + 1])
          \/ f[n].code = "NOT_FOUND"
    BY <1>4, <2>1
  <2>3. ASSUME NEW m \in 1..N, IsError(r.values[m]) PROVE f[n + 1].code = "NOT_FOUND"
    <3>1. m = 1
      BY <1>5, <2>3
    <3>2. CASE n = 0
      BY <1>3, <2>2, <2>3, <3>1, <3>2
    <3>3. CASE n >= 1
      BY <1>7, <2>2, <2>3, <3>3
    <3> QED
      BY <3>2, <3>3
  <2> QED
    BY <1>7, <2>1, <2>2, <2>3
<1>8. N \in T
  <2>1. N \in Nat
    BY <1>2
  <2> HIDE DEF T
  <2>2. 0..N \subseteq T
    BY <1>6, <1>7, <2>1, InductionUpTo
  <2> QED
    BY <2>1, <2>2
<1>9. N >= 1 <=> 1 \in 1..N
  BY <1>2
<1>10. /\ f[N].code = "NOT_FOUND" => \E m \in 1..N : IsError(r.values[m])
       /\ N >= 1 /\ (\E m \in 1..N : IsError(r.values[m])) => f[N].code = "NOT_FOUND"
  BY <1>8
<1>11. ParseValues(r, now).code = "NOT_FOUND" <=> \E n \in 1..N : IsError(r.values[n])
  <2>1. ParseValues(r, now).code = f[N].code
    BY <1>1 DEF N
  <2>2. (\E m \in 1..N : IsError(r.values[m])) => N >= 1
    BY <1>2
  <2> QED
    BY <1>10, <2>1, <2>2
<1> QED
  BY <1>11 DEF N

\* What the values say of the kind of the object, in the words of the properties.
LEMMA ErrorSaid ==
  ASSUME ObjectFirst, NEW r \in Responses, origin.response = r
  PROVE  (\E n \in 1..Len(r.values) : IsError(r.values[n])) <=> SaidOr("object", "none") = "error"
<1> DEFINE S == Said("", "object")
<1>1. Len(r.values) \in Nat /\ DOMAIN r.values = 1..Len(r.values)
  BY ResponseIs
<1>2. S = {n \in 1..Len(r.values) : Named(r.values[n], Root, "object")}
  BY <1>1 DEF Said, Response, Named, Root
<1>3. \A n \in S : n = 1
  BY <1>1 DEF Said, Response, ObjectFirst
<1>4. CASE S = {}
  <2>1. SaidOr("object", "none") = "none"
    BY <1>4 DEF SaidOr
  <2> QED
    BY <1>2, <1>4, <2>1 DEF IsError
<1>5. CASE S # {}
  <2>1. S = {1}
    BY <1>3, <1>5
  <2>2. Max(S) = 1
    <3> HIDE DEF S
    <3>1. S \subseteq 0..1 /\ S # {}
      BY <2>1
    <3>2. Max(S) \in S
      BY <3>1, GreatestBit
    <3> QED
      BY <2>1, <3>2
  <2>3. SaidOr("object", "none") = r.values[1].value
    BY <1>5, <2>2 DEF SaidOr, LastSaid, Response
  <2> HIDE DEF S
  <2> QED
    BY <1>2, <2>1, <2>3 DEF IsError
<1> QED
  BY <1>4, <1>5

-----------------------------------------------------------------------------
(* The text of the response and the strings in it. *)

End(r, n) == Len(TextOf(r, n))

LEMMA TextAgrees ==
  ASSUME NEW r \in Responses, NEW n \in 1..Len(r.values)
  PROVE  /\ End(r, n - 1) \in Nat /\ End(r, n) \in Nat /\ End(r, n - 1) < End(r, n)
         /\ \A k \in 1..End(r, n - 1) : TextOf(r, n)[k] = TextOf(r, n - 1)[k]
         /\ Len(r.values[n].text) \in Nat
         /\ \A k \in 1..Len(r.values[n].text) : TextOf(r, n)[Start(r, n) + k] = r.values[n].text[k]
         /\ Start(r, n) = End(r, n - 1) + 1
         /\ End(r, n) = Start(r, n) + Len(r.values[n].text) + 1
<1> DEFINE a == TextOf(r, n - 1)
           t == r.values[n].text
           l == Len(t)
           mark == <<Mark>>
           chunk == mark \o t \o mark
<1>1. /\ a \in Seq(Byte) /\ t \in Seq(Byte \ {NUL}) /\ TextOf(r, n) = a \o chunk
      /\ TextOf(r, n) \in Seq(Byte)
      /\ Len(TextOf(r, n)) = Start(r, n) + Len(t) + 1 /\ Start(r, n) = Len(a) + 1
  BY TextGrows DEF Bytes
<1>2. t \in Seq(Byte)
  <2> HIDE DEF t
  <2> QED
    BY <1>1
<1>3. mark \in Seq(Byte) /\ Len(mark) = 1
  BY DEF Mark, Byte, Width
<1> HIDE DEF t, mark, a
<1>4. l \in Nat /\ Len(a) \in Nat /\ Len(TextOf(r, n)) \in Nat
  BY <1>1, <1>2, LenProperties
<1>5. mark \o t \in Seq(Byte) /\ Len(mark \o t) = 1 + l
  BY <1>2, <1>3, ConcatProperties
<1>6. \A k \in 1..l : 1 + k \in 1..Len(mark \o t) /\ (mark \o t)[1 + k] = t[k]
  <2> SUFFICES ASSUME NEW k \in 1..l PROVE 1 + k \in 1..Len(mark \o t) /\ (mark \o t)[1 + k] = t[k]
    OBVIOUS
  <2>1. 1 + k \in 1..(1 + l) /\ ~(1 + k <= 1) /\ (1 + k) - 1 = k
    BY <1>4
  <2> QED
    BY <1>2, <1>3, <1>5, <2>1, ConcatProperties
<1>7. chunk \in Seq(Byte) /\ Len(chunk) = l + 2 /\ \A k \in 1..(1 + l) : chunk[k] = (mark \o t)[k]
  <2>1. chunk \in Seq(Byte) /\ Len(chunk) = (1 + l) + 1
    BY <1>3, <1>5, ConcatProperties
  <2>2. \A k \in 1..(1 + l) : chunk[k] = (mark \o t)[k]
    <3> SUFFICES ASSUME NEW k \in 1..(1 + l) PROVE chunk[k] = (mark \o t)[k]
      OBVIOUS
    <3>1. k \in 1..((1 + l) + 1) /\ k <= 1 + l
      BY <1>4
    <3> QED
      BY <1>3, <1>5, <3>1, ConcatProperties
  <2>3. (1 + l) + 1 = l + 2
    BY <1>4
  <2> QED
    BY <2>1, <2>2, <2>3
<1>8. \A k \in 1..l : chunk[1 + k] = t[k]
  BY <1>4, <1>5, <1>6, <1>7
<1> HIDE DEF chunk
<1>9. \A k \in 1..Len(a) : TextOf(r, n)[k] = a[k]
  <2> SUFFICES ASSUME NEW k \in 1..Len(a) PROVE TextOf(r, n)[k] = a[k]
    OBVIOUS
  <2>1. (a \o chunk)[k] = a[k]
    BY <1>1, <1>7, FrontAndRest
  <2> QED
    BY <1>1, <2>1
<1>10. \A k \in 1..l : TextOf(r, n)[Start(r, n) + k] = t[k]
  <2> SUFFICES ASSUME NEW k \in 1..l PROVE TextOf(r, n)[Start(r, n) + k] = t[k]
    OBVIOUS
  <2> DEFINE b == Len(a)
             j == b + 1 + k
  <2>1. b \in Nat
    BY <1>4
  <2>2. j \in 1..(b + (l + 2)) /\ ~(j <= b) /\ j - b = 1 + k
    <3> HIDE DEF b
    <3> QED
      BY <1>4, <2>1
  <2>3. (a \o chunk)[j] = chunk[j - b]
    BY <1>1, <1>7, <2>2, ConcatProperties
  <2>4. Start(r, n) + k = j
    BY <1>1
  <2> HIDE DEF j, b
  <2> QED
    BY <1>1, <1>8, <2>2, <2>3, <2>4
<1>11. /\ End(r, n - 1) = Len(a) /\ End(r, n) = Start(r, n) + l + 1 /\ Start(r, n) = Len(a) + 1
  BY <1>1 DEF End, a
<1> HIDE DEF l
<1>12. End(r, n - 1) < End(r, n) /\ End(r, n - 1) \in Nat /\ End(r, n) \in Nat
  BY <1>4, <1>11
<1> QED
  BY <1>4, <1>9, <1>10, <1>11, <1>12 DEF l, t, a

LEMMA TextIsPrefix ==
  ASSUME NEW r \in Responses, NEW n \in 0..Len(r.values)
  PROVE  /\ TextOf(r, n) \in Seq(Byte) /\ End(r, n) \in Nat
         /\ \A m \in 0..n : /\ End(r, m) \in Nat /\ End(r, m) <= End(r, n)
                            /\ \A k \in 1..End(r, m) : TextOf(r, n)[k] = TextOf(r, m)[k]
<1> DEFINE N == Len(r.values)
           P(j) == \A m \in 0..j : /\ End(r, m) \in Nat /\ End(r, m) <= End(r, j)
                                   /\ \A k \in 1..End(r, m) : TextOf(r, j)[k] = TextOf(r, m)[k]
           T == {j \in 0..N : P(j)}
<1>1. N \in Nat
  BY ResponseIs
<1>2. TextOf(r, 0) = <<>>
  <2>1. Chunks(r, 0) = <<>>
    BY DEF Chunks
  <2> QED
    BY <2>1, FlattenOfNone DEF TextOf
<1>3. \A j \in 0..N : TextOf(r, j) \in Seq(Byte) /\ End(r, j) \in Nat
  <2> SUFFICES ASSUME NEW j \in 0..N PROVE TextOf(r, j) \in Seq(Byte) /\ End(r, j) \in Nat
    OBVIOUS
  <2>1. CASE j = 0
    <3>1. <<>> \in Seq(Byte) /\ Len(<<>>) \in Nat
      BY EmptySeq
    <3> QED
      BY <1>2, <2>1, <3>1 DEF End
  <2>2. CASE j # 0
    <3>1. j \in 1..N
      BY <2>2
    <3>2. TextOf(r, j) \in Seq(Byte)
      BY <3>1, TextGrows DEF Bytes
    <3> QED
      BY <3>2, LenProperties DEF End
  <2> QED
    BY <2>1, <2>2
<1>4. 0 \in T
  <2>1. P(0)
    <3> SUFFICES ASSUME NEW m \in 0..0
                 PROVE  /\ End(r, m) \in Nat /\ End(r, m) <= End(r, 0)
                        /\ \A k \in 1..End(r, m) : TextOf(r, 0)[k] = TextOf(r, m)[k]
      OBVIOUS
    <3>1. m = 0 /\ 0 \in 0..N
      BY <1>1
    <3>2. End(r, 0) \in Nat
      BY <1>3, <3>1
    <3> QED
      BY <3>1, <3>2
  <2> QED
    BY <1>1, <2>1
<1>5. ASSUME NEW j \in 0..(N - 1), j \in T PROVE j + 1 \in T
  <2> DEFINE i == j + 1
  <2>1. i \in 1..N /\ i - 1 = j /\ j \in 0..j
    BY <1>1
  <2>2. /\ End(r, j) \in Nat /\ End(r, i) \in Nat /\ End(r, j) < End(r, i)
        /\ \A k \in 1..End(r, j) : TextOf(r, i)[k] = TextOf(r, j)[k]
    <3> HIDE DEF i
    <3> QED
      BY <2>1, TextAgrees
  <2>3. P(j)
    BY <1>5
  <2>4. P(i)
    <3> SUFFICES ASSUME NEW m \in 0..i
                 PROVE  /\ End(r, m) \in Nat /\ End(r, m) <= End(r, i)
                        /\ \A k \in 1..End(r, m) : TextOf(r, i)[k] = TextOf(r, m)[k]
      OBVIOUS
    <3>1. CASE m = i
      BY <2>2, <3>1
    <3>2. CASE m # i
      <4>1. m \in 0..j
        BY <3>2
      <4>2. /\ End(r, m) \in Nat /\ End(r, m) <= End(r, j)
            /\ \A k \in 1..End(r, m) : TextOf(r, j)[k] = TextOf(r, m)[k]
        BY <2>3, <4>1
      <4> HIDE DEF i, P
      <4>3. End(r, m) <= End(r, i) /\ \A k \in 1..End(r, m) : k \in 1..End(r, j)
        BY <2>2, <4>2
      <4> QED
        BY <2>2, <4>2, <4>3
    <3> QED
      BY <3>1, <3>2
  <2> QED
    BY <2>1, <2>4
<1>6. 0..N \subseteq T
  <2> HIDE DEF T
  <2> QED
    BY <1>1, <1>4, <1>5, InductionUpTo
<1> QED
  BY <1>3, <1>6

\* Where each value is in the whole text.
LEMMA ValueInText ==
  ASSUME NEW r \in Responses, NEW n \in 1..Len(r.values)
  PROVE  /\ Start(r, n) \in Nat /\ Len(r.values[n].text) \in Nat
         /\ End(r, n) = Start(r, n) + Len(r.values[n].text) + 1
         /\ End(r, n) <= End(r, Len(r.values))
         /\ \A k \in 1..Len(r.values[n].text) :
              TextOf(r, Len(r.values))[Start(r, n) + k] = r.values[n].text[k]
<1> DEFINE N == Len(r.values)
           t == r.values[n].text
           s == Start(r, n)
<1>1. N \in Nat
  BY ResponseIs
<1>2. /\ End(r, n - 1) \in Nat /\ End(r, n) \in Nat /\ Len(t) \in Nat
      /\ \A k \in 1..Len(t) : TextOf(r, n)[s + k] = t[k]
      /\ s = End(r, n - 1) + 1 /\ End(r, n) = s + Len(t) + 1
  BY TextAgrees
<1>3. N \in 0..N /\ n \in 0..N
  BY <1>1
<1>4. /\ End(r, n) <= End(r, N)
      /\ \A k \in 1..End(r, n) : TextOf(r, N)[k] = TextOf(r, n)[k]
  BY <1>3, TextIsPrefix
<1> DEFINE l == Len(t)
<1> HIDE DEF N, l, s
<1>5. s \in Nat
  BY <1>2
<1>6. \A k \in 1..l : s + k \in 1..End(r, n)
  BY <1>2, <1>5 DEF l
<1> QED
  BY <1>2, <1>4, <1>5, <1>6 DEF l, N, s

\* The values are apart from each other.
LEMMA ValuesApart ==
  ASSUME NEW r \in Responses, NEW m \in 1..Len(r.values), NEW n \in 1..Len(r.values),
         NEW k \in 1..Len(r.values[m].text)
  PROVE  Start(r, m) + k # End(r, n)
<1> DEFINE l == Len(r.values[m].text)
<1>0. Len(r.values) \in Nat
  BY ResponseIs
<1>1. Start(r, m) \in Nat /\ l \in Nat /\ End(r, m) = Start(r, m) + l + 1
  BY ValueInText
<1>2. End(r, m - 1) \in Nat /\ Start(r, m) = End(r, m - 1) + 1
  BY TextAgrees
<1>3. End(r, m) \in Nat /\ End(r, n) \in Nat
  BY <1>1, TextAgrees
<1>4. CASE m <= n
  <2>1. m \in 0..n /\ n \in 0..Len(r.values)
    BY <1>0, <1>4
  <2>2. End(r, m) <= End(r, n)
    BY <2>1, TextIsPrefix
  <2> HIDE DEF l
  <2> QED
    BY <1>1, <1>3, <2>2 DEF l
<1>5. CASE n < m
  <2>1. n \in 0..(m - 1) /\ m - 1 \in 0..Len(r.values)
    BY <1>0, <1>5
  <2>2. End(r, n) <= End(r, m - 1)
    BY <2>1, TextIsPrefix
  <2> HIDE DEF l
  <2> QED
    BY <1>1, <1>2, <1>3, <2>2 DEF l
<1> QED
  BY <1>4, <1>5

LEMMA ReceivedIsText ==
  ASSUME NEW r \in Responses
  PROVE  Received(r) = TextOf(r, Len(r.values))
<1> DEFINE N == Len(r.values)
           chunks == Chunks(r, N)
<1>1. N \in Nat /\ \A k \in 1..N : r.values[k].text \in Seq(Byte \ {NUL})
  BY ResponseIs DEF IsValue
<1>2. \A k \in 1..N : <<Mark>> \o r.values[k].text \o <<Mark>> \in Bytes
  <2> SUFFICES ASSUME NEW k \in 1..N PROVE <<Mark>> \o r.values[k].text \o <<Mark>> \in Bytes
    OBVIOUS
  <2> DEFINE t == r.values[k].text
             mark == <<Mark>>
  <2>1. t \in Seq(Byte \ {NUL})
    BY <1>1
  <2>2. mark \in Seq(Byte)
    BY DEF Mark, Byte, Width
  <2> HIDE DEF t, mark
  <2>3. t \in Seq(Byte)
    BY <2>1
  <2>4. mark \o t \in Seq(Byte)
    BY <2>2, <2>3, ConcatProperties
  <2>5. (mark \o t) \o mark \in Seq(Byte)
    BY <2>2, <2>4, ConcatProperties
  <2> QED
    BY <2>5 DEF t, mark, Bytes
<1>3. chunks \in Seq(Bytes)
  <2>1. chunks \in [1..N -> Bytes]
    BY <1>2 DEF Chunks
  <2> HIDE DEF chunks
  <2> QED
    BY <1>1, <2>1, FunctionIsSeq
<1> HIDE DEF chunks
<1>4. WellFormed(Collected(chunks)) /\ Contents(Collected(chunks)) = FlattenSeq(chunks)
  BY <1>3, CollectedHolds
<1> DEFINE b == Collected(chunks)
<1>5. SubSeq(Detached(b).data, 1, Detached(b).size) = Contents(b)
  BY <1>4, DetachedHolds
<1>6. Received(r) = SubSeq(Detached(b).data, 1, Detached(b).size)
  BY DEF Received, chunks
<1> QED
  BY <1>4, <1>5, <1>6 DEF chunks, TextOf

\* The values of the first n that give string i.
Giving(r, n, i) == Before(r, n, StringEntries[i].object, StringEntries[i].key)

\* The strings after n values: where the last value that gives one starts, with
\* all texts in place and a NUL behind those that are a string.
StringsUpTo(c, r, n) ==
  /\ Len(c.data) = End(r, Len(r.values))
  /\ \A i \in StringIndex :
       c.offsets[i] = IF i \in filter /\ Giving(r, n, i) # {}
                      THEN Start(r, Max(Giving(r, n, i))) ELSE NoOffset
  /\ \A m \in 1..Len(r.values) : \A k \in 1..Len(r.values[m].text) :
       c.data[Start(r, m) + k] = r.values[m].text[k]
  /\ \A m \in 1..n : StringOf(r.values[m], filter) # {} => c.data[End(r, m)] = NUL

LastBefore(r, n, object, key) ==
  /\ Named(r.values[n + 1], object, key)
       => Before(r, n + 1, object, key) # {} /\ Max(Before(r, n + 1, object, key)) = n + 1
  /\ ~Named(r.values[n + 1], object, key)
       => Before(r, n + 1, object, key) = Before(r, n, object, key)

LEMMA LastBeforeHolds ==
  ASSUME NEW r, NEW n \in Nat, NEW object, NEW key
  PROVE  LastBefore(r, n, object, key)
BY LastOfBefore DEF LastBefore

LEMMA ColorFlagsAreAByte ==
  ASSUME NEW letters
  PROVE  ColorFlags(letters) \in Byte
<1>1. \A l : ColorFlag(l) \subseteq 0..7
  BY DEF ColorFlag
<1> QED
  BY <1>1 DEF ColorFlags, Byte, Width

LEMMA NewDataIs ==
  ASSUME NEW r \in Responses, NEW n \in 1..Len(r.values), NEW c \in CardFields,
         Len(c.data) = End(r, Len(r.values))
  PROVE  /\ NewData(c, r, n) \in Seq(Byte) /\ Len(NewData(c, r, n)) = Len(c.data)
         /\ \A k \in 1..Len(c.data) : k # End(r, n) => NewData(c, r, n)[k] = c.data[k]
         /\ \A k \in 1..Len(c.data) : c.data[k] = NUL => NewData(c, r, n)[k] = NUL
         /\ StringOf(r.values[n], filter) # {} => NewData(c, r, n)[End(r, n)] = NUL
<1> DEFINE a == c.data
           e == End(r, n)
           b == [a EXCEPT ![e] = NUL]
<1>1. a \in Seq(Byte)
  BY DEF CardFields
<1>2. e \in 1..Len(a)
  <2>1. /\ Start(r, n) \in Nat /\ Len(r.values[n].text) \in Nat
        /\ End(r, n) = Start(r, n) + Len(r.values[n].text) + 1
        /\ End(r, n) <= Len(a)
    BY ValueInText
  <2>2. Len(a) \in Nat
    BY <1>1, LenProperties
  <2> DEFINE s == Start(r, n)
             l == Len(r.values[n].text)
             z == Len(a)
  <2> HIDE DEF s, l, z, e
  <2>3. s \in Nat /\ l \in Nat /\ z \in Nat /\ e = s + l + 1 /\ e <= z
    BY <2>1, <2>2 DEF s, l, z, e
  <2>4. e \in 1..z
    BY <2>3
  <2> QED
    BY <2>4 DEF z
<1> HIDE DEF a, e
<1>3. b \in Seq(Byte) /\ Len(b) = Len(a) /\ \A k \in 1..Len(a) : b[k] = IF k = e THEN NUL ELSE a[k]
  <2>1. NUL \in Byte
    BY DEF NUL, Byte, Width
  <2> QED
    BY <1>1, <1>2, <2>1
<1>4. NewData(c, r, n) = IF StringOf(r.values[n], filter) = {} THEN a ELSE b
  BY DEF NewData, a, b, e, End
<1> HIDE DEF b
<1> QED
  BY <1>1, <1>2, <1>3, <1>4 DEF a, e

LEMMA FieldsAfterTyped ==
  ASSUME NEW r \in Responses, NEW n \in 1..Len(r.values), NEW c \in CardFields, NEW d,
         Len(c.data) = End(r, Len(r.values)),
         FieldsAfter(c, d, r.values[n]), StringsAfter(c, d, r, n)
  PROVE  d \in CardFields
<1> DEFINE v == r.values[n]
<1>1. IsValue(v) /\ Start(r, n) \in Nat
  BY ValueStarts
<1>2. /\ c.number \in Word /\ c.set \in Seq(Byte) /\ c.flags \in SUBSET (0..5)
      /\ c.tcgplayerId \in Word /\ c.cardmarketId \in Word /\ c.colors \in Byte
      /\ c.colorIdentity \in Byte /\ c.timestamp \in Word64 /\ c.data \in Seq(Byte)
      /\ c.offsets \in [StringIndex -> Nat \cup {NoOffset}] /\ c.block \in Nat
  BY DEF CardFields
<1>3. /\ v.text \in Seq(Byte \ {NUL})
      /\ Named(v, Root, "collector_number") => v.value \in Text
      /\ Named(v, Root, "tcgplayer_id") => v.value \in Word
      /\ Named(v, Root, "cardmarket_id") => v.value \in Word
  BY <1>1 DEF IsValue, Named, Root
<1>4. v.text \in Seq(Byte)
  <2> DEFINE t == v.text
  <2>1. t \in Seq(Byte \ {NUL})
    BY <1>3
  <2> HIDE DEF t
  <2>2. t \in Seq(Byte)
    BY <2>1
  <2> QED
    BY <2>2 DEF t
<1>5. IsMade(d)
  BY DEF FieldsAfter
<1>6. d.number \in Word
  <2>1. Named(v, Root, "collector_number") => Pack(v.value) \in Word
    BY <1>3, PackIsAWord
  <2>2. d.number = IF Named(v, Root, "collector_number") THEN Pack(v.value) ELSE c.number
    BY DEF FieldsAfter
  <2> QED
    BY <1>2, <2>1, <2>2
<1>7. d.set \in Seq(Byte)
  <2>1. d.set = IF Named(v, Root, "set") THEN v.text ELSE c.set
    BY DEF FieldsAfter
  <2> QED
    BY <1>2, <1>4, <2>1
<1>8. d.flags \in SUBSET (0..5)
  <2>1. d.flags = c.flags \cup If(Named(v, Root, "object") /\ v.value = "card", IsCard)
                          \cup If(Named(v, Root, "tcgplayer_id"), TcgplayerId)
                          \cup If(Named(v, Root, "cardmarket_id"), CardmarketId)
                          \cup If(Named(v, Root, "colors"), Colors)
                          \cup If(Named(v, Root, "color_identity"), ColorIdentity)
    BY DEF FieldsAfter
  <2>2. \A x, y : If(x, y) \subseteq y
    BY DEF If
  <2>3. /\ IsCard \subseteq 0..5 /\ TcgplayerId \subseteq 0..5 /\ CardmarketId \subseteq 0..5
        /\ Colors \subseteq 0..5 /\ ColorIdentity \subseteq 0..5
    BY DEF IsCard, TcgplayerId, CardmarketId, Colors, ColorIdentity
  <2>4. /\ If(Named(v, Root, "object") /\ v.value = "card", IsCard) \subseteq 0..5
        /\ If(Named(v, Root, "tcgplayer_id"), TcgplayerId) \subseteq 0..5
        /\ If(Named(v, Root, "cardmarket_id"), CardmarketId) \subseteq 0..5
        /\ If(Named(v, Root, "colors"), Colors) \subseteq 0..5
        /\ If(Named(v, Root, "color_identity"), ColorIdentity) \subseteq 0..5
    BY <2>3 DEF If
  <2> QED
    BY <1>2, <2>1, <2>4
<1>9. d.tcgplayerId \in Word /\ d.cardmarketId \in Word
  <2>1. /\ d.tcgplayerId  = IF Named(v, Root, "tcgplayer_id") THEN v.value ELSE c.tcgplayerId
        /\ d.cardmarketId = IF Named(v, Root, "cardmarket_id") THEN v.value ELSE c.cardmarketId
    BY DEF FieldsAfter
  <2> QED
    BY <1>2, <1>3, <2>1
<1>10. d.colors \in Byte /\ d.colorIdentity \in Byte
  <2>1. /\ d.colors =
             IF Named(v, Root, "colors") THEN c.colors \cup ColorFlags(v.value) ELSE c.colors
        /\ d.colorIdentity =
             IF Named(v, Root, "color_identity") THEN c.colorIdentity \cup ColorFlags(v.value)
             ELSE c.colorIdentity
    BY DEF FieldsAfter
  <2>2. ColorFlags(v.value) \in Byte
    BY ColorFlagsAreAByte
  <2>3. \A x, y \in Byte : x \cup y \in Byte
    BY DEF Byte, Width
  <2> QED
    BY <1>2, <2>1, <2>2, <2>3
<1>11. d.timestamp \in Word64 /\ d.block \in Nat
  BY <1>2 DEF FieldsAfter
<1>12. d.data \in Seq(Byte)
  BY NewDataIs DEF StringsAfter
<1>13. d.offsets \in [StringIndex -> Nat \cup {NoOffset}]
  <2>1. d.offsets = NewOffsets(c, r, n)
    BY DEF StringsAfter
  <2> QED
    BY <1>1, <1>2, <2>1 DEF NewOffsets
<1> HIDE DEF v
<1> QED
  BY <1>5, <1>6, <1>7, <1>8, <1>9, <1>10, <1>11, <1>12, <1>13, CardOfTypes

LEMMA StringsGoOn ==
  ASSUME NEW r \in Responses, NEW n \in 0..(Len(r.values) - 1), NEW c \in CardFields, NEW d,
         filter \subseteq StringIndex,
         StringsUpTo(c, r, n), StringsAfter(c, d, r, n + 1)
  PROVE  StringsUpTo(d, r, n + 1)
<1> DEFINE N == Len(r.values)
           j == n + 1
           v == r.values[j]
           w == NewData(c, r, j)
<1>1. N \in Nat /\ n \in Nat
  BY ResponseIs
<1>2. j \in 1..N
  BY <1>1
<1>3. IsValue(v)
  BY <1>2, ResponseIs
<1>4. /\ Len(c.data) = End(r, N)
      /\ \A i \in StringIndex :
           c.offsets[i] = IF i \in filter /\ Giving(r, n, i) # {}
                          THEN Start(r, Max(Giving(r, n, i))) ELSE NoOffset
      /\ \A m \in 1..N : \A k \in 1..Len(r.values[m].text) :
           c.data[Start(r, m) + k] = r.values[m].text[k]
      /\ \A m \in 1..n : StringOf(r.values[m], filter) # {} => c.data[End(r, m)] = NUL
  BY DEF StringsUpTo
<1>5. d.data = w /\ d.offsets = NewOffsets(c, r, j)
  BY DEF StringsAfter
<1> HIDE DEF j
<1>6. /\ w \in Seq(Byte) /\ Len(w) = Len(c.data)
      /\ \A k \in 1..Len(c.data) : k # End(r, j) => w[k] = c.data[k]
      /\ \A k \in 1..Len(c.data) : c.data[k] = NUL => w[k] = NUL
      /\ StringOf(v, filter) # {} => w[End(r, j)] = NUL
  BY <1>2, <1>4, NewDataIs
<1> HIDE DEF w
<1>7. \A i \in StringIndex :
        d.offsets[i] = IF i \in filter /\ Giving(r, j, i) # {}
                       THEN Start(r, Max(Giving(r, j, i))) ELSE NoOffset
  <2> SUFFICES ASSUME NEW i \in StringIndex
               PROVE  d.offsets[i] = IF i \in filter /\ Giving(r, j, i) # {}
                                     THEN Start(r, Max(Giving(r, j, i))) ELSE NoOffset
    OBVIOUS
  <2> DEFINE o == StringEntries[i].object
             y == StringEntries[i].key
  <2>1. d.offsets[i] = IF i \in StringOf(v, filter) THEN Start(r, j) ELSE c.offsets[i]
    BY <1>5 DEF NewOffsets
  <2>2. i \in StringOf(v, filter) <=> i \in filter /\ Named(v, o, y)
    BY <1>3, StringsOfValues
  <2> HIDE DEF o, y
  <2>3. /\ Named(v, o, y) => Before(r, j, o, y) # {} /\ Max(Before(r, j, o, y)) = j
        /\ ~Named(v, o, y) => Before(r, j, o, y) = Before(r, n, o, y)
    <3>1. n \in Nat
      BY <1>1
    <3>2. /\ Named(r.values[n + 1], o, y)
               => Before(r, n + 1, o, y) # {} /\ Max(Before(r, n + 1, o, y)) = n + 1
          /\ ~Named(r.values[n + 1], o, y) => Before(r, n + 1, o, y) = Before(r, n, o, y)
      <4>1. LastBefore(r, n, o, y)
        BY <3>1, LastBeforeHolds
      <4> QED
        BY <4>1 DEF LastBefore
    <3> QED
      BY <3>2 DEF j
  <2>4. Giving(r, j, i) = Before(r, j, o, y) /\ Giving(r, n, i) = Before(r, n, o, y)
    BY DEF Giving, o, y
  <2>5. CASE i \in filter /\ Named(v, o, y)
    BY <2>1, <2>2, <2>3, <2>4, <2>5
  <2>6. CASE i \in filter /\ ~Named(v, o, y)
    BY <1>4, <2>1, <2>2, <2>3, <2>4, <2>6
  <2>7. CASE i \notin filter
    BY <1>4, <2>1, <2>2, <2>7
  <2> QED
    BY <2>5, <2>6, <2>7
<1>8. \A m \in 1..N : \A k \in 1..Len(r.values[m].text) :
        w[Start(r, m) + k] = r.values[m].text[k]
  <2> SUFFICES ASSUME NEW m \in 1..N, NEW k \in 1..Len(r.values[m].text)
               PROVE  w[Start(r, m) + k] = r.values[m].text[k]
    OBVIOUS
  <2> DEFINE p == Start(r, m) + k
  <2>1. p # End(r, j)
    BY <1>2, ValuesApart
  <2>2. p \in 1..Len(c.data)
    <3>1. /\ Start(r, m) \in Nat /\ Len(r.values[m].text) \in Nat
          /\ End(r, m) = Start(r, m) + Len(r.values[m].text) + 1
          /\ End(r, m) <= End(r, N)
      BY ValueInText
    <3>1a. End(r, N) \in Nat
      <4>1. N \in 0..N
        BY <1>1
      <4> QED
        BY <4>1, TextIsPrefix
    <3> DEFINE s == Start(r, m)
               l == Len(r.values[m].text)
               z == End(r, N)
    <3> HIDE DEF s, l, z
    <3>2. s \in Nat /\ l \in Nat /\ z \in Nat /\ s + l + 1 <= z /\ k \in 1..l
      BY <3>1, <3>1a DEF s, l, z
    <3>3. s + k \in 1..z
      BY <3>2
    <3> QED
      BY <1>4, <3>3 DEF s, z
  <2>3. c.data[p] = r.values[m].text[k]
    BY <1>4
  <2> HIDE DEF p
  <2>4. w[p] = c.data[p]
    BY <1>6, <2>1, <2>2
  <2> QED
    BY <2>3, <2>4 DEF p
<1>9. \A m \in 1..j : StringOf(r.values[m], filter) # {} => w[End(r, m)] = NUL
  <2> SUFFICES ASSUME NEW m \in 1..j, StringOf(r.values[m], filter) # {} PROVE w[End(r, m)] = NUL
    OBVIOUS
  <2>1. CASE m = j
    BY <1>6, <2>1
  <2>2. CASE m # j
    <3>1. m \in 1..n /\ m \in 1..N
      BY <1>1, <2>2 DEF j
    <3>2. c.data[End(r, m)] = NUL
      BY <1>4, <3>1
    <3>3. End(r, m) \in 1..Len(c.data)
      <4>1. /\ Start(r, m) \in Nat /\ Len(r.values[m].text) \in Nat
            /\ End(r, m) = Start(r, m) + Len(r.values[m].text) + 1
            /\ End(r, m) <= End(r, N)
        BY <3>1, ValueInText
      <4>1a. End(r, N) \in Nat
        <5>1. N \in 0..N
          BY <1>1
        <5> QED
          BY <5>1, TextIsPrefix
      <4> DEFINE s == Start(r, m)
                 l == Len(r.values[m].text)
                 z == End(r, N)
                 e == End(r, m)
      <4> HIDE DEF s, l, z, e
      <4>2. s \in Nat /\ l \in Nat /\ z \in Nat /\ e = s + l + 1 /\ e <= z
        BY <4>1, <4>1a DEF s, l, z, e
      <4>3. e \in 1..z
        BY <4>2
      <4> QED
        BY <1>4, <4>3 DEF e, z
    <3> QED
      BY <1>6, <3>2, <3>3
  <2> QED
    BY <2>1, <2>2
<1>10. StringsUpTo(d, r, j)
  BY <1>4, <1>5, <1>6, <1>7, <1>8, <1>9 DEF StringsUpTo
<1> QED
  BY <1>10 DEF j

ParsedUpTo(c, r, n, now) == c \in CardFields /\ FieldsUpTo(c, r, n, now) /\ StringsUpTo(c, r, n)

LEMMA ParseBegins ==
  ASSUME NEW r \in Responses, NEW now \in Word64
  PROVE  ParsedUpTo(Empty(r, now), r, 0, now)
<1> DEFINE N == Len(r.values)
           c == Empty(r, now)
           text == TextOf(r, N)
           none == [i \in StringIndex |-> NoOffset]
<1>1. N \in Nat
  BY ResponseIs
<1>2. Received(r) = text
  BY ReceivedIsText
<1>3. text \in Seq(Byte) /\ Len(text) = End(r, N)
  <2>1. N \in 0..N
    BY <1>1
  <2> QED
    BY <2>1, TextIsPrefix DEF End
<1>4. c = Made({}, <<>>, {}, {}, {}, {}, {}, now, text, none, 0)
  <2> HIDE DEF text, none
  <2>1. c = [NewCard EXCEPT !.timestamp = now, !.data = text]
    BY <1>2 DEF Empty
  <2>2. NewCard = Made({}, <<>>, {}, {}, {}, {}, {}, {}, <<>>, none, 0)
    BY DEF NewCard, Made, none
  <2> QED
    BY <2>1, <2>2 DEF Made
<1> HIDE DEF c, text, none
<1>5. /\ c.number = {} /\ c.set = <<>> /\ c.flags = {} /\ c.tcgplayerId = {} /\ c.cardmarketId = {}
      /\ c.colors = {} /\ c.colorIdentity = {} /\ c.timestamp = now /\ c.data = text
      /\ c.offsets = none /\ c.block = 0 /\ IsMade(c)
  BY <1>4 DEF Made, IsMade
<1>6. c \in CardFields
  <2>1. /\ {} \in Word /\ {} \in Byte /\ {} \in SUBSET (0..5) /\ <<>> \in Seq(Byte) /\ 0 \in Nat
    BY DEF Word, Byte, Width
  <2>2. none \in [StringIndex -> Nat \cup {NoOffset}]
    BY DEF none
  <2> QED
    BY <1>3, <1>5, <2>1, <2>2, CardOfTypes
<1>7. FieldsUpTo(c, r, 0, now)
  BY FieldsBegin DEF Empty, c
<1>8. StringsUpTo(c, r, 0)
  <2>1. \A i \in StringIndex : Giving(r, 0, i) = {}
    BY DEF Giving, Before
  <2>2. \A i \in StringIndex :
          c.offsets[i] = IF i \in filter /\ Giving(r, 0, i) # {}
                         THEN Start(r, Max(Giving(r, 0, i))) ELSE NoOffset
    <3> SUFFICES ASSUME NEW i \in StringIndex
                 PROVE  c.offsets[i] = IF i \in filter /\ Giving(r, 0, i) # {}
                                       THEN Start(r, Max(Giving(r, 0, i))) ELSE NoOffset
      OBVIOUS
    <3>1. c.offsets[i] = NoOffset
      BY <1>5 DEF none
    <3>2. ~(i \in filter /\ Giving(r, 0, i) # {})
      BY <2>1
    <3> QED
      BY <3>1, <3>2
  <2>3. \A m \in 1..N : \A k \in 1..Len(r.values[m].text) :
          c.data[Start(r, m) + k] = r.values[m].text[k]
    BY <1>5, ValueInText DEF text
  <2>4. \A m \in 1..0 : StringOf(r.values[m], filter) # {} => c.data[End(r, m)] = NUL
    OBVIOUS
  <2>5. Len(c.data) = End(r, N)
    BY <1>3, <1>5
  <2> QED
    BY <2>2, <2>3, <2>4, <2>5 DEF StringsUpTo
<1> QED
  BY <1>6, <1>7, <1>8 DEF ParsedUpTo, c

LEMMA ParseGoesOnRight ==
  ASSUME filter \subseteq StringIndex,
         NEW r \in Responses, NEW n \in 0..(Len(r.values) - 1), NEW now, NEW c,
         ParsedUpTo(c, r, n, now), ParseValue(c, r, n + 1).code = "OK"
  PROVE  ParsedUpTo(ParseValue(c, r, n + 1).card, r, n + 1, now)
<1> DEFINE d == ParseValue(c, r, n + 1).card
<1>1. Len(r.values) \in Nat
  BY ResponseIs
<1>2. n + 1 \in 1..Len(r.values)
  BY <1>1
<1>3. c \in CardFields /\ FieldsUpTo(c, r, n, now) /\ StringsUpTo(c, r, n)
  BY DEF ParsedUpTo
<1>4. FieldsAfter(c, d, r.values[n + 1]) /\ StringsAfter(c, d, r, n + 1)
  BY <1>2, <1>3, ValueIsParsed
<1> HIDE DEF d
<1>5. FieldsUpTo(d, r, n + 1, now)
  BY <1>3, <1>4, FieldsGoOn
<1>6. Len(c.data) = End(r, Len(r.values))
  BY <1>3 DEF StringsUpTo
<1>7. d \in CardFields
  BY <1>2, <1>3, <1>4, <1>6, FieldsAfterTyped
<1>8. StringsUpTo(d, r, n + 1)
  BY <1>3, <1>4, StringsGoOn
<1> QED
  BY <1>5, <1>7, <1>8 DEF ParsedUpTo, d

\* A response that is read to its end gives what all of its values say.
LEMMA ParseIsRight ==
  ASSUME filter \subseteq StringIndex,
         NEW r \in Responses, NEW now \in Word64, ParseValues(r, now).code = "OK"
  PROVE  ParsedUpTo(ParseValues(r, now).card, r, Len(r.values), now)
<1> DEFINE N == Len(r.values)
<1>1. PICK f : /\ ParseValues(r, now) = f[N]
               /\ f[0] = With(Empty(r, now))
               /\ \A n \in 1..N : f[n] = ParseGoesOn(f[n - 1], r, n)
  BY ParseSteps
<1>2. N \in Nat
  BY ResponseIs
<1> DEFINE T == {n \in 0..N : f[n].code = "OK" => ParsedUpTo(f[n].card, r, n, now)}
<1>3. 0 \in T
  <2>1. f[0].card = Empty(r, now)
    BY <1>1 DEF With
  <2>2. ParsedUpTo(f[0].card, r, 0, now)
    BY <2>1, ParseBegins
  <2> QED
    BY <1>2, <2>2
<1>4. ASSUME NEW n \in 0..(N - 1), n \in T PROVE n + 1 \in T
  <2>1. n + 1 \in 1..N /\ n + 1 \in 0..N /\ (n + 1) - 1 = n
    BY <1>2
  <2>2. f[n + 1] = ParseGoesOn(f[n], r, n + 1)
    BY <1>1, <2>1
  <2> SUFFICES ASSUME f[n + 1].code = "OK" PROVE ParsedUpTo(f[n + 1].card, r, n + 1, now)
    BY <2>1
  <2>3. f[n].code = "OK" /\ f[n + 1] = ParseValue(f[n].card, r, n + 1)
    BY <2>2 DEF ParseGoesOn
  <2>4. ParsedUpTo(f[n].card, r, n, now)
    BY <1>4, <2>3
  <2>5. ParseValue(f[n].card, r, n + 1).code = "OK"
    BY <2>3
  <2> DEFINE c == f[n].card
  <2> HIDE DEF c
  <2>6. ParsedUpTo(ParseValue(c, r, n + 1).card, r, n + 1, now)
    BY <2>4, <2>5, ParseGoesOnRight DEF c
  <2> QED
    BY <2>3, <2>6 DEF c
<1>5. 0..N \subseteq T
  <2> HIDE DEF T, N
  <2> QED
    BY <1>2, <1>3, <1>4, InductionUpTo
<1>6. N \in T
  BY <1>2, <1>5
<1> QED
  BY <1>1, <1>6

\* String s is in the data at an offset, with its NUL.
HoldsAt(data, offset, s) ==
  /\ offset \in Nat /\ s \in Seq(Byte \ {NUL}) /\ offset + Len(s) + 1 <= Len(data)
  /\ \A k \in 1..Len(s) : data[offset + k] = s[k]
  /\ data[offset + Len(s) + 1] = NUL

LEMMA StringIsThere ==
  ASSUME NEW data \in Seq(Byte), NEW offset, NEW s, HoldsAt(data, offset, s)
  PROVE  /\ StringAt(data, offset) = s /\ offset < Len(data)
         /\ s \in Seq(Byte) /\ Len(s) \in Nat
<1> DEFINE l == Len(s)
           z == Len(data)
           T == {k \in DOMAIN data : k > offset /\ data[k] = NUL}
           e == offset + l + 1
<1>1. /\ offset \in Nat /\ s \in Seq(Byte \ {NUL}) /\ e <= z
      /\ \A k \in 1..l : data[offset + k] = s[k]
      /\ data[e] = NUL
  BY DEF HoldsAt
<1>2. l \in Nat /\ z \in Nat /\ DOMAIN data = 1..z /\ s \in Seq(Byte) /\ DOMAIN s = 1..l
  <2>1. s \in Seq(Byte \ {NUL})
    BY <1>1
  <2>2. s \in Seq(Byte)
    BY <2>1
  <2> QED
    BY <2>2, LenProperties
<1>3. \A k \in 1..l : s[k] # NUL
  <2>1. s \in Seq(Byte \ {NUL})
    BY <1>1
  <2> QED
    BY <2>1, ElementOfSeq
<1>4. e \in T /\ T \subseteq Nat
  <2> HIDE DEF l, z
  <2>1. e \in 1..z /\ e > offset
    BY <1>1, <1>2
  <2>2. 1..z \subseteq Nat
    OBVIOUS
  <2> HIDE DEF e
  <2> QED
    BY <1>1, <1>2, <2>1, <2>2
<1>5. \A k \in T : e <= k
  <2> SUFFICES ASSUME NEW k \in T, ~(e <= k) PROVE FALSE
    OBVIOUS
  <2>1. k \in 1..z /\ k > offset /\ data[k] = NUL
    BY <1>2
  <2>2. k - offset \in 1..l /\ offset + (k - offset) = k
    <3> HIDE DEF l, z, T
    <3> QED
      BY <1>1, <1>2, <2>1
  <2> HIDE DEF T, e
  <2> QED
    BY <1>1, <1>3, <2>1, <2>2
<1>6. Min(T) = e
  <2> HIDE DEF T, e
  <2> QED
    BY <1>4, <1>5, MinIs
<1>7. StringAt(data, offset) = SubSeq(data, offset + 1, e - 1)
  <2> HIDE DEF e
  <2> QED
    BY <1>6 DEF StringAt
<1>8. e - 1 = offset + l /\ offset < z
  <2> HIDE DEF l, z
  <2> QED
    BY <1>1, <1>2
<1>9. SubSeq(data, offset + 1, offset + l) = s
  <2> DEFINE t == SubSeq(data, offset + 1, offset + l)
             a == offset + 1
             b == offset + l
  <2>1. a \in 1..(z + 1) /\ b \in (a - 1)..z /\ (b - a) + 1 = l
    <3> HIDE DEF l, z
    <3> QED
      BY <1>1, <1>2
  <2>2. t \in Seq(Byte) /\ Len(t) = (b - a) + 1
          /\ \A k \in 1..((b - a) + 1) : t[k] = data[(a + k) - 1]
    <3> HIDE DEF a, b, l, z
    <3>1. SubSeq(data, a, b) \in Seq(Byte)
            /\ Len(SubSeq(data, a, b)) = IF a <= b THEN b - a + 1 ELSE 0
      BY <1>2, <2>1, SubSeqProperties
    <3>2. \A k \in 1..(b - a + 1) : SubSeq(data, a, b)[k] = data[a + k - 1]
      BY <1>2, <2>1, SubSeqProperties
    <3>3. (IF a <= b THEN b - a + 1 ELSE 0) = (b - a) + 1
      BY <1>2, <2>1
    <3> QED
      BY <3>1, <3>2, <3>3 DEF a, b
  <2>3. \A k \in 1..l : (a + k) - 1 = offset + k
    BY <1>1, <1>2
  <2>4. Len(t) = l /\ \A k \in 1..l : t[k] = s[k]
    <3> HIDE DEF a, b, t
    <3> QED
      BY <1>1, <2>1, <2>2, <2>3
  <2> HIDE DEF t
  <2>5. t = s
    BY <1>2, <2>2, <2>4, SeqEqual
  <2> QED
    BY <2>5 DEF t
<1> QED
  BY <1>2, <1>7, <1>8, <1>9

-----------------------------------------------------------------------------
(* A good card: its fields and strings are what the response says. *)

\* The properties' words and the parser's.
LEMMA SaidIsBefore ==
  ASSUME NEW r \in Responses, origin.response = r, NEW object, NEW key
  PROVE  /\ Said(object, key) = Before(r, Len(r.values), object, key)
         /\ LastSaid(object, key) = LastUpTo(r, Len(r.values), object, key)
<1>1. DOMAIN r.values = 1..Len(r.values)
  BY ResponseIs
<1>2. Said(object, key) = Before(r, Len(r.values), object, key)
  BY <1>1 DEF Said, Before, Named, Response
<1> QED
  BY <1>2 DEF LastSaid, LastUpTo, Response

LEMMA SaidOfRoot ==
  ASSUME NEW r \in Responses, origin.response = r, NEW key
  PROVE  /\ Said(Root, key) = Before(r, Len(r.values), Root, key)
         /\ LastSaid(Root, key) = LastUpTo(r, Len(r.values), Root, key)
<1>1. DOMAIN r.values = 1..Len(r.values)
  BY ResponseIs
<1>2. Said(Root, key) = Before(r, Len(r.values), Root, key)
  BY <1>1 DEF Said, Before, Named, Response
<1> QED
  BY <1>2 DEF LastSaid, LastUpTo, Response

LEMMA SaidValues ==
  ASSUME NEW r \in Responses, origin.response = r, NEW key
  PROVE  /\ \A default : SaidOr(key, default) = ValueUpTo(r, Len(r.values), key, default)
         /\ \A flag : SaidFlag(key, flag) = FlagUpTo(r, Len(r.values), key, flag)
         /\ AllSaid(key) = AllUpTo(r, Len(r.values), key)
         /\ SaidColors(key) = ColorsUpTo(r, Len(r.values), key)
<1>1. /\ Said(Root, key) = Before(r, Len(r.values), Root, key)
      /\ LastSaid(Root, key) = LastUpTo(r, Len(r.values), Root, key)
  BY SaidOfRoot
<1>2. \A default : SaidOr(key, default) =
        IF Said(Root, key) = {} THEN default ELSE LastSaid(Root, key).value
  BY DEF SaidOr, Root
<1>3. \A flag : SaidFlag(key, flag) = IF Said(Root, key) = {} THEN {} ELSE flag
  BY DEF SaidFlag, Root
<1>4. \A flag : FlagUpTo(r, Len(r.values), key, flag) =
        IF Before(r, Len(r.values), Root, key) = {} THEN {} ELSE flag
  BY DEF FlagUpTo, If
<1>5. \A default : SaidOr(key, default) = ValueUpTo(r, Len(r.values), key, default)
  BY <1>1, <1>2 DEF ValueUpTo
<1>6. AllSaid(key) = AllUpTo(r, Len(r.values), key)
  BY <1>1 DEF AllSaid, AllUpTo, Root, Response
<1>7. SaidColors(key) = ColorsUpTo(r, Len(r.values), key)
  BY <1>6 DEF SaidColors, ColorsUpTo
<1> QED
  BY <1>1, <1>3, <1>4, <1>5, <1>6, <1>7

\* What the fields of a card say.
SaidFlags ==
  (IF "card" \in AllSaid("object") THEN IsCard ELSE {})
    \cup SaidFlag("tcgplayer_id", TcgplayerId)
    \cup SaidFlag("cardmarket_id", CardmarketId)
    \cup SaidFlag("colors", Colors) \cup SaidFlag("color_identity", ColorIdentity)
FieldsSaid(c) ==
  /\ c.set = LastSaid(Root, "set").text /\ c.set \in Seq(Byte \ {NUL}) /\ Len(c.set) < MaxSet
  /\ c.number = Pack(LastSaid(Root, "collector_number").value)
  /\ LastSaid(Root, "collector_number").value \in Text
  /\ c.flags \ IsShrunk = SaidFlags
  /\ c.tcgplayerId   = SaidOr("tcgplayer_id", {})
  /\ c.cardmarketId  = SaidOr("cardmarket_id", {})
  /\ c.colors        = SaidColors("colors")
  /\ c.colorIdentity = SaidColors("color_identity")
  /\ c.timestamp     = origin.now

\* The strings of a card: of those that have passed, the ones the response has.
StringsSaid(c, passed) ==
  \A i \in StringIndex :
    IF i \in passed /\ Said(StringEntries[i].object, StringEntries[i].key) # {}
    THEN c.offsets[i] # NoOffset /\ HoldsAt(c.data, c.offsets[i], SaidString(i))
    ELSE c.offsets[i] = NoOffset

\* A card whose strings were moved together has not more data than they take.
ShrunkSize(limit) == Len(StringEntries) * (limit + 1)
Good(c, passed, limit) ==
  /\ c \in CardFields
  /\ FieldsSaid(c) /\ StringsSaid(c, passed)
  /\ Shrunk(c) => Len(c.data) <= ShrunkSize(limit)

LEMMA FieldsOfParse ==
  ASSUME NEW r \in Responses, origin.response = r, NEW c,
           FieldsUpTo(c, r, Len(r.values), origin.now),
         c.set # <<>>, c.number # {}
  PROVE  FieldsSaid(c) /\ ~Shrunk(c)
<1> DEFINE N == Len(r.values)
<1>1. N \in Nat /\ \A n \in 1..N : IsValue(r.values[n])
  BY ResponseIs
<1>2. /\ c.set = IF Before(r, N, Root, "set") = {} THEN <<>> ELSE LastUpTo(r, N, Root, "set").text
      /\ Len(c.set) < MaxSet
      /\ c.number = IF Before(r, N, Root, "collector_number") = {} THEN {}
                    ELSE Pack(LastUpTo(r, N, Root, "collector_number").value)
      /\ c.tcgplayerId = ValueUpTo(r, N, "tcgplayer_id", {})
      /\ c.cardmarketId = ValueUpTo(r, N, "cardmarket_id", {})
      /\ c.colors = ColorsUpTo(r, N, "colors")
      /\ c.colorIdentity = ColorsUpTo(r, N, "color_identity")
      /\ c.flags = If("card" \in AllUpTo(r, N, "object"), IsCard)
                     \cup FlagUpTo(r, N, "tcgplayer_id", TcgplayerId)
                     \cup FlagUpTo(r, N, "cardmarket_id", CardmarketId)
                     \cup FlagUpTo(r, N, "colors", Colors)
                     \cup FlagUpTo(r, N, "color_identity", ColorIdentity)
      /\ c.timestamp = origin.now
  BY DEF FieldsUpTo
<1>3. Before(r, N, Root, "set") # {} /\ Before(r, N, Root, "collector_number") # {}
  BY <1>2
<1>4. \A key : Before(r, N, Root, key) # {} =>
        /\ IsValue(LastUpTo(r, N, Root, key)) /\ Named(LastUpTo(r, N, Root, key), Root, key)
  <2> SUFFICES ASSUME NEW key, Before(r, N, Root, key) # {}
               PROVE  /\ IsValue(LastUpTo(r, N, Root, key))
                      /\ Named(LastUpTo(r, N, Root, key), Root, key)
    OBVIOUS
  <2> DEFINE B == Before(r, N, Root, key)
  <2>1. B \subseteq 0..N /\ B # {}
    BY DEF Before
  <2>2. Max(B) \in B
    <3> HIDE DEF B
    <3> QED
      BY <1>1, <2>1, GreatestBit
  <2>3. Max(B) \in 1..N /\ Named(r.values[Max(B)], Root, key)
    BY <2>2 DEF Before
  <2> HIDE DEF N
  <2> QED
    BY <1>1, <2>3 DEF LastUpTo
<1>5. c.set = LastSaid(Root, "set").text /\ c.set \in Seq(Byte \ {NUL})
  <2> DEFINE v == LastUpTo(r, N, Root, "set")
  <2>1. IsValue(v)
    BY <1>3, <1>4
  <2>2. c.set = v.text
    BY <1>2, <1>3
  <2>3. LastSaid(Root, "set") = v
    BY SaidOfRoot
  <2> HIDE DEF v
  <2>4. v.text \in Seq(Byte \ {NUL})
    BY <2>1 DEF IsValue
  <2> QED
    BY <2>2, <2>3, <2>4
<1>6. /\ c.number = Pack(LastSaid(Root, "collector_number").value)
      /\ LastSaid(Root, "collector_number").value \in Text
  <2> DEFINE v == LastUpTo(r, N, Root, "collector_number")
  <2>1. IsValue(v) /\ Named(v, Root, "collector_number")
    BY <1>3, <1>4
  <2>2. c.number = Pack(v.value)
    BY <1>2, <1>3
  <2>3. LastSaid(Root, "collector_number") = v
    BY SaidOfRoot
  <2> HIDE DEF v
  <2>4. v.value \in Text
    BY <2>1 DEF IsValue, Named, Root
  <2> QED
    BY <2>2, <2>3, <2>4
<1>7. /\ c.tcgplayerId = SaidOr("tcgplayer_id", {}) /\ c.cardmarketId = SaidOr("cardmarket_id", {})
      /\ c.colors = SaidColors("colors")
      /\ c.colorIdentity = SaidColors("color_identity")
  <2>1. /\ SaidOr("tcgplayer_id", {}) = ValueUpTo(r, N, "tcgplayer_id", {})
        /\ SaidOr("cardmarket_id", {}) = ValueUpTo(r, N, "cardmarket_id", {})
        /\ SaidColors("colors") = ColorsUpTo(r, N, "colors")
        /\ SaidColors("color_identity") = ColorsUpTo(r, N, "color_identity")
    BY SaidValues
  <2> QED
    BY <1>2, <2>1
<1>8. c.flags = SaidFlags
  <2>1. /\ AllSaid("object") = AllUpTo(r, N, "object")
        /\ SaidFlag("tcgplayer_id", TcgplayerId) = FlagUpTo(r, N, "tcgplayer_id", TcgplayerId)
        /\ SaidFlag("cardmarket_id", CardmarketId) = FlagUpTo(r, N, "cardmarket_id", CardmarketId)
        /\ SaidFlag("colors", Colors) = FlagUpTo(r, N, "colors", Colors)
        /\ SaidFlag("color_identity", ColorIdentity)
             = FlagUpTo(r, N, "color_identity", ColorIdentity)
    BY SaidValues
  <2> QED
    BY <1>2, <2>1 DEF SaidFlags, If
<1>9. 3 \notin c.flags
  <2>1. /\ \A flag, key : SaidFlag(key, flag) \subseteq flag
        /\ (IF "card" \in AllSaid("object") THEN IsCard ELSE {}) \subseteq IsCard
    BY DEF SaidFlag
  <2>2. /\ 3 \notin IsCard /\ 3 \notin TcgplayerId /\ 3 \notin CardmarketId /\ 3 \notin Colors
        /\ 3 \notin ColorIdentity
    BY DEF IsCard, TcgplayerId, CardmarketId, Colors, ColorIdentity
  <2> QED
    BY <1>8, <2>1, <2>2 DEF SaidFlags
<1>10. ~Shrunk(c) /\ c.flags \ IsShrunk = SaidFlags
  <2>1. IsShrunk = {3}
    BY DEF IsShrunk
  <2> QED
    BY <1>8, <1>9, <2>1 DEF Shrunk
<1> QED
  BY <1>2, <1>5, <1>6, <1>7, <1>10 DEF FieldsSaid

LEMMA StringsOfParse ==
  ASSUME NEW r \in Responses, origin.response = r, NEW c \in CardFields,
           filter \subseteq StringIndex,
         StringsUpTo(c, r, Len(r.values))
  PROVE  StringsSaid(c, filter)
<1> DEFINE N == Len(r.values)
<1>1. N \in Nat /\ DOMAIN r.values = 1..N /\ \A n \in 1..N : IsValue(r.values[n])
  BY ResponseIs
<1>2. /\ Len(c.data) = End(r, N)
      /\ \A i \in StringIndex :
           c.offsets[i] = IF i \in filter /\ Giving(r, N, i) # {}
                          THEN Start(r, Max(Giving(r, N, i))) ELSE NoOffset
      /\ \A m \in 1..N : \A k \in 1..Len(r.values[m].text) :
           c.data[Start(r, m) + k] = r.values[m].text[k]
      /\ \A m \in 1..N : StringOf(r.values[m], filter) # {} => c.data[End(r, m)] = NUL
  BY DEF StringsUpTo
<1> SUFFICES ASSUME NEW i \in StringIndex
             PROVE  IF i \in filter /\ Said(StringEntries[i].object, StringEntries[i].key) # {}
                    THEN c.offsets[i] # NoOffset /\ HoldsAt(c.data, c.offsets[i], SaidString(i))
                    ELSE c.offsets[i] = NoOffset
  BY DEF StringsSaid
<1> DEFINE o == StringEntries[i].object
           y == StringEntries[i].key
           B == Giving(r, N, i)
           m == Max(B)
           t == r.values[m].text
<1>3. Said(o, y) = B /\ LastSaid(o, y) = r.values[m]
  <2> HIDE DEF o, y, N
  <2>1. Said(o, y) = Before(r, N, o, y) /\ LastSaid(o, y) = LastUpTo(r, N, o, y)
    BY SaidIsBefore DEF N
  <2>2. Before(r, N, o, y) = B
    BY DEF Giving, o, y
  <2> QED
    BY <2>1, <2>2 DEF LastUpTo
<1>4. CASE ~(i \in filter /\ B # {})
  BY <1>2, <1>3, <1>4
<1>5. CASE i \in filter /\ B # {}
  <2>1. m \in 1..N /\ Named(r.values[m], o, y)
    <3>1. B \subseteq 0..N /\ B # {}
      BY <1>5 DEF Giving, Before
    <3>2. m \in B
      <4> HIDE DEF B, N
      <4> QED
        BY <1>1, <3>1, GreatestBit
    <3> HIDE DEF m
    <3> QED
      BY <3>2 DEF Giving, Before
  <2>2. SaidString(i) = t
    <3>1. SaidString(i) = IF Said(o, y) = {} THEN <<>> ELSE LastSaid(o, y).text
      BY DEF SaidString
    <3> HIDE DEF B, o, y, m
    <3> QED
      BY <1>3, <1>5, <3>1
  <2>3. c.offsets[i] = Start(r, m)
    BY <1>2, <1>5
  <2> HIDE DEF m, N
  <2>4. IsValue(r.values[m])
    BY <1>1, <2>1
  <2>5. StringOf(r.values[m], filter) # {}
    BY <1>5, <2>1, <2>4, StringsOfValues
  <2>6. /\ Start(r, m) \in Nat /\ Len(t) \in Nat
        /\ End(r, m) = Start(r, m) + Len(t) + 1 /\ End(r, m) <= End(r, N)
    BY <2>1, ValueInText DEF N
  <2>7. t \in Seq(Byte \ {NUL})
    BY <2>4 DEF IsValue
  <2>8. c.data[End(r, m)] = NUL /\ \A k \in 1..Len(t) : c.data[Start(r, m) + k] = t[k]
    BY <1>2, <2>1, <2>5
  <2> HIDE DEF t
  <2>9. HoldsAt(c.data, Start(r, m), t)
    <3>1. Start(r, m) + Len(t) + 1 <= Len(c.data)
      BY <1>2, <2>6
    <3>2. c.data[Start(r, m) + Len(t) + 1] = NUL
      BY <2>6, <2>8
    <3> QED
      BY <2>6, <2>7, <2>8, <3>1, <3>2 DEF HoldsAt
  <2>10. Start(r, m) # NoOffset
    BY <2>6, NoOffsetAssumption
  <2>11. c.offsets[i] # NoOffset /\ HoldsAt(c.data, c.offsets[i], SaidString(i))
    BY <2>2, <2>3, <2>9, <2>10
  <2> HIDE DEF B, o, y
  <2> QED
    BY <1>3, <1>5, <2>11 DEF o, y
<1> QED
  BY <1>4, <1>5

\* A card that is parsed is good.
LEMMA ParsedIsGood ==
  ASSUME filter \subseteq StringIndex, origin.response \in Responses,
         origin.now \in Word64, NEW limit, ParseJson(origin.response, origin.now).code = "OK"
  PROVE  Good(ParseJson(origin.response, origin.now).card, filter, limit)
<1> DEFINE r == origin.response
           now == origin.now
           p == ParseValues(r, now)
           j == ParseJson(r, now)
           c == j.card
<1>1. r.shape \in {"empty", "not_object", "unparsable", "object"}
  BY ResponsesAssumption
<1>2. r.shape = "object" /\ j = IF p.code = "OK" THEN Complete(p.card) ELSE p
  <2>1. j.code = "OK" /\ Ends("JSON_RESPONSE_ERROR").code # "OK"
          /\ Ends("JSON_PARSE_ERROR").code # "OK"
    BY DEF Ends
  <2>2. j = CASE r.shape \in {"empty", "not_object"} -> Ends("JSON_RESPONSE_ERROR")
              [] r.shape = "unparsable"              -> Ends("JSON_PARSE_ERROR")
              [] r.shape = "object" -> IF p.code = "OK" THEN Complete(p.card) ELSE p
    BY DEF ParseJson
  <2> HIDE DEF j, p, r
  <2> QED
    BY <1>1, <2>1, <2>2
<1>3. p.code = "OK"
  <2>1. j.code = "OK"
    OBVIOUS
  <2> HIDE DEF j, p
  <2> QED
    BY <1>2, <2>1
<1>4. j = Complete(p.card) /\ j.code = "OK"
  BY <1>2, <1>3
<1>5. p.card.set # <<>> /\ p.card.number # {} /\ c = p.card
  <2> HIDE DEF j, p
  <2> QED
    BY <1>4 DEF Complete, Ends, With
<1>6. ParsedUpTo(p.card, r, Len(r.values), now)
  BY <1>3, ParseIsRight
<1> HIDE DEF r, now, j, p, c
<1>7. c \in CardFields /\ FieldsUpTo(c, r, Len(r.values), now) /\ StringsUpTo(c, r, Len(r.values))
  BY <1>5, <1>6 DEF ParsedUpTo
<1>8. FieldsSaid(c) /\ ~Shrunk(c)
  BY <1>5, <1>7, FieldsOfParse DEF r, now
<1>9. StringsSaid(c, filter)
  BY <1>7, StringsOfParse DEF r
<1> QED
  BY <1>7, <1>8, <1>9 DEF Good, c, j, r, now

\* A good card gives each string as the response has it, or none.
LEMMA GoodStrings ==
  ASSUME NEW c, NEW passed, NEW limit, Good(c, passed, limit)
  PROVE  /\ \A i \in StringIndex : GetString(c, i) = IF i \in passed THEN SaidString(i) ELSE <<>>
         /\ \A i \in Used(c) :
              /\ c.offsets[i] \in Nat /\ c.offsets[i] < Len(c.data)
              /\ StringAt(c.data, c.offsets[i]) = SaidString(i)
              /\ SaidString(i) \in Seq(Byte \ {NUL}) /\ SaidString(i) \in Seq(Byte)
              /\ \E k \in DOMAIN c.data : k > c.offsets[i] /\ c.data[k] = NUL
<1>1. c \in CardFields /\ StringsSaid(c, passed)
  BY DEF Good
<1>2. c.data \in Seq(Byte)
  BY <1>1 DEF CardFields
<1>3. ASSUME NEW i \in StringIndex, c.offsets[i] # NoOffset
      PROVE  /\ i \in passed /\ HoldsAt(c.data, c.offsets[i], SaidString(i))
             /\ StringAt(c.data, c.offsets[i]) = SaidString(i) /\ c.offsets[i] < Len(c.data)
             /\ SaidString(i) \in Seq(Byte)
  <2>1. i \in passed /\ HoldsAt(c.data, c.offsets[i], SaidString(i))
    BY <1>1, <1>3 DEF StringsSaid
  <2> DEFINE offset == c.offsets[i]
             data == c.data
             s == SaidString(i)
  <2> HIDE DEF offset, data, s
  <2>2. HoldsAt(data, offset, s) /\ data \in Seq(Byte)
    BY <1>2, <2>1 DEF offset, data, s
  <2>3. StringAt(data, offset) = s /\ offset < Len(data) /\ s \in Seq(Byte)
    BY <2>2, StringIsThere
  <2> QED
    BY <2>1, <2>3 DEF offset, data, s
<1>4. ASSUME NEW i \in StringIndex
      PROVE  GetString(c, i) = IF i \in passed THEN SaidString(i) ELSE <<>>
  <2>1. CASE c.offsets[i] # NoOffset
    <3>1. /\ i \in passed /\ StringAt(c.data, c.offsets[i]) = SaidString(i)
          /\ c.offsets[i] < Len(c.data)
      BY <1>3, <2>1
    <3> QED
      BY <2>1, <3>1 DEF GetString
  <2>2. CASE c.offsets[i] = NoOffset
    <3>1. GetString(c, i) = <<>>
      BY <2>2 DEF GetString
    <3>2. i \in passed => Said(StringEntries[i].object, StringEntries[i].key) = {}
      BY <1>1, <2>2 DEF StringsSaid
    <3>3. i \in passed => SaidString(i) = <<>>
      BY <3>2 DEF SaidString
    <3> QED
      BY <3>1, <3>3
  <2> QED
    BY <2>1, <2>2
<1>5. ASSUME NEW i \in Used(c)
      PROVE  /\ c.offsets[i] \in Nat /\ c.offsets[i] < Len(c.data)
             /\ StringAt(c.data, c.offsets[i]) = SaidString(i)
             /\ SaidString(i) \in Seq(Byte \ {NUL}) /\ SaidString(i) \in Seq(Byte)
             /\ \E k \in DOMAIN c.data : k > c.offsets[i] /\ c.data[k] = NUL
  <2>1. i \in StringIndex /\ c.offsets[i] # NoOffset
    BY DEF Used
  <2>2. /\ HoldsAt(c.data, c.offsets[i], SaidString(i))
        /\ StringAt(c.data, c.offsets[i]) = SaidString(i) /\ c.offsets[i] < Len(c.data)
        /\ SaidString(i) \in Seq(Byte)
    BY <1>3, <2>1
  <2> DEFINE offset == c.offsets[i]
             data == c.data
             s == SaidString(i)
             l == Len(s)
             z == Len(data)
  <2> HIDE DEF offset, data, s
  <2>3. /\ offset \in Nat /\ s \in Seq(Byte \ {NUL}) /\ offset + l + 1 <= z
        /\ data[offset + l + 1] = NUL /\ data \in Seq(Byte) /\ s \in Seq(Byte)
    BY <1>2, <2>2 DEF offset, data, s, HoldsAt
  <2>4. l \in Nat /\ z \in Nat /\ DOMAIN data = 1..z
    BY <2>3, LenProperties
  <2> HIDE DEF l, z
  <2>5. offset + l + 1 \in 1..z /\ offset + l + 1 > offset
    BY <2>3, <2>4
  <2>6. \E k \in DOMAIN data : k > offset /\ data[k] = NUL
    BY <2>3, <2>4, <2>5
  <2> QED
    BY <2>2, <2>3, <2>6 DEF offset, data, s
<1> QED
  BY <1>4, <1>5

\* What a later program loads is as good, with the strings its filter lets pass.
LEMMA SameFieldsSaid ==
  ASSUME NEW c, FieldsSaid(c), NEW d, d.set = c.set, d.number = c.number,
         d.flags \ IsShrunk = c.flags \ IsShrunk, d.tcgplayerId = c.tcgplayerId,
         d.cardmarketId = c.cardmarketId, d.colors = c.colors, d.colorIdentity = c.colorIdentity,
         d.timestamp = c.timestamp
  PROVE  FieldsSaid(d)
BY DEF FieldsSaid

LEMMA LoadedIsGood ==
  ASSUME NEW c, NEW passed, NEW limit, Good(c, passed, limit)
  PROVE  Good(Loaded(c), passed \cap filter, limit)
<1> DEFINE d == Loaded(c)
           offsets == WithStrings(c, c, Len(StringEntries)).offsets
<1>1. c \in CardFields /\ StringsSaid(c, passed) /\ FieldsSaid(c)
      /\ (Shrunk(c) => Len(c.data) <= ShrunkSize(limit))
  BY DEF Good
<1>2. d = Made(c.number, c.set, c.flags, c.tcgplayerId, c.cardmarketId, c.colors, c.colorIdentity,
               c.timestamp, c.data, offsets, 0)
  BY <1>1, CardIsMade
<1>3. offsets = [j \in StringIndex |->
         IF j \in Used(c) /\ j \in filter
           /\ j <= Len(StringEntries) THEN c.offsets[j] ELSE NoOffset]
  BY <1>1 DEF WithStrings, CardFields
<1>4. c.offsets \in [StringIndex -> Nat \cup {NoOffset}]
  BY <1>1 DEF CardFields
<1>5. offsets \in [StringIndex -> Nat \cup {NoOffset}]
  BY <1>3, <1>4
<1>6. \A i \in StringIndex : offsets[i] = IF i \in filter THEN c.offsets[i] ELSE NoOffset
  <2>1. \A i \in StringIndex : i <= Len(StringEntries)
    BY EntriesAreASequence
  <2> HIDE DEF offsets
  <2> QED
    BY <1>3, <2>1 DEF Used
<1> HIDE DEF d, offsets
<1>7. /\ d.number = c.number /\ d.set = c.set /\ d.flags = c.flags /\ d.tcgplayerId = c.tcgplayerId
      /\ d.cardmarketId = c.cardmarketId /\ d.colors = c.colors
      /\ d.colorIdentity = c.colorIdentity /\ d.timestamp = c.timestamp /\ d.data = c.data
      /\ d.offsets = offsets /\ d.block = 0 /\ IsMade(d)
  BY <1>2 DEF Made, IsMade
<1>8. d \in CardFields
  <2>1. /\ c.number \in Word /\ c.set \in Seq(Byte) /\ c.flags \in SUBSET (0..5)
        /\ c.tcgplayerId \in Word /\ c.cardmarketId \in Word /\ c.colors \in Byte
        /\ c.colorIdentity \in Byte /\ c.timestamp \in Word64 /\ c.data \in Seq(Byte) /\ 0 \in Nat
    BY <1>1 DEF CardFields
  <2> QED
    BY <1>5, <1>7, <2>1, CardOfTypes
<1>9. FieldsSaid(d)
  BY <1>1, <1>7, SameFieldsSaid
<1>10. StringsSaid(d, passed \cap filter)
  BY <1>1, <1>6, <1>7 DEF StringsSaid
<1>11. Shrunk(d) => Len(d.data) <= ShrunkSize(limit)
  BY <1>1, <1>7 DEF Shrunk
<1> QED
  BY <1>8, <1>9, <1>10, <1>11 DEF Good, d

LEMMA GoodIsStorable ==
  ASSUME NEW c, NEW passed, NEW limit, Good(c, passed, limit)
  PROVE  Storable(c)
<1>1. c \in CardFields /\ FieldsSaid(c)
  BY DEF Good
<1>2. \A i \in Used(c) : c.offsets[i] < Len(c.data)
  BY GoodStrings
<1>3. c.set \in Seq(Byte \ {NUL}) /\ Len(c.set) < MaxSet
  BY <1>1 DEF FieldsSaid
<1>4. \A key, flag : Said(Root, key) # {} => SaidFlag(key, flag) = flag
  BY DEF SaidFlag, Root
<1>5. /\ Said(Root, "tcgplayer_id") = {} => c.tcgplayerId = {}
      /\ Said(Root, "cardmarket_id") = {} => c.cardmarketId = {}
      /\ Said(Root, "colors") = {} => c.colors = {}
      /\ Said(Root, "color_identity") = {} => c.colorIdentity = {}
  <2>1. \A key : Said(Root, key) = {} => SaidOr(key, {}) = {}
    BY DEF SaidOr, Root
  <2>2. \A key : Said(Root, key) = {} => SaidColors(key) = {}
    BY DEF SaidColors, AllSaid, Root
  <2> QED
    BY <1>1, <2>1, <2>2 DEF FieldsSaid
<1>6. SaidFlags \subseteq c.flags
  BY <1>1 DEF FieldsSaid
<1>7. /\ SaidFlag("tcgplayer_id", TcgplayerId) \subseteq c.flags
      /\ SaidFlag("cardmarket_id", CardmarketId) \subseteq c.flags
      /\ SaidFlag("colors", Colors) \subseteq c.flags
      /\ SaidFlag("color_identity", ColorIdentity) \subseteq c.flags
  BY <1>6 DEF SaidFlags
<1> QED
  BY <1>1, <1>2, <1>3, <1>4, <1>5, <1>7 DEF Storable

-----------------------------------------------------------------------------
(* sfc_card_shrink_string_data. *)

\* What grows at its end keeps what it had.
Grows(f, n) ==
  /\ \A m \in 0..n : f[m] \in Seq(Byte)
  /\ \A m \in 1..n : \E x \in Seq(Byte) : f[m] = f[m - 1] \o x
Begins(s, t) == Len(s) <= Len(t) /\ \A k \in 1..Len(s) : t[k] = s[k]

LEMMA ConcatBegins ==
  ASSUME NEW s \in Seq(Byte), NEW x \in Seq(Byte)
  PROVE  Begins(s, s \o x) /\ s \o x \in Seq(Byte)
<1>1. Len(s) \in Nat /\ Len(x) \in Nat /\ Len(s \o x) = Len(s) + Len(x) /\ s \o x \in Seq(Byte)
  BY ConcatProperties, LenProperties
<1>2. \A k \in 1..Len(s) : (s \o x)[k] = s[k]
  BY FrontAndRest
<1> QED
  BY <1>1, <1>2 DEF Begins

LEMMA BeginsFurther ==
  ASSUME NEW s \in Seq(Byte), NEW t \in Seq(Byte), NEW u \in Seq(Byte), Begins(s, t), Begins(t, u)
  PROVE  Begins(s, u)
<1>1. Len(s) \in Nat /\ Len(t) \in Nat /\ Len(u) \in Nat
  BY LenProperties
<1> QED
  BY <1>1 DEF Begins

LEMMA GrowingKeeps ==
  ASSUME NEW f, NEW n \in Nat, Grows(f, n), NEW m \in 0..n
  PROVE  Begins(f[m], f[n])
<1> DEFINE T == {j \in 0..(n - m) : Begins(f[m], f[m + j])}
<1>1. 0 \in T
  <2>1. m + 0 = m /\ f[m] \in Seq(Byte)
    BY DEF Grows
  <2>2. Len(f[m]) \in Nat
    BY <2>1, LenProperties
  <2> QED
    BY <2>1, <2>2 DEF Begins
<1>2. ASSUME NEW j \in 0..((n - m) - 1), j \in T PROVE j + 1 \in T
  <2> DEFINE a == m + j
             b == m + (j + 1)
  <2>1. a \in 0..n /\ b \in 1..n /\ b \in 0..n /\ b - 1 = a /\ j + 1 \in 0..(n - m)
    OBVIOUS
  <2>2. Begins(f[m], f[a])
    BY <1>2
  <2> HIDE DEF a, b
  <2>3. f[m] \in Seq(Byte) /\ f[a] \in Seq(Byte) /\ f[b] \in Seq(Byte)
    BY <2>1 DEF Grows
  <2>4. PICK x \in Seq(Byte) : f[b] = f[a] \o x
    BY <2>1 DEF Grows
  <2>5. Begins(f[a], f[b])
    BY <2>3, <2>4, ConcatBegins
  <2>6. Begins(f[m], f[b])
    BY <2>2, <2>3, <2>5, BeginsFurther
  <2> QED
    BY <2>1, <2>6 DEF b
<1>3. n - m \in T
  <2>1. n - m \in Nat
    OBVIOUS
  <2> HIDE DEF T
  <2>2. 0..(n - m) \subseteq T
    BY <1>1, <1>2, <2>1, InductionUpTo
  <2> QED
    BY <2>1, <2>2
<1>4. m + (n - m) = n
  OBVIOUS
<1> QED
  BY <1>3, <1>4

\* The strings that are packed, one by one.
Piece(c, i) == IF i \in Used(c) THEN WriteString(StringAt(c.data, c.offsets[i])) ELSE <<>>

LEMMA PiecesOf ==
  ASSUME NEW c, NEW passed, NEW limit \in Nat, Good(c, passed, limit), TextsFit(limit),
         origin.response \in Responses, NEW i \in StringIndex
  PROVE  /\ Piece(c, i) \in Seq(Byte) /\ Len(Piece(c, i)) \in 0..(limit + 1)
         /\ i \in Used(c) => /\ Piece(c, i) = SaidString(i) \o <<NUL>>
                             /\ Len(Piece(c, i)) = Len(SaidString(i)) + 1
                             /\ SaidString(i) \in Seq(Byte) /\ SaidString(i) \in Seq(Byte \ {NUL})
                             /\ Len(SaidString(i)) \in Nat
<1>1. CASE i \notin Used(c)
  <2>1. Piece(c, i) = <<>>
    BY <1>1 DEF Piece
  <2>2. <<>> \in Seq(Byte) /\ Len(<<>>) = 0
    BY EmptySeq
  <2>3. 0 \in 0..(limit + 1)
    OBVIOUS
  <2> QED
    BY <1>1, <2>1, <2>2, <2>3
<1>2. CASE i \in Used(c)
  <2> DEFINE s == SaidString(i)
  <2>1. StringAt(c.data, c.offsets[i]) = s /\ s \in Seq(Byte) /\ s \in Seq(Byte \ {NUL})
    BY <1>2, GoodStrings
  <2>2. Len(s) \in Nat /\ Len(s) <= limit
    <3> DEFINE o == StringEntries[i].object
               y == StringEntries[i].key
               r == origin.response
               N == Len(r.values)
    <3>1. N \in Nat /\ DOMAIN r.values = 1..N
      BY ResponseIs
    <3>2. s = IF Said(o, y) = {} THEN <<>> ELSE LastSaid(o, y).text
      BY DEF SaidString
    <3>3. Len(s) \in Nat
      <4> HIDE DEF s
      <4> QED
        BY <2>1, LenProperties
    <3>4. CASE Said(o, y) = {}
      <4> HIDE DEF s, o, y
      <4>1. s = <<>>
        BY <3>2, <3>4
      <4> QED
        BY <3>3, <4>1
    <3>5. CASE Said(o, y) # {}
      <4> DEFINE S == Said(o, y)
      <4>1. S \subseteq 1..N
        BY <3>1 DEF Said, Response
      <4>2. Max(S) \in S
        <5> HIDE DEF S, N
        <5>1. S \subseteq 0..N /\ S # {}
          BY <3>1, <3>5, <4>1 DEF S
        <5> QED
          BY <3>1, <5>1, GreatestBit
      <4>3. LastSaid(o, y) = r.values[Max(S)]
        BY DEF LastSaid, Response
      <4>4. Max(S) \in DOMAIN r.values
        BY <3>1, <4>1, <4>2
      <4>5. Len(r.values[Max(S)].text) <= limit
        BY <4>4 DEF TextsFit
      <4> HIDE DEF s, S, o, y
      <4> QED
        BY <3>2, <3>3, <3>5, <4>3, <4>5
    <3> QED
      BY <3>4, <3>5
  <2>3. Piece(c, i) = Append(s, NUL)
    BY <1>2, <2>1 DEF Piece, WriteString
  <2>4. NUL \in Byte
    BY DEF NUL, Byte, Width
  <2> HIDE DEF s
  <2>5. /\ Append(s, NUL) \in Seq(Byte) /\ Len(Append(s, NUL)) = Len(s) + 1
        /\ Append(s, NUL) = s \o <<NUL>>
    BY <2>1, <2>4, AppendProperties, AppendIsConcat
  <2>6. Len(s) + 1 \in 0..(limit + 1)
    BY <2>2
  <2> QED
    BY <2>1, <2>2, <2>3, <2>5, <2>6 DEF s
<1> QED
  BY <1>1, <1>2

PackedFirst(c, n) == Packed(c, n + 1)

LEMMA PackedGrows ==
  ASSUME NEW c, NEW passed, NEW limit \in Nat, Good(c, passed, limit), TextsFit(limit),
         origin.response \in Responses
  PROVE  /\ Packed(c, 1) = <<>>
         /\ \A n \in 1..(Len(StringEntries) + 1) : Packed(c, n) \in Seq(Byte)
         /\ \A n \in StringIndex : Packed(c, n + 1) = Packed(c, n) \o Piece(c, n)
<1> DEFINE N == Len(StringEntries)
           P(n) == [k \in 1..(n - 1) |-> Piece(c, k)]
<1>1. N \in Nat /\ StringIndex = 1..N
  BY EntriesAreASequence
<1>2. \A k \in 1..N : Piece(c, k) \in Seq(Byte)
  BY <1>1, PiecesOf
<1>3. \A n : Packed(c, n) = FlattenSeq(P(n))
  BY DEF Packed, Piece
<1>4. ASSUME NEW n \in 1..(N + 1) PROVE P(n) \in Seq(Seq(Byte)) /\ Len(P(n)) = n - 1
  <2> DEFINE f == P(n)
             j == n - 1
  <2>1. f \in [1..j -> Seq(Byte)] /\ j \in Nat
    BY <1>1, <1>2
  <2> HIDE DEF f, j
  <2>2. f \in Seq(Seq(Byte)) /\ Len(f) = j
    BY <2>1, FunctionIsSeq
  <2> QED
    BY <2>2 DEF f, j
<1>5. Packed(c, 1) = <<>>
  <2>1. 1 \in 1..(N + 1)
    BY <1>1
  <2>2. P(1) \in Seq(Seq(Byte)) /\ Len(P(1)) = 0
    BY <1>4, <2>1
  <2> HIDE DEF P
  <2>3. P(1) = <<>>
    BY <2>2, EmptySeq
  <2> QED
    BY <1>3, <2>3, FlattenOfNone
<1>6. \A n \in 1..(N + 1) : Packed(c, n) \in Seq(Byte)
  <2> SUFFICES ASSUME NEW n \in 1..(N + 1) PROVE Packed(c, n) \in Seq(Byte)
    OBVIOUS
  <2>1. P(n) \in Seq(Seq(Byte))
    BY <1>4
  <2> HIDE DEF P
  <2> QED
    BY <1>3, <2>1, FlattenConcat
<1>7. ASSUME NEW n \in 1..N PROVE Packed(c, n + 1) = Packed(c, n) \o Piece(c, n)
  <2> DEFINE s == P(n)
             x == Piece(c, n)
             t == <<x>>
  <2>1. n \in 1..(N + 1) /\ n + 1 \in 1..(N + 1) /\ n - 1 \in Nat /\ (n - 1) + 1 = n
          /\ (n + 1) - 1 = n
    BY <1>1
  <2>2. s \in Seq(Seq(Byte)) /\ Len(s) = n - 1 /\ x \in Seq(Byte)
    BY <1>2, <1>4, <2>1
  <2>3. \A k \in 1..(n - 1) : s[k] = Piece(c, k)
    OBVIOUS
  <2>4. P(n + 1) \in Seq(Seq(Byte)) /\ Len(P(n + 1)) = n
    BY <1>4, <2>1
  <2>4a. \A k \in 1..n : P(n + 1)[k] = Piece(c, k)
    BY <2>1
  <2>5a. t \in Seq(Seq(Byte))
    <3> HIDE DEF x
    <3> QED
      BY <2>2
  <2>5b. FlattenSeq(t) = x
    BY <2>2, FlattenOfOne
  <2> DEFINE q == P(n + 1)
  <2> HIDE DEF s, q
  <2>5. Append(s, x) \in Seq(Seq(Byte)) /\ Len(Append(s, x)) = n
    BY <2>1, <2>2, AppendProperties
  <2>6. \A k \in 1..n : Append(s, x)[k] = Piece(c, k)
    <3> SUFFICES ASSUME NEW k \in 1..n PROVE Append(s, x)[k] = Piece(c, k)
      OBVIOUS
    <3>1. CASE k = n
      BY <2>1, <2>2, <3>1, AppendProperties
    <3>2. CASE k # n
      <4>1. k \in 1..(n - 1)
        BY <3>2
      <4> QED
        BY <2>2, <2>3, <4>1, AppendProperties
    <3> QED
      BY <3>1, <3>2
  <2>7. q = Append(s, x)
    <3>1. q \in Seq(Seq(Byte)) /\ Len(q) = n /\ \A k \in 1..n : q[k] = Piece(c, k)
      BY <2>4, <2>4a DEF q
    <3> QED
      BY <2>5, <2>6, <3>1, SeqEqual
  <2>8. Append(s, x) = s \o t
    BY <2>2, AppendIsConcat
  <2> HIDE DEF t, x
  <2>9. FlattenSeq(s \o t) = FlattenSeq(s) \o FlattenSeq(t)
    BY <2>2, <2>5a, FlattenConcat
  <2>10. FlattenSeq(q) = FlattenSeq(s) \o x
    BY <2>5b, <2>7, <2>8, <2>9
  <2>11. Packed(c, n + 1) = FlattenSeq(q) /\ Packed(c, n) = FlattenSeq(s)
    BY <1>3 DEF q, s
  <2> QED
    BY <2>10, <2>11 DEF x
<1> QED
  BY <1>1, <1>5, <1>6, <1>7

LEMMA MoreIsMore == \A n, limit \in Nat : (n + 1) * (limit + 1) = n * (limit + 1) + (limit + 1)
  OBVIOUS
LEMMA SumsOfTwo ==
  \A a, b, x, y \in Nat : a <= x /\ b <= y => a + b <= x + y
  OBVIOUS

LEMMA PackedSize ==
  ASSUME NEW c, NEW passed, NEW limit \in Nat, Good(c, passed, limit), TextsFit(limit),
         origin.response \in Responses
  PROVE  Len(Packed(c, Len(StringEntries) + 1)) <= ShrunkSize(limit)
<1> DEFINE N == Len(StringEntries)
           T == {n \in 0..N : Len(Packed(c, n + 1)) <= n * (limit + 1)}
<1>1. N \in Nat /\ StringIndex = 1..N
  BY EntriesAreASequence
<1>2. /\ Packed(c, 1) = <<>>
      /\ \A n \in 1..(N + 1) : Packed(c, n) \in Seq(Byte)
      /\ \A n \in StringIndex : Packed(c, n + 1) = Packed(c, n) \o Piece(c, n)
  BY PackedGrows
<1>3. 0 \in T
  <2>1. 0 + 1 = 1 /\ 0 * (limit + 1) = 0 /\ 0 \in 0..N /\ Len(<<>>) = 0
    BY <1>1
  <2>2. Len(Packed(c, 0 + 1)) <= 0 * (limit + 1)
    BY <1>2, <2>1
  <2> QED
    BY <2>1, <2>2
<1>4. ASSUME NEW n \in 0..(N - 1), n \in T PROVE n + 1 \in T
  <2> DEFINE a == Packed(c, n + 1)
             x == Piece(c, n + 1)
  <2>1. n + 1 \in 1..N /\ n + 1 \in 0..N /\ n + 1 \in 1..(N + 1) /\ n \in Nat
    BY <1>1
  <2>2. x \in Seq(Byte) /\ Len(x) \in 0..(limit + 1)
    BY <1>1, <2>1, PiecesOf
  <2>3. a \in Seq(Byte) /\ Len(a) <= n * (limit + 1)
    BY <1>2, <1>4, <2>1
  <2>4. Packed(c, (n + 1) + 1) = a \o x
    BY <1>1, <1>2, <2>1
  <2> HIDE DEF a, x
  <2>5. Len(a \o x) = Len(a) + Len(x) /\ Len(a) \in Nat
    BY <2>2, <2>3, ConcatProperties, LenProperties
  <2>6. Len(a) + Len(x) <= (n + 1) * (limit + 1)
    <3> DEFINE la == Len(a)
               lx == Len(x)
               w == limit + 1
               u == n * w
    <3>1. la \in Nat /\ lx \in 0..w /\ la <= u /\ w \in Nat
      BY <2>2, <2>3, <2>5
    <3>2. u \in Nat
      BY <2>1, <3>1
    <3>3. (n + 1) * w = u + w
      BY <2>1, MoreIsMore
    <3> HIDE DEF la, lx, w, u
    <3>4. la + lx <= u + w
      BY <3>1, <3>2
    <3> QED
      BY <3>3, <3>4 DEF la, lx, w
  <2> QED
    BY <2>1, <2>4, <2>5, <2>6
<1>5. N \in T
  <2> HIDE DEF T
  <2>1. 0..N \subseteq T
    BY <1>1, <1>3, <1>4, InductionUpTo
  <2> QED
    BY <1>1, <2>1
<1> QED
  BY <1>5 DEF ShrunkSize

LEMMA CompactedIs ==
  ASSUME NEW c \in CardFields
  PROVE  Compacted(c) =
           Made(c.number, c.set, c.flags \cup IsShrunk, c.tcgplayerId, c.cardmarketId, c.colors,
                c.colorIdentity, c.timestamp, Packed(c, Len(StringEntries) + 1),
                [i \in StringIndex |-> IF i \in Used(c) THEN Len(Packed(c, i)) ELSE NoOffset],
                c.block + 1)
<1> DEFINE data == Packed(c, Len(StringEntries) + 1)
           offsets == [i \in StringIndex |-> IF i \in Used(c) THEN Len(Packed(c, i)) ELSE NoOffset]
           flags == c.flags \cup IsShrunk
           block == c.block + 1
<1>1. c = Made(c.number, c.set, c.flags, c.tcgplayerId, c.cardmarketId, c.colors,
               c.colorIdentity, c.timestamp, c.data, c.offsets, c.block)
  BY CardIsMade
<1>2. Compacted(c) = [c EXCEPT !.data = data, !.block = block, !.offsets = offsets, !.flags = flags]
  BY DEF Compacted
<1> HIDE DEF data, offsets, flags, block
<1>3. [c EXCEPT !.data = data, !.block = block, !.offsets = offsets, !.flags = flags] =
        Made(c.number, c.set, flags, c.tcgplayerId, c.cardmarketId, c.colors,
             c.colorIdentity, c.timestamp, data, offsets, block)
  <2> DEFINE number == c.number
             set == c.set
             f == c.flags
             tcg == c.tcgplayerId
             cm == c.cardmarketId
             colors == c.colors
             identity == c.colorIdentity
             time == c.timestamp
             d == c.data
             o == c.offsets
             b == c.block
  <2>1. c = Made(number, set, f, tcg, cm, colors, identity, time, d, o, b)
    BY <1>1
  <2> HIDE DEF number, set, f, tcg, cm, colors, identity, time, d, o, b
  <2>2. [c EXCEPT !.data = data, !.block = block, !.offsets = offsets, !.flags = flags] =
          [[[[c EXCEPT !.data = data] EXCEPT !.block = block] EXCEPT !.offsets = offsets]
             EXCEPT !.flags = flags]
    OBVIOUS
  <2>3. [c EXCEPT !.data = data] =
          Made(number, set, f, tcg, cm, colors, identity, time, data, o, b)
    BY <2>1, SMTT(60) DEF Made
  <2>4. [Made(number, set, f, tcg, cm, colors, identity, time, data, o, b) EXCEPT !.block = block] =
          Made(number, set, f, tcg, cm, colors, identity, time, data, o, block)
    BY SMTT(60) DEF Made
  <2>5. [Made(number, set, f, tcg, cm, colors, identity, time, data, o, block)
           EXCEPT !.offsets = offsets] =
          Made(number, set, f, tcg, cm, colors, identity, time, data, offsets, block)
    BY SMTT(60) DEF Made
  <2>6. [Made(number, set, f, tcg, cm, colors, identity, time, data, offsets, block)
           EXCEPT !.flags = flags] =
          Made(number, set, flags, tcg, cm, colors, identity, time, data, offsets, block)
    BY SMTT(60) DEF Made
  <2> QED
    BY <2>2, <2>3, <2>4, <2>5, <2>6 DEF number, set, tcg, cm, colors, identity, time
<1> QED
  BY <1>2, <1>3 DEF data, offsets, flags, block

\* Moving the strings together leaves each as it is (sfc_card.c:580).
LEMMA CompactedIsGood ==
  ASSUME NEW c, NEW passed, NEW limit \in Nat, Good(c, passed, limit), TextsFit(limit),
         origin.response \in Responses
  PROVE  Good(Compacted(c), passed, limit) /\ Shrunk(Compacted(c))
<1> DEFINE N == Len(StringEntries)
           d == Compacted(c)
           data == Packed(c, N + 1)
           offsets == [i \in StringIndex |-> IF i \in Used(c) THEN Len(Packed(c, i)) ELSE NoOffset]
<1>1. N \in Nat /\ StringIndex = 1..N
  BY EntriesAreASequence
<1>2. /\ Packed(c, 1) = <<>>
      /\ \A n \in 1..(N + 1) : Packed(c, n) \in Seq(Byte)
      /\ \A n \in StringIndex : Packed(c, n + 1) = Packed(c, n) \o Piece(c, n)
  BY PackedGrows
<1>3. c \in CardFields /\ FieldsSaid(c) /\ StringsSaid(c, passed)
  BY DEF Good
<1>4. d = Made(c.number, c.set, c.flags \cup IsShrunk, c.tcgplayerId, c.cardmarketId, c.colors,
               c.colorIdentity, c.timestamp, data, offsets, c.block + 1)
  BY <1>3, CompactedIs
<1>5. Len(data) <= ShrunkSize(limit) /\ data \in Seq(Byte)
  <2>1. N + 1 \in 1..(N + 1)
    BY <1>1
  <2> QED
    BY <1>2, <2>1, PackedSize
<1>6. \A i \in StringIndex : Packed(c, i) \in Seq(Byte) /\ Len(Packed(c, i)) \in Nat
  <2>1. \A i \in 1..N : i \in 1..(N + 1)
    BY <1>1
  <2> QED
    BY <1>1, <1>2, <2>1, LenProperties
<1>7. offsets \in [StringIndex -> Nat \cup {NoOffset}]
  BY <1>6
<1>8. ASSUME NEW i \in Used(c) PROVE HoldsAt(data, Len(Packed(c, i)), SaidString(i))
  <2> DEFINE f == [n \in 0..N |-> Packed(c, n + 1)]
             a == Packed(c, i)
             s == SaidString(i)
             nul == <<NUL>>
             l == Len(s)
             x == Piece(c, i)
             j == i - 1
  <2>1. i \in StringIndex /\ i \in 1..N /\ i \in 0..N /\ N \in 0..N /\ j \in 0..N /\ j + 1 = i
    BY <1>1 DEF Used
  <2>2. Grows(f, N)
    <3>1. \A m \in 0..N : f[m] \in Seq(Byte)
      <4>1. \A m \in 0..N : m + 1 \in 1..(N + 1)
        BY <1>1
      <4> QED
        BY <1>2, <4>1
    <3>2. \A m \in 1..N : \E z \in Seq(Byte) : f[m] = f[m - 1] \o z
      <4> SUFFICES ASSUME NEW m \in 1..N PROVE \E z \in Seq(Byte) : f[m] = f[m - 1] \o z
        OBVIOUS
      <4>1. m \in 0..N /\ m - 1 \in 0..N /\ (m - 1) + 1 = m
        BY <1>1
      <4>2. f[m] = Packed(c, m + 1) /\ f[m - 1] = Packed(c, m)
        BY <4>1
      <4>3. Piece(c, m) \in Seq(Byte)
        BY <1>1, PiecesOf
      <4>4. Packed(c, m + 1) = Packed(c, m) \o Piece(c, m)
        BY <1>1, <1>2
      <4> HIDE DEF f
      <4> QED
        BY <4>2, <4>3, <4>4
    <3> HIDE DEF f
    <3> QED
      BY <3>1, <3>2 DEF Grows
  <2>3. f[i] = Packed(c, i + 1) /\ f[N] = data
    BY <2>1
  <2> HIDE DEF f, data
  <2>4. Begins(f[i], f[N])
    BY <1>1, <2>1, <2>2, GrowingKeeps
  <2>5. f[i] = a \o x /\ a \in Seq(Byte) /\ Len(a) \in Nat
    BY <1>2, <1>6, <2>1, <2>3
  <2>6. /\ x = s \o nul /\ s \in Seq(Byte) /\ s \in Seq(Byte \ {NUL}) /\ l \in Nat
        /\ x \in Seq(Byte) /\ Len(x) = l + 1
    BY <2>1, PiecesOf
  <2>7. nul \in Seq(Byte) /\ Len(nul) = 1 /\ nul[1] = NUL
    BY DEF NUL, Byte, Width
  <2> HIDE DEF a, s, nul, x
  <2>8. \A k \in 1..l : x[k] = s[k]
    <3> SUFFICES ASSUME NEW k \in 1..l PROVE x[k] = s[k]
      OBVIOUS
    <3>1. (s \o nul)[k] = s[k]
      BY <2>6, <2>7, FrontAndRest
    <3> QED
      BY <2>6, <3>1
  <2>9. x[l + 1] = NUL
    <3>1. l + 1 \in 1..(l + 1) /\ ~(l + 1 <= l) /\ (l + 1) - l = 1
      <4> HIDE DEF l
      <4> QED
        BY <2>6
    <3>2. (s \o nul)[l + 1] = nul[(l + 1) - l]
      BY <2>6, <2>7, <3>1, ConcatProperties
    <3> QED
      BY <2>6, <2>7, <3>1, <3>2
  <2> DEFINE la == Len(a)
             z == Len(data)
  <2>10. Len(a \o x) = la + (l + 1)
    <3>1. Len(a \o x) = Len(a) + Len(x)
      BY <2>5, <2>6, ConcatProperties
    <3> QED
      BY <2>6, <3>1
  <2>11. \A k \in 1..(l + 1) : (a \o x)[la + k] = x[k]
    <3> SUFFICES ASSUME NEW k \in 1..(l + 1) PROVE (a \o x)[la + k] = x[k]
      OBVIOUS
    <3>0. la \in Nat /\ l \in Nat
      BY <2>5, <2>6
    <3> HIDE DEF la, l
    <3>1. la + k \in 1..(la + (l + 1)) /\ ~(la + k <= la) /\ (la + k) - la = k
      BY <3>0
    <3>2. (a \o x)[la + k] = x[(la + k) - la]
      BY <2>5, <2>6, <3>1, ConcatProperties DEF la
    <3> QED
      BY <3>1, <3>2
  <2>12. la + (l + 1) <= z /\ \A k \in 1..(la + (l + 1)) : data[k] = (a \o x)[k]
    BY <2>3, <2>4, <2>5, <2>10 DEF Begins
  <2>13. z \in Nat
    BY <1>5, LenProperties
  <2> HIDE DEF z
  <2>14. \A k \in 1..(l + 1) : la + k \in 1..(la + (l + 1))
    <3>1. la \in Nat /\ l \in Nat
      BY <2>5, <2>6
    <3> HIDE DEF la, l
    <3> QED
      BY <3>1
  <2>15. \A k \in 1..(l + 1) : data[la + k] = x[k]
    BY <2>11, <2>12, <2>14
  <2>16. la \in Nat /\ l \in Nat
    BY <2>5, <2>6
  <2> HIDE DEF la, l
  <2>17. /\ \A k \in 1..l : data[la + k] = s[k]
         /\ data[la + l + 1] = NUL /\ la + l + 1 <= z
    <3>1. \A k \in 1..l : k \in 1..(l + 1)
      BY <2>16
    <3>2. l + 1 \in 1..(l + 1) /\ la + (l + 1) = la + l + 1
      BY <2>16
    <3> QED
      BY <2>8, <2>9, <2>12, <2>15, <3>1, <3>2
  <2> QED
    BY <2>6, <2>16, <2>17 DEF HoldsAt, la, l, a, s, z
<1> HIDE DEF d, data, offsets
<1>9. /\ d.number = c.number /\ d.set = c.set /\ d.flags = c.flags \cup IsShrunk
      /\ d.tcgplayerId = c.tcgplayerId /\ d.cardmarketId = c.cardmarketId /\ d.colors = c.colors
      /\ d.colorIdentity = c.colorIdentity /\ d.timestamp = c.timestamp /\ d.data = data
      /\ d.offsets = offsets /\ d.block = c.block + 1 /\ IsMade(d)
  BY <1>4 DEF Made, IsMade
<1>10. d \in CardFields
  <2>1. /\ c.number \in Word /\ c.set \in Seq(Byte) /\ c.flags \in SUBSET (0..5)
        /\ c.tcgplayerId \in Word /\ c.cardmarketId \in Word /\ c.colors \in Byte
        /\ c.colorIdentity \in Byte /\ c.timestamp \in Word64 /\ c.block \in Nat
    BY <1>3 DEF CardFields
  <2>2. c.flags \cup IsShrunk \in SUBSET (0..5) /\ c.block + 1 \in Nat
    <3>1. c.flags \cup IsShrunk \in SUBSET (0..5)
      BY <2>1, FlagsAreBits
    <3>2. c.block + 1 \in Nat
      <4> DEFINE k == c.block
      <4>1. k \in Nat
        BY <2>1
      <4> HIDE DEF k
      <4>2. k + 1 \in Nat
        BY <4>1
      <4> QED
        BY <4>2 DEF k
    <3> QED
      BY <3>1, <3>2
  <2> QED
    BY <1>5, <1>7, <1>9, <2>1, <2>2, CardOfTypes
<1>11. FieldsSaid(d)
  <2>1. d.flags \ IsShrunk = c.flags \ IsShrunk
    BY <1>9
  <2> QED
    BY <1>3, <1>9, <2>1, SameFieldsSaid
<1>12. StringsSaid(d, passed)
  <2> SUFFICES ASSUME NEW i \in StringIndex
               PROVE  IF i \in passed /\ Said(StringEntries[i].object, StringEntries[i].key) # {}
                      THEN d.offsets[i] # NoOffset /\ HoldsAt(d.data, d.offsets[i], SaidString(i))
                      ELSE d.offsets[i] = NoOffset
    BY DEF StringsSaid
  <2>1. offsets[i] = IF i \in Used(c) THEN Len(Packed(c, i)) ELSE NoOffset
    BY DEF offsets
  <2>2. i \in Used(c) <=> i \in passed /\ Said(StringEntries[i].object, StringEntries[i].key) # {}
    BY <1>3 DEF StringsSaid, Used
  <2>3. CASE i \in Used(c)
    <3>1. d.offsets[i] = Len(Packed(c, i)) /\ d.data = data
      BY <1>9, <2>1, <2>3
    <3>2. Len(Packed(c, i)) # NoOffset
      BY <1>6, NoOffsetAssumption
    <3> QED
      BY <1>8, <2>2, <2>3, <3>1, <3>2
  <2>4. CASE i \notin Used(c)
    BY <1>9, <2>1, <2>2, <2>4
  <2> QED
    BY <2>3, <2>4
<1>13. Shrunk(d)
  BY <1>9 DEF Shrunk
<1> QED
  BY <1>5, <1>9, <1>10, <1>11, <1>12, <1>13 DEF Good, d

LEMMA ShrinkIsGood ==
  ASSUME NEW c, NEW passed, NEW limit \in Nat, Good(c, passed, limit), TextsFit(limit),
         origin.response \in Responses
  PROVE  /\ Good(Shrink(c), passed, limit) /\ Shrunk(Shrink(c))
         /\ Len(Shrink(c).data) <= ShrunkSize(limit)
<1>1. CASE Shrunk(c)
  <2>1. Shrink(c) = c
    BY <1>1 DEF Shrink
  <2> QED
    BY <1>1, <2>1 DEF Good
<1>2. CASE ~Shrunk(c)
  <2>1. Shrink(c) = Compacted(c)
    BY <1>2 DEF Shrink
  <2>2. Good(Compacted(c), passed, limit) /\ Shrunk(Compacted(c))
    BY CompactedIsGood
  <2> QED
    BY <2>1, <2>2 DEF Good
<1> QED
  BY <1>1, <1>2

-----------------------------------------------------------------------------
(* The size of a record. *)

AtMost(s, n) == s \in Bytes /\ Len(s) \in Nat /\ n \in Nat /\ Len(s) <= n

LEMMA AtMostBoth ==
  ASSUME NEW s, NEW t, NEW m, NEW n, AtMost(s, m), AtMost(t, n)
  PROVE  AtMost(s \o t, m + n)
<1>1. s \in Seq(Byte) /\ t \in Seq(Byte) /\ m \in Nat /\ n \in Nat /\ Len(s) <= m /\ Len(t) <= n
  BY DEF AtMost, Bytes
<1>2. s \o t \in Seq(Byte) /\ Len(s \o t) = Len(s) + Len(t) /\ Len(s) \in Nat /\ Len(t) \in Nat
  BY <1>1, ConcatProperties, LenProperties
<1> DEFINE a == Len(s)
           b == Len(t)
           c == Len(s \o t)
<1>3. s \o t \in Bytes /\ a \in Nat /\ b \in Nat /\ c = a + b /\ a <= m /\ b <= n
  BY <1>1, <1>2 DEF Bytes
<1> HIDE DEF a, b, c
<1>4. c \in Nat /\ m + n \in Nat /\ c <= m + n
  BY <1>1, <1>3
<1> QED
  BY <1>3, <1>4 DEF AtMost, c

LEMMA WritesAtMost ==
  /\ \A w \in Word : AtMost(WriteVarSizeUint32(w), 5)
  /\ \A b \in Byte : AtMost(WriteUint8(b), 1)
<1>1. ASSUME NEW w \in Word PROVE AtMost(WriteVarSizeUint32(w), 5)
  <2>1. WriteVarSizeUint32(w) \in Bytes /\ Len(WriteVarSizeUint32(w)) = Groups(w)
    BY WritesVarSize
  <2>2. Groups(w) \in 1..5
    BY GroupsOfWord
  <2> DEFINE g == Groups(w)
  <2> HIDE DEF g
  <2>3. g \in Nat /\ g <= 5 /\ 5 \in Nat
    BY <2>2 DEF g
  <2> QED
    BY <2>1, <2>3 DEF AtMost, g
<1>2. ASSUME NEW b \in Byte PROVE AtMost(WriteUint8(b), 1)
  <2> DEFINE T == Byte
  <2>1. b \in T
    OBVIOUS
  <2> HIDE DEF T
  <2>2. <<b>> \in Seq(T) /\ Len(<<b>>) = 1
    BY <2>1
  <2>3. 1 \in Nat /\ 1 <= 1
    OBVIOUS
  <2> QED
    BY <2>2, <2>3 DEF AtMost, Bytes, T, WriteUint8
<1> QED
  BY <1>1, <1>2

LEMMA OptionalAtMost ==
  ASSUME NEW c, NEW flag, NEW bytes, NEW n, AtMost(bytes, n)
  PROVE  AtMost(OptionalBytes(c, flag, bytes), n)
<1>1. AtMost(<<>>, n)
  <2>1. <<>> \in Seq(Byte) /\ Len(<<>>) = 0
    BY EmptySeq
  <2>2. n \in Nat
    BY DEF AtMost
  <2>3. 0 \in Nat /\ 0 <= n
    BY <2>2
  <2> QED
    BY <2>1, <2>2, <2>3 DEF AtMost, Bytes
<1> QED
  BY <1>1 DEF OptionalBytes

LEMMA TenMore == \A n \in Nat : 10 * (n + 1) = (5 + 5) + 10 * n /\ 10 * n \in Nat
  OBVIOUS
LEMMA MoreAtMost ==
  ASSUME NEW s, NEW m, NEW n \in Nat, AtMost(s, m), m <= n
  PROVE  AtMost(s, n)
<1>1. s \in Bytes /\ Len(s) \in Nat /\ m \in Nat /\ Len(s) <= m
  BY DEF AtMost
<1> DEFINE l == Len(s)
<1> HIDE DEF l
<1>2. l <= n
  BY <1>1 DEF l
<1> QED
  BY <1>1, <1>2 DEF AtMost, l

LEMMA OffsetsAtMost ==
  ASSUME NEW c \in CardFields, Len(StringEntries) < 2^31
  PROVE  AtMost(FlattenSeq(WriteOffsets(c)), 10 * Len(StringEntries))
<1> DEFINE N == Len(StringEntries)
<1>1. N \in Nat /\ StringIndex = 1..N
  BY EntriesAreASequence
<1>2. <<>> \in Bytes
  BY DEF Bytes
<1>3. PICK B : OffsetTails(B, c, <<>>)
  BY <1>2, OffsetTailsOf
<1>4. /\ B[0] = FlattenSeq(WriteOffsets(c)) \o <<>> /\ B[N] = <<>>
      /\ \A i \in StringIndex :
           B[i - 1] = IF i \in Used(c)
                      THEN WriteVarSizeUint32(Bits(i - 1))
                        \o (WriteVarSizeUint32(Bits(c.offsets[i])) \o B[i])
                      ELSE B[i]
  BY <1>3 DEF OffsetTails
<1> DEFINE T == {j \in 0..N : AtMost(B[N - j], 10 * j)}
<1>5. 0 \in T
  <2>1. N - 0 = N /\ 10 * 0 = 0 /\ 0 \in Nat /\ 0 <= 0 /\ Len(<<>>) = 0
    BY <1>1
  <2>2. AtMost(<<>>, 0)
    BY <1>2, <2>1 DEF AtMost
  <2> HIDE DEF N
  <2>3. 0 \in 0..N /\ B[N - 0] = <<>>
    BY <1>1, <1>4, <2>1
  <2> QED
    BY <2>1, <2>2, <2>3
<1>6. ASSUME NEW j \in 0..(N - 1), j \in T PROVE j + 1 \in T
  <2> DEFINE i == N - j
  <2>1. i \in 1..N /\ i - 1 = N - (j + 1) /\ j + 1 \in 0..N /\ j \in Nat /\ i - 1 \in Nat
    BY <1>1
  <2>2. AtMost(B[i], 10 * j)
    BY <1>6
  <2> HIDE DEF i
  <2>3. 10 * (j + 1) = (5 + 5) + 10 * j /\ 10 * j \in Nat /\ (5 + 5) + 10 * j \in Nat
    BY <2>1, TenMore
  <2>4. CASE i \in Used(c)
    <3> DEFINE x == WriteVarSizeUint32(Bits(i - 1))
               y == WriteVarSizeUint32(Bits(c.offsets[i]))
               z == B[i]
    <3>1. c.offsets[i] \in Nat
      BY <2>4 DEF CardFields, Used
    <3>2. AtMost(x, 5) /\ AtMost(y, 5)
      BY <2>1, <3>1, BitsAreAWord, WritesAtMost
    <3>3. B[i - 1] = x \o (y \o z)
      BY <1>1, <1>4, <2>1, <2>4
    <3>4. AtMost(z, 10 * j)
      BY <2>2
    <3> HIDE DEF x, y, z
    <3> DEFINE t == 10 * j
    <3>5. AtMost(z, t)
      BY <3>4
    <3>6. t \in Nat /\ 10 * (j + 1) = 5 + (5 + t)
      BY <2>3
    <3> HIDE DEF t
    <3>7. AtMost(y \o z, 5 + t)
      BY <3>2, <3>5, AtMostBoth
    <3>8. AtMost(x \o (y \o z), 5 + (5 + t))
      BY <3>2, <3>7, AtMostBoth
    <3>9. AtMost(B[i - 1], 10 * (j + 1))
      BY <3>3, <3>6, <3>8
    <3> QED
      BY <2>1, <3>9
  <2>5. CASE i \notin Used(c)
    <3>1. B[i - 1] = B[i]
      BY <1>1, <1>4, <2>1, <2>5
    <3>2. 10 * j <= 10 * (j + 1) /\ 10 * (j + 1) \in Nat
      BY <2>1
    <3>3. AtMost(B[i], 10 * (j + 1))
      <4> DEFINE a == 10 * j
                 b == 10 * (j + 1)
      <4>1. AtMost(B[i], a) /\ a <= b /\ b \in Nat
        BY <2>2, <3>2
      <4> HIDE DEF a, b
      <4>2. AtMost(B[i], b)
        BY <4>1, MoreAtMost
      <4> QED
        BY <4>2 DEF b
    <3> QED
      BY <2>1, <3>1, <3>3
  <2> QED
    BY <2>4, <2>5
<1>7. N \in T
  <2> HIDE DEF T
  <2>1. 0..N \subseteq T
    BY <1>1, <1>5, <1>6, InductionUpTo
  <2> QED
    BY <1>1, <2>1
<1>8. N - N = 0
  BY <1>1
<1>9. AtMost(B[0], 10 * N)
  BY <1>7, <1>8
<1>10. FlattenSeq(WriteOffsets(c)) \o <<>> = FlattenSeq(WriteOffsets(c))
  <2>1. FlattenSeq(WriteOffsets(c)) \in Seq(Byte)
    BY PiecesAreBytes DEF Bytes
  <2> DEFINE x == FlattenSeq(WriteOffsets(c))
  <2> HIDE DEF x
  <2>2. x \o <<>> = x
    BY <2>1, ConcatEmptySeq DEF x
  <2> QED
    BY <2>2 DEF x
<1> QED
  BY <1>4, <1>9, <1>10

LEMMA RecordSums ==
  \A n, l, d \in Nat : n * (l + 11) + 44 < 2^24 /\ d <= n * (l + 1)
    => 5 + (5 + (5 + (d + (5 + (10 * n + 24))))) < 2^24
<1> SUFFICES ASSUME NEW n \in Nat, NEW l \in Nat, NEW d \in Nat,
                    n * (l + 11) + 44 < 2^24, d <= n * (l + 1)
             PROVE  5 + (5 + (5 + (d + (5 + (10 * n + 24))))) < 2^24
  OBVIOUS
<1>1. n * (l + 11) = n * (l + 1) + 10 * n /\ n * (l + 1) \in Nat
  OBVIOUS
<1>2. 2^24 = 16777216
  BY SMT
<1> DEFINE x == n * (l + 1)
           y == n * (l + 11)
<1>3. y = x + 10 * n /\ x \in Nat /\ y + 44 < 16777216 /\ d <= x
  BY <1>1, <1>2
<1> HIDE DEF x, y
<1> QED
  BY <1>2, <1>3

LEMMA FlagsFitWidth ==
  /\ 4 \in 0..8
  /\ \A x : x \subseteq 0..5 => x \in Width(8 * 4)
<1>1. 8 * 4 - 1 = 31 /\ 0..5 \subseteq 0..31
  OBVIOUS
<1> QED
  BY <1>1 DEF Width

\* The record of a card whose strings were moved together fits a frame.
LEMMA RecordFits ==
  ASSUME NEW c, Storable(c), NEW limit \in Nat, TextsFit(limit), Len(c.data) <= ShrunkSize(limit)
  PROVE  /\ Serialized(c) \in Bytes /\ Len(Serialized(c)) < 2^24
         /\ Len(StringEntries) < 2^31 /\ Len(c.data) < 2^31
<1> DEFINE N == Len(StringEntries)
           L == Len(c.data)
<1>1. N \in Nat /\ L \in Nat /\ c \in CardFields /\ c.data \in Bytes
  <2>1. c.data \in Seq(Byte)
    BY DEF Storable, CardFields
  <2> QED
    BY <2>1, EntriesAreASequence, LenProperties DEF Storable, Bytes
<1>2. N * (limit + 11) + 44 < 2^24 /\ L <= N * (limit + 1)
  BY DEF TextsFit, ShrunkSize
<1>3. 2^24 = 16777216 /\ 2^31 = 2147483648
  BY SMT
<1>4. N < 2^31 /\ L < 2^31
  <2> HIDE DEF N, L
  <2>1. 5 + (5 + (5 + (L + (5 + (10 * N + 24))))) < 2^24
    BY <1>1, <1>2, RecordSums
  <2> QED
    BY <1>1, <1>3, <2>1
<1>5. /\ c.number \in Word /\ c.tcgplayerId \in Word /\ c.cardmarketId \in Word
      /\ c.colors \in Byte /\ c.colorIdentity \in Byte /\ c.flags \subseteq 0..5
      /\ c.timestamp \in Word64
  BY <1>1 DEF CardFields
<1>6. AtMost(WriteUint64(c.timestamp), 8)
  <2>1. 8 \in 0..8 /\ c.timestamp \in Width(8 * 8)
    BY <1>5 DEF Width, Word64
  <2>2. WriteUint64(c.timestamp) \in Bytes /\ Len(WriteUint64(c.timestamp)) = 8
    BY <2>1, SplitIsJoined DEF WriteUint64
  <2>3. 8 \in Nat /\ 8 <= 8
    OBVIOUS
  <2> QED
    BY <2>2, <2>3 DEF AtMost
<1>7. AtMost(WriteUint32(c.flags), 4)
  <2>1. 4 \in 0..8 /\ c.flags \in Width(8 * 4)
    BY <1>5, FlagsFitWidth
  <2>2. WriteUint32(c.flags) \in Bytes /\ Len(WriteUint32(c.flags)) = 4
    BY <2>1, SplitIsJoined DEF WriteUint32
  <2>3. 4 \in Nat /\ 4 <= 4
    OBVIOUS
  <2> QED
    BY <2>2, <2>3 DEF AtMost
<1>8. /\ AtMost(WriteVarSizeUint32(c.number), 5)
      /\ AtMost(WriteVarSizeUint32(Bits(L)), 5)
      /\ AtMost(WriteVarSizeUint32(Bits(Cardinality(Used(c)))), 5)
      /\ AtMost(WriteVarSizeUint32(c.tcgplayerId), 5)
           /\ AtMost(WriteVarSizeUint32(c.cardmarketId), 5)
      /\ AtMost(WriteUint8(c.colors), 1) /\ AtMost(WriteUint8(c.colorIdentity), 1)
  <2>1. Cardinality(Used(c)) \in Nat
    BY UsedCount, EntriesAreASequence
  <2> QED
    BY <1>1, <1>5, <2>1, BitsAreAWord, WritesAtMost
<1>9. AtMost(WriteString(c.set), 5)
  <2> DEFINE s == c.set
  <2>1. s \in Seq(Byte) /\ Len(s) < 5
    BY <1>1 DEF Storable, MaxSet, CardFields
  <2>2. NUL \in Byte
    BY DEF NUL, Byte, Width
  <2> HIDE DEF s
  <2>3. Append(s, NUL) \in Seq(Byte) /\ Len(Append(s, NUL)) = Len(s) + 1 /\ Len(s) \in Nat
    BY <2>1, <2>2, AppendProperties, LenProperties
  <2> DEFINE k == Len(s)
             m == Len(Append(s, NUL))
  <2>4. k \in Nat /\ m = k + 1 /\ k < 5
    BY <2>1, <2>3
  <2> HIDE DEF k, m
  <2>5. m \in Nat /\ m <= 5 /\ 5 \in Nat
    BY <2>4
  <2> QED
    BY <2>3, <2>5 DEF AtMost, Bytes, WriteString, m, s
<1>10. AtMost(c.data, L)
  BY <1>1 DEF AtMost
<1>11. AtMost(FlattenSeq(WriteOffsets(c)), 10 * N)
  BY <1>1, <1>4, OffsetsAtMost
<1> HIDE DEF N, L
<1> DEFINE r1 == WriteUint64(c.timestamp)
           r2 == ColorBytes(c, r1)
           r3 == IdBytes(c, r2)
           r4 == FlagBytes(c, r3)
           r5 == StringBytes(c, r4)
           r6 == DataBytes(c, r5)
           r7 == HeadBytes(c, r6)
<1>12. AtMost(r2, 10)
  <2> DEFINE x == OptionalBytes(c, ColorIdentity, WriteUint8(c.colorIdentity))
             y == OptionalBytes(c, Colors, WriteUint8(c.colors))
  <2>1. AtMost(x, 1) /\ AtMost(y, 1)
    BY <1>8, OptionalAtMost
  <2>2. r2 = x \o (y \o r1)
    BY DEF ColorBytes
  <2> HIDE DEF x, y, r1
  <2>3. AtMost(y \o r1, 1 + 8)
    BY <1>6, <2>1, AtMostBoth DEF r1
  <2>4. AtMost(x \o (y \o r1), 1 + (1 + 8))
    BY <2>1, <2>3, AtMostBoth
  <2>5. 1 + (1 + 8) = 10
    OBVIOUS
  <2> QED
    BY <2>2, <2>4, <2>5
<1>13. AtMost(r3, 20)
  <2> DEFINE x == OptionalBytes(c, TcgplayerId, WriteVarSizeUint32(c.tcgplayerId))
             y == OptionalBytes(c, CardmarketId, WriteVarSizeUint32(c.cardmarketId))
  <2>1. AtMost(x, 5) /\ AtMost(y, 5)
    BY <1>8, OptionalAtMost
  <2>2. r3 = x \o (y \o r2)
    BY DEF IdBytes
  <2> HIDE DEF x, y, r2
  <2>3. AtMost(y \o r2, 5 + 10)
    BY <1>12, <2>1, AtMostBoth
  <2>4. AtMost(x \o (y \o r2), 5 + (5 + 10))
    BY <2>1, <2>3, AtMostBoth
  <2>5. 5 + (5 + 10) = 20
    OBVIOUS
  <2> QED
    BY <2>2, <2>4, <2>5
<1>14. AtMost(r4, 24)
  <2> DEFINE x == WriteUint32(c.flags)
  <2>1. r4 = x \o r3
    BY DEF FlagBytes
  <2> HIDE DEF x, r3
  <2>2. AtMost(x \o r3, 4 + 20)
    BY <1>7, <1>13, AtMostBoth DEF x
  <2>3. 4 + 20 = 24
    OBVIOUS
  <2> QED
    BY <2>1, <2>2, <2>3
<1>15. AtMost(r5, 5 + (10 * N + 24))
  <2> DEFINE x == WriteVarSizeUint32(Bits(Cardinality(Used(c))))
             y == FlattenSeq(WriteOffsets(c))
             t == 10 * N
  <2>1. r5 = x \o (y \o r4)
    BY DEF StringBytes
  <2> HIDE DEF x, y, r4, t
  <2>2. AtMost(y, t)
    BY <1>11 DEF t, y
  <2>3. AtMost(y \o r4, t + 24)
    BY <1>14, <2>2, AtMostBoth
  <2>4. AtMost(x, 5)
    BY <1>8 DEF x
  <2>5. AtMost(x \o (y \o r4), 5 + (t + 24))
    BY <2>3, <2>4, AtMostBoth
  <2> QED
    BY <2>1, <2>5 DEF t
<1>16. AtMost(r6, 5 + (L + (5 + (10 * N + 24))))
  <2> DEFINE x == WriteVarSizeUint32(Bits(L))
             y == c.data
             t == 5 + (10 * N + 24)
  <2>1. r6 = x \o (y \o r5)
    BY DEF DataBytes, L
  <2> HIDE DEF x, y, r5, t
  <2>2. AtMost(y, L)
    BY <1>10 DEF y
  <2>3. AtMost(y \o r5, L + t)
    BY <1>15, <2>2, AtMostBoth DEF t
  <2>4. AtMost(x, 5)
    BY <1>8 DEF x
  <2>5. AtMost(x \o (y \o r5), 5 + (L + t))
    BY <2>3, <2>4, AtMostBoth
  <2> QED
    BY <2>1, <2>5 DEF t
<1>17. AtMost(r7, 5 + (5 + (5 + (L + (5 + (10 * N + 24))))))
  <2> DEFINE x == WriteVarSizeUint32(c.number)
             y == WriteString(c.set)
             t == 5 + (L + (5 + (10 * N + 24)))
  <2>1. r7 = x \o (y \o r6)
    BY DEF HeadBytes
  <2> HIDE DEF x, y, r6, t
  <2>2. AtMost(y, 5)
    BY <1>9 DEF y
  <2>3. AtMost(y \o r6, 5 + t)
    BY <1>16, <2>2, AtMostBoth DEF t
  <2>4. AtMost(x, 5)
    BY <1>8 DEF x
  <2>5. AtMost(x \o (y \o r6), 5 + (5 + t))
    BY <2>3, <2>4, AtMostBoth
  <2> QED
    BY <2>1, <2>5 DEF t
<1>18. Serialized(c) = r7
  BY <1>1, RecordOfCard
<1> HIDE DEF r7
<1>19. Serialized(c) \in Bytes /\ Len(Serialized(c)) < 2^24
  <2> DEFINE k == Len(r7)
             m == 5 + (5 + (5 + (L + (5 + (10 * N + 24)))))
  <2>1. k \in Nat /\ m \in Nat /\ k <= m /\ r7 \in Bytes
    BY <1>17 DEF AtMost
  <2>2. m < 2^24
    BY <1>1, <1>2, RecordSums
  <2> HIDE DEF k, m
  <2>3. k < 2^24
    BY <1>3, <2>1, <2>2
  <2> QED
    BY <1>18, <2>1, <2>3 DEF k
<1> QED
  BY <1>4, <1>19 DEF N, L

-----------------------------------------------------------------------------
(* The life of a card: the inductive invariant. *)

LEMMA NoCardIsNone == \A c \in CardFields : c # NoCard
<1>1. \A c \in CardFields : "set" \in DOMAIN c
  BY DEF CardFields
<1>2. "set" \notin DOMAIN NoCard
  BY DEF NoCard
<1> QED
  BY <1>1, <1>2

\* The record of a card that was made smaller is read back.
LEMMA GoodLoads ==
  ASSUME NEW c, NEW passed, NEW limit \in Nat, Good(c, passed, limit), Shrunk(c), TextsFit(limit)
  PROVE  /\ Serialized(c) \in Bytes /\ Len(Serialized(c)) < 2^24
         /\ ReadBuffer(WriteBuffer(Serialized(c))) = Took(Serialized(c), <<>>)
         /\ \E w : Deserialize(Serialized(c)) = Reading(Loaded(c), w, <<>>)
<1>1. Storable(c) /\ Len(c.data) <= ShrunkSize(limit)
  BY GoodIsStorable DEF Good
<1>2. /\ Serialized(c) \in Bytes /\ Len(Serialized(c)) < 2^24
      /\ Len(StringEntries) < 2^31 /\ Len(c.data) < 2^31
  BY <1>1, RecordFits
<1>3. ReadBuffer(WriteBuffer(Serialized(c))) = Took(Serialized(c), <<>>)
  BY <1>2, FrameIsRead
<1>4. \E w : Deserialize(Serialized(c)) = Reading(Loaded(c), w, <<>>)
  BY <1>1, <1>2, RecordIsRead
<1> QED
  BY <1>2, <1>3, <1>4

LEMMA FramesAreBytes ==
  ASSUME NEW bytes \in Bytes
  PROVE  WriteBuffer(bytes) \in Seq(Byte) /\ WriteBuffer(bytes) # <<>>
<1> DEFINE s == SizeBytes(Bits(Len(bytes)))
<1>1. Len(bytes) \in Nat
  BY LenProperties DEF Bytes
<1>2. s \in Bytes /\ Len(s) = 4
  BY <1>1, FrameLength
<1>3. WriteBuffer(bytes) = s \o bytes
  BY DEF WriteBuffer
<1> HIDE DEF s
<1>4. s \o bytes \in Seq(Byte) /\ Len(s \o bytes) = 4 + Len(bytes)
  <2>1. s \in Seq(Byte) /\ bytes \in Seq(Byte)
    BY <1>2 DEF Bytes
  <2>2. s \o bytes \in Seq(Byte) /\ Len(s \o bytes) = Len(s) + Len(bytes)
    BY <2>1, ConcatProperties
  <2> QED
    BY <1>2, <2>2
<1>5. Len(s \o bytes) # 0
  BY <1>1, <1>4
<1>6. Len(<<>>) = 0
  OBVIOUS
<1> QED
  BY <1>3, <1>4, <1>5, <1>6

\* What the saved file holds: the record of a card that was made smaller, with
\* the strings that have passed.
Saved(bytes, passed, limit) ==
  \E c : Good(c, passed, limit) /\ Shrunk(c) /\ bytes = WriteBuffer(Serialized(c))

CardInv(limit) ==
  /\ filter \subseteq StringIndex
  /\ origin.response \in Responses /\ origin.now \in Word64
  /\ kept \in [card: SUBSET StringIndex, file: SUBSET StringIndex]
  /\ \A c, passed : card = c /\ kept.card = passed /\ c # NoCard => Good(c, passed, limit)
  /\ \A bytes, passed : file = bytes /\ kept.file = passed /\ bytes # <<>>
       => Saved(bytes, passed, limit)
  /\ card # NoCard \/ file # <<>> => returned = "OK"
  /\ ObjectFirst => NotFoundSaid

LEMMA SaidStays ==
  ASSUME UNCHANGED origin
  PROVE  /\ \A object, key : (Said(object, key))' = Said(object, key)
         /\ \A object, key : (LastSaid(object, key))' = LastSaid(object, key)
         /\ \A key, default : (SaidOr(key, default))' = SaidOr(key, default)
         /\ \A key, flag : (SaidFlag(key, flag))' = SaidFlag(key, flag)
         /\ \A key : (AllSaid(key))' = AllSaid(key) /\ (SaidColors(key))' = SaidColors(key)
         /\ \A i : (SaidString(i))' = SaidString(i)
         /\ SaidFlags' = SaidFlags /\ Response' = Response
<1>1. Response' = Response
  BY DEF Response
<1>2. \A object, key : (Said(object, key))' = Said(object, key)
  BY <1>1 DEF Said
<1>3. \A object, key : (LastSaid(object, key))' = LastSaid(object, key)
  BY <1>1, <1>2 DEF LastSaid
<1>4. \A key, default : (SaidOr(key, default))' = SaidOr(key, default)
  BY <1>2, <1>3 DEF SaidOr
<1>5. \A key, flag : (SaidFlag(key, flag))' = SaidFlag(key, flag)
  BY <1>2 DEF SaidFlag
<1>6. \A i : (SaidString(i))' = SaidString(i)
  BY <1>2, <1>3 DEF SaidString
<1>7. \A key : (AllSaid(key))' = AllSaid(key)
  BY <1>1, <1>2 DEF AllSaid
<1>8. \A key : (SaidColors(key))' = SaidColors(key)
  BY <1>7 DEF SaidColors
<1>9. SaidFlags' = SaidFlags
  BY <1>5, <1>7 DEF SaidFlags
<1> QED
  BY <1>1, <1>2, <1>3, <1>4, <1>5, <1>6, <1>7, <1>8, <1>9

LEMMA GoodStays ==
  ASSUME UNCHANGED origin
  PROVE  /\ \A c, passed, limit : Good(c, passed, limit)' <=> Good(c, passed, limit)
         /\ \A bytes, passed, limit : Saved(bytes, passed, limit)' <=> Saved(bytes, passed, limit)
<1>1. \A c : FieldsSaid(c)' <=> FieldsSaid(c)
  BY SaidStays DEF FieldsSaid
<1>2. \A c, passed : StringsSaid(c, passed)' <=> StringsSaid(c, passed)
  BY SaidStays DEF StringsSaid
<1>3. \A c, passed, limit : Good(c, passed, limit)' <=> Good(c, passed, limit)
  BY <1>1, <1>2 DEF Good
<1>4. \A bytes, passed, limit : Saved(bytes, passed, limit)' <=> Saved(bytes, passed, limit)
  BY <1>3 DEF Saved
<1> QED
  BY <1>3, <1>4

LEMMA CardInvBegins ==
  ASSUME NEW limit, Init
  PROVE  CardInv(limit)
<1>1. /\ filter = StringIndex /\ card = NoCard /\ file = <<>> /\ returned = "none"
      /\ origin \in [response: Responses, now: Times]
      /\ kept = [card |-> {}, file |-> {}]
  BY DEF Init
<1>2. origin.response \in Responses /\ origin.now \in Word64
  BY <1>1, TimesAssumption
<1>3. NotFoundSaid
  BY <1>1 DEF NotFoundSaid
<1> QED
  BY <1>1, <1>2, <1>3 DEF CardInv

\* "Not found" is what the parse gives for an error, and nothing else is.
LEMMA ParseSaysNotFound ==
  ASSUME ObjectFirst, origin.response \in Responses
  PROVE  ParseJson(origin.response, origin.now).code = "NOT_FOUND" <=>
           Response.shape = "object" /\ SaidOr("object", "none") = "error"
<1> DEFINE r == origin.response
           now == origin.now
           p == ParseValues(r, now)
           j == ParseJson(r, now)
<1>1. r.shape \in {"empty", "not_object", "unparsable", "object"}
  BY ResponsesAssumption
<1>2. j = CASE r.shape \in {"empty", "not_object"} -> Ends("JSON_RESPONSE_ERROR")
            [] r.shape = "unparsable"              -> Ends("JSON_PARSE_ERROR")
            [] r.shape = "object" -> IF p.code = "OK" THEN Complete(p.card) ELSE p
  BY DEF ParseJson
<1>3. p.code = "NOT_FOUND" <=> SaidOr("object", "none") = "error"
  BY ParseNotFound, ErrorSaid
<1>4. Response = r
  BY DEF Response
<1> HIDE DEF r, now, p, j
<1>5. CASE r.shape # "object"
  <2>1. j = Ends("JSON_RESPONSE_ERROR") \/ j = Ends("JSON_PARSE_ERROR")
    BY <1>1, <1>2, <1>5
  <2>2. j.code # "NOT_FOUND"
    BY <2>1 DEF Ends
  <2> QED
    BY <1>4, <1>5, <2>2 DEF j, r, now
<1>6. CASE r.shape = "object"
  <2>1. j = IF p.code = "OK" THEN Complete(p.card) ELSE p
    BY <1>2, <1>6
  <2>2. Complete(p.card).code # "NOT_FOUND"
    BY DEF Complete, Ends, With
  <2>3. j.code = "NOT_FOUND" <=> p.code = "NOT_FOUND"
    BY <2>1, <2>2
  <2> QED
    BY <1>3, <1>4, <1>6, <2>3 DEF j, r, now
<1> QED
  BY <1>5, <1>6

LEMMA ParseKeepsCardInv ==
  ASSUME NEW limit \in Nat, TextsFit(limit), CardInv(limit), Parse
  PROVE  CardInv(limit)'
<1> DEFINE j == ParseJson(origin.response, origin.now)
<1>1. /\ returned = "none" /\ returned' = j.code
      /\ card' = IF j.code = "OK" THEN j.card ELSE NoCard
      /\ kept' = [kept EXCEPT !.card = filter]
      /\ filter' = filter /\ file' = file /\ origin' = origin
  BY DEF Parse
<1>2. /\ filter \subseteq StringIndex /\ origin.response \in Responses /\ origin.now \in Word64
      /\ kept \in [card: SUBSET StringIndex, file: SUBSET StringIndex]
      /\ (card # NoCard \/ file # <<>> => returned = "OK")
  BY DEF CardInv
<1>3. file = <<>>
  BY <1>1, <1>2
<1>4. j.code = "OK" => Good(j.card, filter, limit)
  BY <1>2, ParsedIsGood
<1>5. ObjectFirst =>
        (j.code = "NOT_FOUND" <=> Response.shape = "object" /\ SaidOr("object", "none") = "error")
  BY <1>2, ParseSaysNotFound
<1> HIDE DEF j
<1>6. kept'.card = filter /\ kept'.file = kept.file
      /\ kept' \in [card: SUBSET StringIndex, file: SUBSET StringIndex]
  BY <1>1, <1>2
<1>7. \A c, passed : card' = c /\ kept'.card = passed /\ c # NoCard => Good(c, passed, limit)'
  BY <1>1, <1>4, <1>6, GoodStays
<1>8. ObjectFirst => NotFoundSaid'
  <2>1. SaidOr("object", "none")' = SaidOr("object", "none") /\ Response' = Response
    BY <1>1, SaidStays
  <2> QED
    BY <1>1, <1>5, <2>1 DEF NotFoundSaid
<1>9. card' # NoCard \/ file' # <<>> => returned' = "OK"
  BY <1>1, <1>3
<1> QED
  BY <1>1, <1>2, <1>3, <1>6, <1>7, <1>8, <1>9 DEF CardInv

LEMMA SaveKeepsCardInv ==
  ASSUME NEW limit \in Nat, TextsFit(limit), CardInv(limit), Save
  PROVE  CardInv(limit)'
<1>1. /\ card # NoCard /\ card' = Shrink(card)
      /\ file' = WriteBuffer(Serialized(Shrink(card)))
      /\ kept' = [kept EXCEPT !.file = kept.card]
      /\ filter' = filter /\ returned' = returned /\ origin' = origin
  BY DEF Save
<1>2. /\ filter \subseteq StringIndex /\ origin.response \in Responses /\ origin.now \in Word64
      /\ kept \in [card: SUBSET StringIndex, file: SUBSET StringIndex]
      /\ (card # NoCard \/ file # <<>> => returned = "OK") /\ (ObjectFirst => NotFoundSaid)
      /\ Good(card, kept.card, limit)
  BY <1>1 DEF CardInv
<1>3. Good(Shrink(card), kept.card, limit) /\ Shrunk(Shrink(card))
  BY <1>2, ShrinkIsGood
<1>4. kept'.card = kept.card /\ kept'.file = kept.card
      /\ kept' \in [card: SUBSET StringIndex, file: SUBSET StringIndex]
  BY <1>1, <1>2
<1>5. \A c, passed : card' = c /\ kept'.card = passed /\ c # NoCard => Good(c, passed, limit)'
  BY <1>1, <1>3, <1>4, GoodStays
<1>6. Saved(file', kept.card, limit)
  BY <1>1, <1>3 DEF Saved
<1>7. \A bytes, passed : file' = bytes /\ kept'.file = passed /\ bytes # <<>> =>
        Saved(bytes, passed, limit)'
  BY <1>1, <1>4, <1>6, GoodStays
<1>8. ObjectFirst => NotFoundSaid'
  <2>1. SaidOr("object", "none")' = SaidOr("object", "none") /\ Response' = Response
    BY <1>1, SaidStays
  <2> QED
    BY <1>1, <1>2, <2>1 DEF NotFoundSaid
<1> QED
  BY <1>1, <1>2, <1>4, <1>5, <1>7, <1>8 DEF CardInv

LEMMA LoadGives ==
  ASSUME NEW limit \in Nat, TextsFit(limit), CardInv(limit), Load
  PROVE  /\ returned' = "OK" /\ Good(card', kept.file \cap filter, limit)
         /\ Shrunk(card)'
<1>1. file # <<>> /\ Saved(file, kept.file, limit)
  BY DEF CardInv, Load
<1>2. PICK c : Good(c, kept.file, limit) /\ Shrunk(c) /\ file = WriteBuffer(Serialized(c))
  BY <1>1 DEF Saved
<1> DEFINE b == Serialized(c)
           record == ReadBuffer(file)
           loaded == Deserialize(record.value)
<1>3. record = Took(b, <<>>) /\ \E w : Deserialize(b) = Reading(Loaded(c), w, <<>>)
  BY <1>2, GoodLoads
<1>4. PICK w : Deserialize(b) = Reading(Loaded(c), w, <<>>)
  BY <1>3
<1>5. record.code = "OK" /\ record.value = b
  BY <1>3 DEF Took
<1>6. loaded.code = "OK" /\ loaded.card = Loaded(c)
  BY <1>4, <1>5 DEF Reading
<1>7. /\ returned' = IF record.code = "OK" THEN loaded.code ELSE record.code
      /\ card' = IF returned' = "OK" THEN loaded.card ELSE NoCard
  BY DEF Load
<1>8. returned' = "OK" /\ card' = Loaded(c)
  BY <1>5, <1>6, <1>7
<1>9. Good(Loaded(c), kept.file \cap filter, limit)
  BY <1>2, LoadedIsGood
<1>10. Shrunk(Loaded(c))
  <2>1. c \in CardFields
    BY <1>2 DEF Good
  <2>2. Loaded(c).flags = c.flags
    BY <2>1 DEF Loaded, WithStrings, CardFields
  <2> QED
    BY <1>2, <2>2 DEF Shrunk
<1>11. Shrunk(card)'
  BY <1>8, <1>10 DEF Shrunk
<1> QED
  BY <1>8, <1>9, <1>11

LEMMA LoadKeepsCardInv ==
  ASSUME NEW limit \in Nat, TextsFit(limit), CardInv(limit), Load
  PROVE  CardInv(limit)'
<1>1. /\ file # <<>> /\ kept' = [kept EXCEPT !.card = kept.file \cap filter]
      /\ filter' = filter /\ file' = file /\ origin' = origin
  BY DEF Load
<1>2. /\ filter \subseteq StringIndex /\ origin.response \in Responses /\ origin.now \in Word64
      /\ kept \in [card: SUBSET StringIndex, file: SUBSET StringIndex]
      /\ returned = "OK" /\ (ObjectFirst => NotFoundSaid) /\ Saved(file, kept.file, limit)
  BY <1>1 DEF CardInv
<1>3. returned' = "OK" /\ Good(card', kept.file \cap filter, limit)
  BY LoadGives
<1>4. kept'.card = kept.file \cap filter /\ kept'.file = kept.file
      /\ kept' \in [card: SUBSET StringIndex, file: SUBSET StringIndex]
  BY <1>1, <1>2
<1>5. \A c, passed : card' = c /\ kept'.card = passed /\ c # NoCard => Good(c, passed, limit)'
  BY <1>1, <1>3, <1>4, GoodStays
<1>6. \A bytes, passed : file' = bytes /\ kept'.file = passed /\ bytes # <<>> =>
        Saved(bytes, passed, limit)'
  BY <1>1, <1>2, <1>4, GoodStays
<1>7. ObjectFirst => NotFoundSaid'
  <2>1. SaidOr("object", "none")' = SaidOr("object", "none") /\ Response' = Response
    BY <1>1, SaidStays
  <2> QED
    BY <1>2, <1>3, <2>1 DEF NotFoundSaid
<1> QED
  BY <1>1, <1>2, <1>3, <1>4, <1>5, <1>6, <1>7 DEF CardInv

LEMMA RestKeepsCardInv ==
  ASSUME NEW limit, CardInv(limit),
         (\E f \in Filters : SetFilter(f)) \/ Forget \/ UNCHANGED vars
  PROVE  CardInv(limit)'
<1>1. /\ file' = file /\ returned' = returned /\ origin' = origin /\ kept' = kept
      /\ card' \in {card, NoCard} /\ filter' \in Filters \cup {filter}
  BY DEF SetFilter, Forget, vars
<1>2. /\ filter \subseteq StringIndex /\ origin.response \in Responses /\ origin.now \in Word64
      /\ kept \in [card: SUBSET StringIndex, file: SUBSET StringIndex]
      /\ (card # NoCard \/ file # <<>> => returned = "OK") /\ (ObjectFirst => NotFoundSaid)
      /\ \A c, passed : card = c /\ kept.card = passed /\ c # NoCard => Good(c, passed, limit)
      /\ \A bytes, passed : file = bytes /\ kept.file = passed /\ bytes # <<>> =>
           Saved(bytes, passed, limit)
  BY DEF CardInv
<1>3. filter' \subseteq StringIndex
  BY <1>1, <1>2, FiltersAssumption
<1>4. \A c, passed : card' = c /\ kept'.card = passed /\ c # NoCard => Good(c, passed, limit)'
  BY <1>1, <1>2, GoodStays
<1>5. \A bytes, passed : file' = bytes /\ kept'.file = passed /\ bytes # <<>> =>
        Saved(bytes, passed, limit)'
  BY <1>1, <1>2, GoodStays
<1>6. ObjectFirst => NotFoundSaid'
  <2>1. SaidOr("object", "none")' = SaidOr("object", "none") /\ Response' = Response
    BY <1>1, SaidStays
  <2> QED
    BY <1>1, <1>2, <2>1 DEF NotFoundSaid
<1> QED
  BY <1>1, <1>2, <1>3, <1>4, <1>5, <1>6 DEF CardInv

LEMMA CardInvHolds ==
  ASSUME NEW CONSTANT limit \in Nat, TextsFit(limit)
  PROVE  Spec => []CardInv(limit)
<1>1. Init => CardInv(limit)
  BY CardInvBegins
<1>2. CardInv(limit) /\ [Next]_vars => CardInv(limit)'
  BY ParseKeepsCardInv, SaveKeepsCardInv, LoadKeepsCardInv, RestKeepsCardInv DEF Next
<1> QED
  BY <1>1, <1>2, PTL DEF Spec

-----------------------------------------------------------------------------
(* What follows from the invariant. *)

LEMMA InvGivesTypeOK ==
  ASSUME NEW limit \in Nat, TextsFit(limit), CardInv(limit)
  PROVE  TypeOK
<1>1. /\ filter \subseteq StringIndex
      /\ kept \in [card: SUBSET StringIndex, file: SUBSET StringIndex]
      /\ (card # NoCard => Good(card, kept.card, limit))
      /\ (file # <<>> => Saved(file, kept.file, limit))
  BY DEF CardInv
<1>2. card # NoCard => \A i \in Used(card) :
        \E k \in DOMAIN card.data : k > card.offsets[i] /\ card.data[k] = NUL
  BY <1>1, GoodStrings
<1>3. card \in CardFields \cup {NoCard}
  BY <1>1 DEF Good
<1>4. file \in Seq(Byte)
  <2>1. CASE file = <<>>
    BY <2>1
  <2>2. CASE file # <<>>
    <3>1. PICK c : Good(c, kept.file, limit) /\ Shrunk(c) /\ file = WriteBuffer(Serialized(c))
      BY <1>1, <2>2 DEF Saved
    <3>2. Serialized(c) \in Bytes
      BY <3>1, GoodLoads
    <3> QED
      BY <3>1, <3>2, FramesAreBytes
  <2> QED
    BY <2>1, <2>2
<1> QED
  BY <1>1, <1>2, <1>3, <1>4 DEF TypeOK

LEMMA InvGivesStrings ==
  ASSUME NEW limit \in Nat, TextsFit(limit), CardInv(limit)
  PROVE  StringsRight
<1>1. card # NoCard => Good(card, kept.card, limit)
  BY DEF CardInv
<1>2. card # NoCard => \A i \in StringIndex :
        GetString(card, i) = IF i \in kept.card THEN SaidString(i) ELSE <<>>
  BY <1>1, GoodStrings
<1> QED
  BY <1>2 DEF StringsRight

LEMMA InvGivesFields ==
  ASSUME NEW limit \in Nat, TextsFit(limit), CardInv(limit)
  PROVE  CardRight
<1>1. card # NoCard => Good(card, kept.card, limit)
  BY DEF CardInv
<1>2. card # NoCard => FieldsSaid(card)
  BY <1>1 DEF Good
<1> QED
  BY <1>2 DEF CardRight, FieldsSaid, SaidFlags, Root

LEMMA InvGivesNumber ==
  ASSUME NEW limit \in Nat, TextsFit(limit), CardInv(limit)
  PROVE  NumberKept
<1> DEFINE text == LastSaid("", "collector_number").value
<1> SUFFICES ASSUME card # NoCard, Fits(text)
             PROVE  NumberToString(card.number) = [code |-> "OK", text |-> AsPrinted(text)]
  BY DEF NumberKept
<1>1. Good(card, kept.card, limit)
  BY DEF CardInv
<1>2. card.number = Pack(text) /\ text \in Text
  BY <1>1 DEF Good, FieldsSaid, Root
<1> HIDE DEF text
<1>3. NumberToString(Pack(text)) = [code |-> "OK", text |-> AsPrinted(text)]
  BY <1>2, FittingPrintsBack
<1> QED
  BY <1>2, <1>3

\* However long the texts are, as long as all of them stay below the 16 MiB of a
\* record, every variable has its type and each string of the card ends inside
\* its data, through parses, saves and loads under any filters.
THEOREM CardTypes ==
  ASSUME NEW CONSTANT limit \in Nat, TextsFit(limit)
  PROVE  Spec => []TypeOK
<1>1. CardInv(limit) => TypeOK
  BY InvGivesTypeOK
<1>2. Spec => []CardInv(limit)
  BY CardInvHolds
<1> QED
  BY <1>1, <1>2, PTL

\* Each string that every filter has let pass reads as in the response, and the
\* others as empty, wherever the data have been moved to (sfc_card.c:236, 580,
\* 686).
THEOREM StringsStayRight ==
  ASSUME NEW CONSTANT limit \in Nat, TextsFit(limit)
  PROVE  Spec => []StringsRight
<1>1. CardInv(limit) => StringsRight
  BY InvGivesStrings
<1>2. Spec => []CardInv(limit)
  BY CardInvHolds
<1> QED
  BY <1>1, <1>2, PTL

\* The fields of a card are what the response says, after any number of saves
\* and loads (sfc_card.c:304, 550).
THEOREM CardStaysRight ==
  ASSUME NEW CONSTANT limit \in Nat, TextsFit(limit)
  PROVE  Spec => []CardRight
<1>1. CardInv(limit) => CardRight
  BY InvGivesFields
<1>2. Spec => []CardInv(limit)
  BY CardInvHolds
<1> QED
  BY <1>1, <1>2, PTL

\* A card that was parsed and saved loads back: its record is read from the file
\* and to its end, wherever the buffers have grown (sfc_buffer.c:50).
THEOREM SavedLoadsBack ==
  ASSUME NEW CONSTANT limit \in Nat, TextsFit(limit)
  PROVE  Spec => []LoadsBack
<1>1. CardInv(limit) => LoadsBack
  BY DEF CardInv, LoadsBack
<1>2. Spec => []CardInv(limit)
  BY CardInvHolds
<1> QED
  BY <1>1, <1>2, PTL

\* A collector number that fits its fields prints back as the text it was read
\* from, but for the zeros in front of it, of a card that was loaded too
\* (sfc_collector_number.c:86, 140).
THEOREM NumberStays ==
  ASSUME NEW CONSTANT limit \in Nat, TextsFit(limit)
  PROVE  Spec => []NumberKept
<1>1. CardInv(limit) => NumberKept
  BY InvGivesNumber
<1>2. Spec => []CardInv(limit)
  BY CardInvHolds
<1> QED
  BY <1>1, <1>2, PTL

\* "Not found" comes of a response that says error, and of nothing else that may
\* be wrong with a response or with a file (sfc_card.c:446, sfc_query.c:343).
THEOREM NotFoundIsSaid ==
  ASSUME NEW CONSTANT limit \in Nat, TextsFit(limit), ObjectFirst
  PROVE  Spec => []NotFoundSaid
<1>1. CardInv(limit) => NotFoundSaid
  BY DEF CardInv
<1>2. Spec => []CardInv(limit)
  BY CardInvHolds
<1> QED
  BY <1>1, <1>2, PTL

-----------------------------------------------------------------------------
(* Records that were cut: a reader that finds what it reads finds the same   *)
(* when more bytes follow.                                                   *)

\* A reader that has taken something from its bytes takes the same from them
\* when more bytes follow, and leaves those; a reader that has failed may do
\* anything.
TakesMore(t, u, q) ==
  t.code = "OK" => t.rest \in Bytes /\ u = Took(t.value, t.rest \o q)

More(r, s, q) ==
  r.code = "OK" =>
    /\ r = Reading(r.card, r.value, r.rest) /\ r.rest \in Bytes
    /\ s = Reading(r.card, r.value, r.rest \o q)

\* One read with what it takes and the card it gives.
StepOn(r, t, d) ==
  IF r.code # "OK" THEN r
  ELSE IF t.code # "OK" THEN t
  ELSE Reading(d, t.value, t.rest)

LEMMA TakesMoreOfMore ==
  ASSUME NEW b \in Bytes, NEW q \in Bytes
  PROVE  /\ TakesMore(TakeVarSizeUint32(b), TakeVarSizeUint32(b \o q), q)
         /\ TakesMore(TakeUint8(b), TakeUint8(b \o q), q)
         /\ TakesMore(TakeUint32(b), TakeUint32(b \o q), q)
         /\ TakesMore(TakeUint64(b), TakeUint64(b \o q), q)
         /\ TakesMore(TakeString(b, MaxSet), TakeString(b \o q, MaxSet), q)
         /\ \A n \in Nat : TakesMore(TakeBuffer(b, n), TakeBuffer(b \o q, n), q)
<1>1. TakesMore(TakeVarSizeUint32(b), TakeVarSizeUint32(b \o q), q)
  BY VarSizeOfMore DEF TakesMore
<1>2. \A n \in 0..8 : TakesMore(TakeWord(b, n), TakeWord(b \o q, n), q)
  BY WordOfMore DEF TakesMore
<1>3. 1 \in 0..8 /\ 4 \in 0..8 /\ 8 \in 0..8
  OBVIOUS
<1>4. MaxSet \in Nat
  BY DEF MaxSet
<1>5. TakesMore(TakeString(b, MaxSet), TakeString(b \o q, MaxSet), q)
  BY <1>4, StringOfMore DEF TakesMore
<1>6. \A n \in Nat : TakesMore(TakeBuffer(b, n), TakeBuffer(b \o q, n), q)
  BY BufferOfMore DEF TakesMore
<1> QED
  BY <1>1, <1>2, <1>3, <1>5, <1>6 DEF TakeUint8, TakeUint32, TakeUint64

LEMMA StepOfMore ==
  ASSUME NEW r, NEW s, NEW t, NEW u, NEW d, NEW e, NEW q,
         r.code = "OK" => /\ s.code = "OK" /\ TakesMore(t, u, q)
                          /\ t.code = "OK" => e = d
  PROVE  More(StepOn(r, t, d), StepOn(s, u, e), q)
<1>1. CASE r.code # "OK"
  <2>1. StepOn(r, t, d) = r
    BY <1>1 DEF StepOn
  <2> QED
    BY <1>1, <2>1 DEF More
<1>2. CASE r.code = "OK" /\ t.code # "OK"
  <2>1. StepOn(r, t, d) = t
    BY <1>2 DEF StepOn
  <2> QED
    BY <1>2, <2>1 DEF More
<1>3. CASE r.code = "OK" /\ t.code = "OK"
  <2>1. StepOn(r, t, d) = Reading(d, t.value, t.rest)
    BY <1>3 DEF StepOn
  <2>2. t.rest \in Bytes /\ u = Took(t.value, t.rest \o q)
    BY <1>3 DEF TakesMore
  <2>3. u.code = "OK" /\ u.value = t.value /\ u.rest = t.rest \o q
    BY <2>2 DEF Took
  <2>4. StepOn(s, u, e) = Reading(d, t.value, t.rest \o q)
    BY <1>3, <2>3 DEF StepOn
  <2> DEFINE x == StepOn(r, t, d)
  <2>5. x.card = d /\ x.value = t.value /\ x.rest = t.rest
    BY <2>1 DEF Reading
  <2> HIDE DEF x
  <2>6. x = Reading(x.card, x.value, x.rest) /\ x.rest \in Bytes
    BY <2>1, <2>2, <2>5 DEF x
  <2>7. StepOn(s, u, e) = Reading(x.card, x.value, x.rest \o q)
    BY <2>4, <2>5
  <2> QED
    BY <2>6, <2>7 DEF More, x
<1> QED
  BY <1>1, <1>2, <1>3

LEMMA NumberOfMore ==
  ASSUME NEW r, NEW s, NEW q \in Bytes, More(r, s, q)
  PROVE  More(ReadNumber(r), ReadNumber(s), q)
<1> DEFINE t == TakeVarSizeUint32(r.rest)
           u == TakeVarSizeUint32(s.rest)
           d == [r.card EXCEPT !.number = t.value]
           e == [s.card EXCEPT !.number = u.value]
<1>1. ReadNumber(r) = StepOn(r, t, d) /\ ReadNumber(s) = StepOn(s, u, e)
  BY DEF ReadNumber, Read, StepOn, Reading
<1>2. ASSUME r.code = "OK"
      PROVE  /\ s.code = "OK" /\ TakesMore(t, u, q)
             /\ t.code = "OK" => e = d
  <2>1. /\ s = Reading(r.card, r.value, r.rest \o q) /\ r.rest \in Bytes
    BY <1>2 DEF More
  <2>2. s.code = "OK" /\ s.card = r.card /\ s.rest = r.rest \o q
    BY <2>1 DEF Reading
  <2>3. TakesMore(t, u, q)
    BY <2>1, <2>2, TakesMoreOfMore
  <2>4. t.code = "OK" => u.value = t.value
    BY <2>3 DEF TakesMore, Took
  <2> HIDE DEF t, u
  <2> QED
    BY <2>2, <2>3, <2>4
<1> HIDE DEF t, u, d, e
<1>3. More(StepOn(r, t, d), StepOn(s, u, e), q)
  BY <1>2, StepOfMore
<1> QED
  BY <1>1, <1>3

LEMMA UintOfMore ==
  ASSUME NEW r, NEW s, NEW q \in Bytes, More(r, s, q)
  PROVE  More(ReadUint32(r), ReadUint32(s), q)
<1> DEFINE t == TakeVarSizeUint32(r.rest)
           u == TakeVarSizeUint32(s.rest)
           d == r.card
           e == s.card
<1>1. ReadUint32(r) = StepOn(r, t, d) /\ ReadUint32(s) = StepOn(s, u, e)
  BY DEF ReadUint32, Read, StepOn, Reading, Look
<1>2. ASSUME r.code = "OK"
      PROVE  /\ s.code = "OK" /\ TakesMore(t, u, q)
             /\ t.code = "OK" => e = d
  <2>1. /\ s = Reading(r.card, r.value, r.rest \o q) /\ r.rest \in Bytes
    BY <1>2 DEF More
  <2>2. s.code = "OK" /\ s.card = r.card /\ s.rest = r.rest \o q
    BY <2>1 DEF Reading
  <2>3. TakesMore(t, u, q)
    BY <2>1, <2>2, TakesMoreOfMore
  <2>4. t.code = "OK" => u.value = t.value
    BY <2>3 DEF TakesMore, Took
  <2> HIDE DEF t, u
  <2> QED
    BY <2>2, <2>3, <2>4
<1> HIDE DEF t, u, d, e
<1>3. More(StepOn(r, t, d), StepOn(s, u, e), q)
  BY <1>2, StepOfMore
<1> QED
  BY <1>1, <1>3

LEMMA SetOfMore ==
  ASSUME NEW r, NEW s, NEW q \in Bytes, More(r, s, q)
  PROVE  More(ReadSet(r), ReadSet(s), q)
<1> DEFINE t == TakeString(r.rest, MaxSet)
           u == TakeString(s.rest, MaxSet)
           d == [r.card EXCEPT !.set = t.value]
           e == [s.card EXCEPT !.set = u.value]
<1>1. ReadSet(r) = StepOn(r, t, d) /\ ReadSet(s) = StepOn(s, u, e)
  BY DEF ReadSet, Read, StepOn, Reading
<1>2. ASSUME r.code = "OK"
      PROVE  /\ s.code = "OK" /\ TakesMore(t, u, q)
             /\ t.code = "OK" => e = d
  <2>1. /\ s = Reading(r.card, r.value, r.rest \o q) /\ r.rest \in Bytes
    BY <1>2 DEF More
  <2>2. s.code = "OK" /\ s.card = r.card /\ s.rest = r.rest \o q
    BY <2>1 DEF Reading
  <2>3. TakesMore(t, u, q)
    BY <2>1, <2>2, TakesMoreOfMore
  <2>4. t.code = "OK" => u.value = t.value
    BY <2>3 DEF TakesMore, Took
  <2> HIDE DEF t, u
  <2> QED
    BY <2>2, <2>3, <2>4
<1> HIDE DEF t, u, d, e
<1>3. More(StepOn(r, t, d), StepOn(s, u, e), q)
  BY <1>2, StepOfMore
<1> QED
  BY <1>1, <1>3

LEMMA FlagsOfMore ==
  ASSUME NEW r, NEW s, NEW q \in Bytes, More(r, s, q)
  PROVE  More(ReadFlags(r), ReadFlags(s), q)
<1> DEFINE t == TakeUint32(r.rest)
           u == TakeUint32(s.rest)
           d == [r.card EXCEPT !.flags = t.value]
           e == [s.card EXCEPT !.flags = u.value]
<1>1. ReadFlags(r) = StepOn(r, t, d) /\ ReadFlags(s) = StepOn(s, u, e)
  BY DEF ReadFlags, Read, StepOn, Reading
<1>2. ASSUME r.code = "OK"
      PROVE  /\ s.code = "OK" /\ TakesMore(t, u, q)
             /\ t.code = "OK" => e = d
  <2>1. /\ s = Reading(r.card, r.value, r.rest \o q) /\ r.rest \in Bytes
    BY <1>2 DEF More
  <2>2. s.code = "OK" /\ s.card = r.card /\ s.rest = r.rest \o q
    BY <2>1 DEF Reading
  <2>3. TakesMore(t, u, q)
    BY <2>1, <2>2, TakesMoreOfMore
  <2>4. t.code = "OK" => u.value = t.value
    BY <2>3 DEF TakesMore, Took
  <2> HIDE DEF t, u
  <2> QED
    BY <2>2, <2>3, <2>4
<1> HIDE DEF t, u, d, e
<1>3. More(StepOn(r, t, d), StepOn(s, u, e), q)
  BY <1>2, StepOfMore
<1> QED
  BY <1>1, <1>3

LEMMA TimestampOfMore ==
  ASSUME NEW r, NEW s, NEW q \in Bytes, More(r, s, q)
  PROVE  More(ReadTimestamp(r), ReadTimestamp(s), q)
<1> DEFINE t == TakeUint64(r.rest)
           u == TakeUint64(s.rest)
           d == [r.card EXCEPT !.timestamp = t.value]
           e == [s.card EXCEPT !.timestamp = u.value]
<1>1. ReadTimestamp(r) = StepOn(r, t, d) /\ ReadTimestamp(s) = StepOn(s, u, e)
  BY DEF ReadTimestamp, Read, StepOn, Reading
<1>2. ASSUME r.code = "OK"
      PROVE  /\ s.code = "OK" /\ TakesMore(t, u, q)
             /\ t.code = "OK" => e = d
  <2>1. /\ s = Reading(r.card, r.value, r.rest \o q) /\ r.rest \in Bytes
    BY <1>2 DEF More
  <2>2. s.code = "OK" /\ s.card = r.card /\ s.rest = r.rest \o q
    BY <2>1 DEF Reading
  <2>3. TakesMore(t, u, q)
    BY <2>1, <2>2, TakesMoreOfMore
  <2>4. t.code = "OK" => u.value = t.value
    BY <2>3 DEF TakesMore, Took
  <2> HIDE DEF t, u
  <2> QED
    BY <2>2, <2>3, <2>4
<1> HIDE DEF t, u, d, e
<1>3. More(StepOn(r, t, d), StepOn(s, u, e), q)
  BY <1>2, StepOfMore
<1> QED
  BY <1>1, <1>3

LEMMA TcgplayerIdOfMore ==
  ASSUME NEW r, NEW s, NEW q \in Bytes, More(r, s, q)
  PROVE  More(ReadTcgplayerId(r), ReadTcgplayerId(s), q)
<1> DEFINE t == TakeVarSizeUint32(r.rest)
           u == TakeVarSizeUint32(s.rest)
           d == WithTcgplayerId(r.card, t.value)
           e == WithTcgplayerId(s.card, u.value)
<1>1. /\ ReadTcgplayerId(r) = IF r.code = "OK"
           /\ TcgplayerId \subseteq r.card.flags THEN StepOn(r, t, d) ELSE r
      /\ ReadTcgplayerId(s) = IF s.code = "OK"
           /\ TcgplayerId \subseteq s.card.flags THEN StepOn(s, u, e) ELSE s
  BY DEF ReadTcgplayerId, ReadOptional, Read, StepOn, Reading, WithTcgplayerId
<1>2. ASSUME r.code = "OK"
      PROVE  /\ s.code = "OK" /\ TakesMore(t, u, q) /\ s.card = r.card
             /\ t.code = "OK" => e = d
  <2>1. /\ s = Reading(r.card, r.value, r.rest \o q) /\ r.rest \in Bytes
    BY <1>2 DEF More
  <2>2. s.code = "OK" /\ s.card = r.card /\ s.rest = r.rest \o q
    BY <2>1 DEF Reading
  <2>3. TakesMore(t, u, q)
    BY <2>1, <2>2, TakesMoreOfMore
  <2>4. t.code = "OK" => u.value = t.value
    BY <2>3 DEF TakesMore, Took
  <2> HIDE DEF t, u
  <2> QED
    BY <2>2, <2>3, <2>4
<1> HIDE DEF t, u, d, e
<1>3. More(StepOn(r, t, d), StepOn(s, u, e), q)
  BY <1>2, StepOfMore
<1>4. CASE r.code = "OK" /\ TcgplayerId \subseteq r.card.flags
  BY <1>1, <1>2, <1>3, <1>4
<1>5. CASE r.code = "OK" /\ ~(TcgplayerId \subseteq r.card.flags)
  BY <1>1, <1>2, <1>5
<1>6. CASE r.code # "OK"
  BY <1>1, <1>6 DEF More
<1> QED
  BY <1>4, <1>5, <1>6

LEMMA CardmarketIdOfMore ==
  ASSUME NEW r, NEW s, NEW q \in Bytes, More(r, s, q)
  PROVE  More(ReadCardmarketId(r), ReadCardmarketId(s), q)
<1> DEFINE t == TakeVarSizeUint32(r.rest)
           u == TakeVarSizeUint32(s.rest)
           d == WithCardmarketId(r.card, t.value)
           e == WithCardmarketId(s.card, u.value)
<1>1. /\ ReadCardmarketId(r) = IF r.code = "OK"
           /\ CardmarketId \subseteq r.card.flags THEN StepOn(r, t, d) ELSE r
      /\ ReadCardmarketId(s) = IF s.code = "OK"
           /\ CardmarketId \subseteq s.card.flags THEN StepOn(s, u, e) ELSE s
  BY DEF ReadCardmarketId, ReadOptional, Read, StepOn, Reading, WithCardmarketId
<1>2. ASSUME r.code = "OK"
      PROVE  /\ s.code = "OK" /\ TakesMore(t, u, q) /\ s.card = r.card
             /\ t.code = "OK" => e = d
  <2>1. /\ s = Reading(r.card, r.value, r.rest \o q) /\ r.rest \in Bytes
    BY <1>2 DEF More
  <2>2. s.code = "OK" /\ s.card = r.card /\ s.rest = r.rest \o q
    BY <2>1 DEF Reading
  <2>3. TakesMore(t, u, q)
    BY <2>1, <2>2, TakesMoreOfMore
  <2>4. t.code = "OK" => u.value = t.value
    BY <2>3 DEF TakesMore, Took
  <2> HIDE DEF t, u
  <2> QED
    BY <2>2, <2>3, <2>4
<1> HIDE DEF t, u, d, e
<1>3. More(StepOn(r, t, d), StepOn(s, u, e), q)
  BY <1>2, StepOfMore
<1>4. CASE r.code = "OK" /\ CardmarketId \subseteq r.card.flags
  BY <1>1, <1>2, <1>3, <1>4
<1>5. CASE r.code = "OK" /\ ~(CardmarketId \subseteq r.card.flags)
  BY <1>1, <1>2, <1>5
<1>6. CASE r.code # "OK"
  BY <1>1, <1>6 DEF More
<1> QED
  BY <1>4, <1>5, <1>6

LEMMA IdentityOfMore ==
  ASSUME NEW r, NEW s, NEW q \in Bytes, More(r, s, q)
  PROVE  More(ReadIdentity(r), ReadIdentity(s), q)
<1> DEFINE t == TakeUint8(r.rest)
           u == TakeUint8(s.rest)
           d == WithColorIdentity(r.card, t.value)
           e == WithColorIdentity(s.card, u.value)
<1>1. /\ ReadIdentity(r) = IF r.code = "OK"
           /\ ColorIdentity \subseteq r.card.flags THEN StepOn(r, t, d) ELSE r
      /\ ReadIdentity(s) = IF s.code = "OK"
           /\ ColorIdentity \subseteq s.card.flags THEN StepOn(s, u, e) ELSE s
  BY DEF ReadIdentity, ReadOptional, Read, StepOn, Reading, WithColorIdentity
<1>2. ASSUME r.code = "OK"
      PROVE  /\ s.code = "OK" /\ TakesMore(t, u, q) /\ s.card = r.card
             /\ t.code = "OK" => e = d
  <2>1. /\ s = Reading(r.card, r.value, r.rest \o q) /\ r.rest \in Bytes
    BY <1>2 DEF More
  <2>2. s.code = "OK" /\ s.card = r.card /\ s.rest = r.rest \o q
    BY <2>1 DEF Reading
  <2>3. TakesMore(t, u, q)
    BY <2>1, <2>2, TakesMoreOfMore
  <2>4. t.code = "OK" => u.value = t.value
    BY <2>3 DEF TakesMore, Took
  <2> HIDE DEF t, u
  <2> QED
    BY <2>2, <2>3, <2>4
<1> HIDE DEF t, u, d, e
<1>3. More(StepOn(r, t, d), StepOn(s, u, e), q)
  BY <1>2, StepOfMore
<1>4. CASE r.code = "OK" /\ ColorIdentity \subseteq r.card.flags
  BY <1>1, <1>2, <1>3, <1>4
<1>5. CASE r.code = "OK" /\ ~(ColorIdentity \subseteq r.card.flags)
  BY <1>1, <1>2, <1>5
<1>6. CASE r.code # "OK"
  BY <1>1, <1>6 DEF More
<1> QED
  BY <1>4, <1>5, <1>6

LEMMA OwnColorsOfMore ==
  ASSUME NEW r, NEW s, NEW q \in Bytes, More(r, s, q)
  PROVE  More(ReadOwnColors(r), ReadOwnColors(s), q)
<1> DEFINE t == TakeUint8(r.rest)
           u == TakeUint8(s.rest)
           d == WithColors(r.card, t.value)
           e == WithColors(s.card, u.value)
<1>1. /\ ReadOwnColors(r) = IF r.code = "OK"
           /\ Colors \subseteq r.card.flags THEN StepOn(r, t, d) ELSE r
      /\ ReadOwnColors(s) = IF s.code = "OK"
           /\ Colors \subseteq s.card.flags THEN StepOn(s, u, e) ELSE s
  BY DEF ReadOwnColors, ReadOptional, Read, StepOn, Reading, WithColors
<1>2. ASSUME r.code = "OK"
      PROVE  /\ s.code = "OK" /\ TakesMore(t, u, q) /\ s.card = r.card
             /\ t.code = "OK" => e = d
  <2>1. /\ s = Reading(r.card, r.value, r.rest \o q) /\ r.rest \in Bytes
    BY <1>2 DEF More
  <2>2. s.code = "OK" /\ s.card = r.card /\ s.rest = r.rest \o q
    BY <2>1 DEF Reading
  <2>3. TakesMore(t, u, q)
    BY <2>1, <2>2, TakesMoreOfMore
  <2>4. t.code = "OK" => u.value = t.value
    BY <2>3 DEF TakesMore, Took
  <2> HIDE DEF t, u
  <2> QED
    BY <2>2, <2>3, <2>4
<1> HIDE DEF t, u, d, e
<1>3. More(StepOn(r, t, d), StepOn(s, u, e), q)
  BY <1>2, StepOfMore
<1>4. CASE r.code = "OK" /\ Colors \subseteq r.card.flags
  BY <1>1, <1>2, <1>3, <1>4
<1>5. CASE r.code = "OK" /\ ~(Colors \subseteq r.card.flags)
  BY <1>1, <1>2, <1>5
<1>6. CASE r.code # "OK"
  BY <1>1, <1>6 DEF More
<1> QED
  BY <1>4, <1>5, <1>6

LEMMA MoreReads ==
  ASSUME NEW r, NEW s, NEW q, More(r, s, q), r.code = "OK"
  PROVE  /\ s.code = "OK" /\ s.card = r.card /\ s.value = r.value /\ s.rest = r.rest \o q
         /\ r.rest \in Bytes
<1>1. s = Reading(r.card, r.value, r.rest \o q) /\ r.rest \in Bytes
  BY DEF More
<1> QED
  BY <1>1 DEF Reading

LEMMA DataOfMore ==
  ASSUME NEW r, NEW s, NEW q \in Bytes, More(r, s, q)
  PROVE  More(ReadData(r), ReadData(s), q)
<1> DEFINE y == ReadUint32(r)
           z == ReadUint32(s)
           t == TakeBuffer(y.rest, Value(y.value))
           u == TakeBuffer(z.rest, Value(z.value))
           d == [y.card EXCEPT !.data = t.value]
           e == [z.card EXCEPT !.data = u.value]
<1>1. ReadData(r) = StepOn(y, t, d) /\ ReadData(s) = StepOn(z, u, e)
  BY DEF ReadData, Read, StepOn, Reading
<1>2. More(y, z, q)
  BY UintOfMore
<1> HIDE DEF y, z
<1>3. ASSUME y.code = "OK"
      PROVE  /\ z.code = "OK" /\ TakesMore(t, u, q)
             /\ t.code = "OK" => e = d
  <2>1. /\ z.code = "OK" /\ z.card = y.card /\ z.value = y.value /\ z.rest = y.rest \o q
        /\ y.rest \in Bytes
    BY <1>2, <1>3, MoreReads
  <2>2. Value(y.value) \in Nat
    BY ValueIsNat
  <2>3. TakesMore(t, u, q)
    BY <2>1, <2>2, TakesMoreOfMore
  <2>4. t.code = "OK" => u.value = t.value
    BY <2>3 DEF TakesMore, Took
  <2> HIDE DEF t, u
  <2> QED
    BY <2>1, <2>3, <2>4
<1> HIDE DEF t, u, d, e
<1>4. More(StepOn(y, t, d), StepOn(z, u, e), q)
  BY <1>3, StepOfMore
<1> QED
  BY <1>1, <1>4

CheckOn(r, passes) == IF r.code # "OK" \/ passes THEN r ELSE Failed("OUT_OF_BOUNDS")

LEMMA CheckOfMore ==
  ASSUME NEW r, NEW s, NEW q, More(r, s, q), NEW passes \in BOOLEAN, NEW passesToo \in BOOLEAN,
         r.code = "OK" => (passes <=> passesToo)
  PROVE  More(CheckOn(r, passes), CheckOn(s, passesToo), q)
<1>1. CASE r.code # "OK"
  <2>1. CheckOn(r, passes) = r
    BY <1>1 DEF CheckOn
  <2> QED
    BY <1>1, <2>1 DEF More
<1>2. CASE r.code = "OK" /\ passes
  <2>1. CheckOn(r, passes) = r /\ CheckOn(s, passesToo) = s
    BY <1>2 DEF CheckOn
  <2> QED
    BY <2>1
<1>3. CASE r.code = "OK" /\ ~passes
  <2>1. CheckOn(r, passes).code # "OK"
    BY <1>3 DEF CheckOn, Failed
  <2> QED
    BY <2>1 DEF More
<1> QED
  BY <1>1, <1>2, <1>3

LEMMA IndexOfMore ==
  ASSUME NEW r, NEW s, NEW q \in Bytes, More(r, s, q)
  PROVE  More(ReadIndex(r), ReadIndex(s), q)
<1> DEFINE y == ReadUint32(r)
           z == ReadUint32(s)
           a == Value(y.value) < Len(StringEntries)
           b == Value(z.value) < Len(StringEntries)
<1>1. ReadIndex(r) = CheckOn(y, a) /\ ReadIndex(s) = CheckOn(z, b)
  BY DEF ReadIndex, Check, CheckOn
<1>2. More(y, z, q)
  BY UintOfMore
<1> HIDE DEF y, z
<1>3. y.code = "OK" => z.value = y.value
  BY <1>2, MoreReads
<1>4. y.code = "OK" => (a <=> b)
  BY <1>3
<1>5. a \in BOOLEAN /\ b \in BOOLEAN
  OBVIOUS
<1> HIDE DEF a, b
<1>6. More(CheckOn(y, a), CheckOn(z, b), q)
  BY <1>2, <1>4, <1>5, CheckOfMore
<1> QED
  BY <1>1, <1>6

LEMMA IndexNeedsBytes ==
  ASSUME NEW r, ReadIndex(r).code = "OK"
  PROVE  r.code = "OK"
BY DEF ReadIndex, ReadUint32, Read, Check

LEMMA OffsetOfMore ==
  ASSUME NEW r, NEW s, NEW q \in Bytes, More(r, s, q)
  PROVE  More(ReadOffset(r), ReadOffset(s), q)
<1> DEFINE y == ReadIndex(r)
           z == ReadIndex(s)
           t == TakeVarSizeUint32(y.rest)
           u == TakeVarSizeUint32(z.rest)
           d == StoreOffset(y.card, Value(y.value) + 1, Value(t.value))
           e == StoreOffset(z.card, Value(z.value) + 1, Value(u.value))
           k == StepOn(y, t, d)
           l == StepOn(z, u, e)
           a == Value(k.value) < Len(r.card.data)
           b == Value(l.value) < Len(s.card.data)
<1>1. ReadOffset(r) = CheckOn(k, a) /\ ReadOffset(s) = CheckOn(l, b)
  BY DEF ReadOffset, Read, StepOn, Reading, Check, CheckOn
<1>2. More(y, z, q)
  BY IndexOfMore
<1>3. y.code = "OK" => r.code = "OK"
  BY IndexNeedsBytes
<1> HIDE DEF y, z
<1>4. ASSUME y.code = "OK"
      PROVE  /\ z.code = "OK" /\ TakesMore(t, u, q)
             /\ t.code = "OK" => e = d
  <2>1. /\ z.code = "OK" /\ z.card = y.card /\ z.value = y.value /\ z.rest = y.rest \o q
        /\ y.rest \in Bytes
    BY <1>2, <1>4, MoreReads
  <2>3. TakesMore(t, u, q)
    BY <2>1, TakesMoreOfMore
  <2>4. t.code = "OK" => u.value = t.value
    BY <2>3 DEF TakesMore, Took
  <2> HIDE DEF t, u
  <2> QED
    BY <2>1, <2>3, <2>4
<1> HIDE DEF t, u, d, e
<1>5. More(k, l, q)
  BY <1>4, StepOfMore
<1>6. k.code = "OK" => r.code = "OK"
  BY <1>3 DEF StepOn
<1> HIDE DEF k, l
<1>7. k.code = "OK" => l.value = k.value /\ s.card = r.card
  BY <1>5, <1>6, MoreReads
<1>8. k.code = "OK" => (a <=> b)
  BY <1>7
<1>9. a \in BOOLEAN /\ b \in BOOLEAN
  OBVIOUS
<1> HIDE DEF a, b
<1>10. More(CheckOn(k, a), CheckOn(l, b), q)
  BY <1>5, <1>8, <1>9, CheckOfMore
<1> QED
  BY <1>1, <1>10

LEMMA OffsetsOfMore ==
  ASSUME NEW r, NEW s, NEW q \in Bytes, More(r, s, q)
  PROVE  More(ReadOffsets(r), ReadOffsets(s), q)
<1>1. CASE r.code # "OK"
  <2>1. ReadOffsets(r) = r
    BY <1>1 DEF ReadOffsets
  <2> QED
    BY <1>1, <2>1 DEF More
<1>2. CASE r.code = "OK"
  <2> DEFINE m == Value(r.value)
  <2>1. s.code = "OK" /\ s.value = r.value
    BY <1>2, MoreReads
  <2>2. PICK f : /\ ReadOffsets(r) = f[m] /\ f[0] = r
                 /\ \A n \in 1..m : f[n] = ReadOffset(f[n - 1])
    BY <1>2, ReadOffsetsSteps
  <2>3. PICK g : /\ ReadOffsets(s) = g[m] /\ g[0] = s
                 /\ \A n \in 1..m : g[n] = ReadOffset(g[n - 1])
    BY <2>1, ReadOffsetsSteps
  <2>4. m \in Nat
    BY ValueIsNat
  <2> HIDE DEF m
  <2> DEFINE T == {n \in 0..m : More(f[n], g[n], q)}
  <2>5. 0 \in T
    BY <2>2, <2>3, <2>4
  <2>6. ASSUME NEW n \in 0..(m - 1), n \in T PROVE n + 1 \in T
    <3>1. n + 1 \in 1..m /\ (n + 1) - 1 = n /\ n + 1 \in 0..m
      BY <2>4
    <3>2. f[n + 1] = ReadOffset(f[n]) /\ g[n + 1] = ReadOffset(g[n])
      BY <2>2, <2>3, <3>1
    <3>3. More(ReadOffset(f[n]), ReadOffset(g[n]), q)
      BY <2>6, OffsetOfMore
    <3> QED
      BY <3>1, <3>2, <3>3
  <2> HIDE DEF T
  <2>7. 0..m \subseteq T
    BY <2>4, <2>5, <2>6, InductionUpTo
  <2>8. m \in T
    BY <2>4, <2>7
  <2> QED
    BY <2>2, <2>3, <2>8 DEF T
<1> QED
  BY <1>1, <1>2

\* What is read of a record does not depend on what follows it.
LEMMA DeserializesMore ==
  ASSUME NEW b \in Bytes, NEW q \in Bytes
  PROVE  More(Deserialize(b), Deserialize(b \o q), q)
<1> DEFINE r1 == Reading(NewCard, {}, b)
           s1 == Reading(NewCard, {}, b \o q)
           r2 == ReadData(ReadSet(ReadNumber(r1)))
           s2 == ReadData(ReadSet(ReadNumber(s1)))
           r3 == ReadFlags(ReadStrings(r2))
           s3 == ReadFlags(ReadStrings(s2))
<1>1. More(r1, s1, q)
  BY DEF More, Reading
<1>2. More(r2, s2, q)
  <2> HIDE DEF r1, s1
  <2>1. More(ReadNumber(r1), ReadNumber(s1), q)
    BY <1>1, NumberOfMore
  <2>2. More(ReadSet(ReadNumber(r1)), ReadSet(ReadNumber(s1)), q)
    BY <2>1, SetOfMore
  <2> QED
    BY <2>2, DataOfMore
<1>3. More(r3, s3, q)
  <2> HIDE DEF r2, s2
  <2>1. More(ReadUint32(r2), ReadUint32(s2), q)
    BY <1>2, UintOfMore
  <2>2. More(ReadOffsets(ReadUint32(r2)), ReadOffsets(ReadUint32(s2)), q)
    BY <2>1, OffsetsOfMore
  <2>3. More(ReadStrings(r2), ReadStrings(s2), q)
    BY <2>2 DEF ReadStrings
  <2> QED
    BY <2>3, FlagsOfMore
<1>4. /\ Deserialize(b) = ReadTimestamp(ReadColors(ReadIds(r3)))
      /\ Deserialize(b \o q) = ReadTimestamp(ReadColors(ReadIds(s3)))
  BY DEF Deserialize, Reading
<1> HIDE DEF r3, s3
<1>5. More(ReadIds(r3), ReadIds(s3), q)
  <2>1. More(ReadTcgplayerId(r3), ReadTcgplayerId(s3), q)
    BY <1>3, TcgplayerIdOfMore
  <2>2. More(ReadCardmarketId(ReadTcgplayerId(r3)), ReadCardmarketId(ReadTcgplayerId(s3)), q)
    BY <2>1, CardmarketIdOfMore
  <2> QED
    BY <2>2 DEF ReadIds
<1> DEFINE r4 == ReadIds(r3)
           s4 == ReadIds(s3)
<1>6. More(r4, s4, q)
  BY <1>5
<1> HIDE DEF r4, s4
<1>7. More(ReadColors(r4), ReadColors(s4), q)
  <2>1. More(ReadIdentity(r4), ReadIdentity(s4), q)
    BY <1>6, IdentityOfMore
  <2>2. More(ReadOwnColors(ReadIdentity(r4)), ReadOwnColors(ReadIdentity(s4)), q)
    BY <2>1, OwnColorsOfMore
  <2> QED
    BY <2>2 DEF ReadColors
<1>8. More(ReadTimestamp(ReadColors(r4)), ReadTimestamp(ReadColors(s4)), q)
  BY <1>7, TimestampOfMore
<1> QED
  BY <1>4, <1>8 DEF r4, s4

\* A record that ends early is refused: were it read, the whole record would be
\* read as well and leave what was cut off.
LEMMA CutRecordIsRefused ==
  ASSUME NEW b \in Bytes, NEW n \in 0..(Len(b) - 1), NEW c, NEW w,
         Deserialize(b) = Reading(c, w, <<>>)
  PROVE  Deserialize(SubSeq(b, 1, n)).code # "OK"
<1> DEFINE p == SubSeq(b, 1, n)
           q == Behind(b, n)
<1>1. Len(b) \in Nat
  BY LenProperties DEF Bytes
<1>2. n \in 0..Len(b) /\ Len(b) - n # 0
  BY <1>1
<1>3. p \in Bytes /\ q \in Bytes /\ p \o q = b /\ Len(q) = Len(b) - n
  BY <1>2, CutInTwo
<1> HIDE DEF p, q
<1>4. SUFFICES ASSUME Deserialize(p).code = "OK" PROVE FALSE
  BY DEF p
<1>5. More(Deserialize(p), Deserialize(b), q)
  BY <1>3, DeserializesMore
<1> DEFINE x == Deserialize(p)
           y == Deserialize(b)
<1>6. y.rest = x.rest \o q /\ x.rest \in Bytes
  BY <1>4, <1>5, MoreReads
<1>7. y.rest = <<>>
  BY DEF Reading
<1> HIDE DEF x, y
<1>8. Len(x.rest \o q) = Len(x.rest) + Len(q) /\ Len(x.rest) \in Nat /\ Len(q) \in Nat
  BY <1>3, <1>6, ConcatProperties, LenProperties DEF Bytes
<1>9. Len(<<>>) = 0
  OBVIOUS
<1>10. Len(x.rest) + Len(q) = 0
  BY <1>6, <1>7, <1>8, <1>9
<1>11. Len(q) = 0
  <2> DEFINE k == Len(x.rest)
             l == Len(q)
  <2>1. k \in Nat /\ l \in Nat /\ k + l = 0
    BY <1>8, <1>10
  <2> HIDE DEF k, l
  <2>2. l = 0
    BY <2>1
  <2> QED
    BY <2>2 DEF l
<1> QED
  BY <1>2, <1>3, <1>11

\* The bytes behind the length of a frame that was cut.
LEMMA CutFrameHolds ==
  ASSUME NEW bytes \in Bytes, NEW n \in 4..(Len(bytes) + 3)
  PROVE  SubSeq(WriteBuffer(bytes), 5, n) = SubSeq(bytes, 1, n - 4)
<1> DEFINE s == SizeBytes(Bits(Len(bytes)))
           p == SubSeq(bytes, 1, n - 4)
           w == WriteBuffer(bytes)
           v == SubSeq(w, 5, n)
<1>1. Len(bytes) \in Nat
  BY LenProperties DEF Bytes
<1>2. s \in Bytes /\ Len(s) = 4 /\ w = s \o bytes
  BY <1>1, FrameLength DEF WriteBuffer
<1> HIDE DEF s, w
<1> DEFINE L == Len(bytes)
<1>3. n - 4 \in 0..L /\ n - 4 \in Nat /\ n \in Nat /\ n >= 4 /\ n <= 4 + L
  BY <1>1
<1>4. p \in Bytes /\ Len(p) = n - 4 /\ \A i \in 1..(n - 4) : p[i] = bytes[i]
  BY <1>3, CutInTwo
<1>5. w \in Seq(Byte) /\ Len(w) = 4 + L /\ \A i \in 1..L : w[4 + i] = bytes[i]
  <2>1. s \in Seq(Byte) /\ bytes \in Seq(Byte)
    BY <1>2 DEF Bytes
  <2>2. /\ s \o bytes \in Seq(Byte) /\ Len(s \o bytes) = 4 + L
        /\ \A i \in 1..(4 + L) : (s \o bytes)[i] = IF i <= 4 THEN s[i] ELSE bytes[i - 4]
    <3>1. /\ s \o bytes \in Seq(Byte) /\ Len(s \o bytes) = Len(s) + Len(bytes)
          /\ \A i \in 1..(Len(s) + Len(bytes)) :
               (s \o bytes)[i] = IF i <= Len(s) THEN s[i] ELSE bytes[i - Len(s)]
      BY <2>1, ConcatProperties
    <3>2. Len(s) = 4
      BY <1>2
    <3> QED
      BY <3>1, <3>2
  <2> HIDE DEF L
  <2>3. \A i \in 1..L : 4 + i \in 1..(4 + L) /\ ~(4 + i <= 4) /\ (4 + i) - 4 = i
    BY <1>1 DEF L
  <2> QED
    BY <1>2, <2>2, <2>3
<1>6. /\ v \in Seq(Byte) /\ Len(v) = IF 5 <= n THEN n - 5 + 1 ELSE 0
      /\ \A i \in 1..(n - 5 + 1) : v[i] = w[5 + i - 1]
  <2>1. 5 \in 1..(Len(w) + 1) /\ n \in 4..Len(w)
    <3> HIDE DEF L
    <3> QED
      BY <1>1, <1>3, <1>5 DEF L
  <2> QED
    BY <1>5, <2>1, SubSeqProperties
<1> HIDE DEF p, v, L
<1>7. Len(v) = n - 4 /\ \A i \in 1..(n - 4) : v[i] = p[i]
  <2>1. n - 5 + 1 = n - 4
    BY <1>3
  <2>2. Len(v) = n - 4
    BY <1>3, <1>6, <2>1
  <2>3. \A i \in 1..(n - 4) : 5 + i - 1 = 4 + i /\ i \in 1..L
    <3>1. L \in Nat
      BY <1>1 DEF L
    <3> QED
      BY <1>3, <3>1
  <2> QED
    BY <1>4, <1>5, <1>6, <2>1, <2>2, <2>3
<1>8. v \in Seq(Byte) /\ p \in Seq(Byte) /\ Len(p) = n - 4
  BY <1>4, <1>6 DEF Bytes
<1>9. v = p
  BY <1>3, <1>7, <1>8
<1> QED
  BY <1>9 DEF v, p, w

LEMMA InvGivesCut ==
  ASSUME NEW limit \in Nat, TextsFit(limit), CardInv(limit)
  PROVE  CutRejected
<1> SUFFICES ASSUME NEW n \in 0..(Len(file) - 1)
             PROVE  /\ ReadBuffer(SubSeq(file, 1, n)).code = "FILE_READ_ERROR"
                    /\ n >= 4 => Deserialize(SubSeq(file, 5, n)).code # "OK"
  BY DEF CutRejected
<1>1. file # <<>>
  BY EmptySeq
<1>2. PICK c : Good(c, kept.file, limit) /\ Shrunk(c) /\ file = WriteBuffer(Serialized(c))
  BY <1>1 DEF CardInv, Saved
<1> DEFINE b == Serialized(c)
<1>3. b \in Bytes /\ Len(b) < 2^24 /\ \E w : Deserialize(b) = Reading(Loaded(c), w, <<>>)
  BY <1>2, GoodLoads
<1>4. PICK w : Deserialize(b) = Reading(Loaded(c), w, <<>>)
  BY <1>3
<1> HIDE DEF b
<1>5. file = WriteBuffer(b)
  BY <1>2 DEF b
<1>6. ReadBuffer(SubSeq(file, 1, n)).code = "FILE_READ_ERROR"
  <2>1. ReadBuffer(SubSeq(WriteBuffer(b), 1, n)) = Failed("FILE_READ_ERROR")
    BY <1>3, <1>5, CutFrameIsRefused
  <2> QED
    BY <1>5, <2>1 DEF Failed
<1>7. ASSUME n >= 4 PROVE Deserialize(SubSeq(file, 5, n)).code # "OK"
  <2>1. Len(file) = 4 + Len(b) /\ Len(b) \in Nat
    <3> DEFINE s == SizeBytes(Bits(Len(b)))
    <3>1. Len(b) \in Nat
      BY <1>3, LenProperties DEF Bytes
    <3>2. s \in Bytes /\ Len(s) = 4 /\ file = s \o b
      BY <1>5, <3>1, FrameLength DEF WriteBuffer
    <3> HIDE DEF s
    <3>3. Len(s \o b) = Len(s) + Len(b)
      BY <1>3, <3>2, ConcatProperties DEF Bytes
    <3> QED
      BY <3>1, <3>2, <3>3
  <2>2. n \in 4..(Len(b) + 3) /\ n - 4 \in 0..(Len(b) - 1)
    BY <1>7, <2>1
  <2>3. SubSeq(file, 5, n) = SubSeq(b, 1, n - 4)
    BY <1>3, <1>5, <2>2, CutFrameHolds
  <2>4. Deserialize(SubSeq(b, 1, n - 4)).code # "OK"
    BY <1>3, <1>4, <2>2, CutRecordIsRefused
  <2> QED
    BY <2>3, <2>4
<1> QED
  BY <1>6, <1>7

\* A record that ends early, anywhere, is not read from the file, and is refused
\* by the deserializer if its bytes do get read (sfc_file.c:33,
\* sfc_deserializer.c:22).
THEOREM CutStaysRejected ==
  ASSUME NEW CONSTANT limit \in Nat, TextsFit(limit)
  PROVE  Spec => []CutRejected
<1>1. CardInv(limit) => CutRejected
  BY InvGivesCut
<1>2. Spec => []CardInv(limit)
  BY CardInvHolds
<1> QED
  BY <1>1, <1>2, PTL

-----------------------------------------------------------------------------
(* Where the strings are. *)

\* A card of which there is a file was moved together, by its first save or
\* before it was loaded.
SavedIsShrunk == card # NoCard /\ file # <<>> => Shrunk(card)

LEMMA MovesOnce ==
  ASSUME NEW limit \in Nat, TextsFit(limit), CardInv(limit), SavedIsShrunk, [Next]_vars
  PROVE  /\ SavedIsShrunk'
         /\ card # NoCard /\ card' # NoCard /\ file # <<>>
              => /\ card'.block = card.block /\ card'.data = card.data
                 /\ card'.offsets = card.offsets
<1>1. ASSUME file' = file, card' \in {card, NoCard} PROVE SavedIsShrunk'
  BY <1>1 DEF SavedIsShrunk, Shrunk
<1>2. ASSUME NEW f \in Filters, SetFilter(f) PROVE file' = file /\ card' = card
  BY <1>2 DEF SetFilter
<1>3. CASE UNCHANGED vars
  BY <1>1, <1>3 DEF vars
<1>4. CASE Parse
  <2>1. file = <<>> /\ file' = <<>>
    BY <1>4 DEF Parse, CardInv
  <2> QED
    BY <2>1 DEF SavedIsShrunk
<1>5. CASE Save
  <2>1. card # NoCard /\ card' = Shrink(card)
    BY <1>5 DEF Save
  <2>2. Good(card, kept.card, limit) /\ origin.response \in Responses
    BY <2>1 DEF CardInv
  <2>3. Shrunk(Shrink(card))
    BY <2>2, ShrinkIsGood
  <2>4. Shrunk(card)'
    BY <2>1, <2>3 DEF Shrunk
  <2>5. file # <<>> => card' = card
    BY <2>1 DEF SavedIsShrunk, Shrink
  <2> QED
    BY <2>4, <2>5 DEF SavedIsShrunk
<1>6. CASE Forget
  BY <1>1, <1>6 DEF Forget
<1>7. CASE Load
  <2>1. card = NoCard
    BY <1>7 DEF Load
  <2>2. Shrunk(card)'
    BY <1>7, LoadGives
  <2> QED
    BY <2>1, <2>2 DEF SavedIsShrunk
<1> QED
  BY <1>1, <1>2, <1>3, <1>4, <1>5, <1>6, <1>7 DEF Next

\* The string data of a card move in its first save only: the mark that they have
\* been moved comes through every save and load, so that no later save, of the
\* same program or of one that loaded the card, moves them (sfc_card.c:215, 244).
THEOREM StringsMove ==
  ASSUME NEW CONSTANT limit \in Nat, TextsFit(limit)
  PROVE  Spec => StringsMoveOnce
<1>1. Init => SavedIsShrunk
  BY DEF Init, SavedIsShrunk
<1>2. CardInv(limit) /\ SavedIsShrunk /\ [Next]_vars
        => /\ SavedIsShrunk'
           /\ card # NoCard /\ card' # NoCard /\ file # <<>>
                => /\ card'.block = card.block /\ card'.data = card.data
                   /\ card'.offsets = card.offsets
  BY MovesOnce
<1>3. Spec => []CardInv(limit)
  BY CardInvHolds
<1> QED
  BY <1>1, <1>2, <1>3, PTL DEF Spec, StringsMoveOnce
=============================================================================
