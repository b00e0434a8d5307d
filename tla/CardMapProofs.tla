--------------------------- MODULE CardMapProofs ---------------------------
(***************************************************************************)
(* Proofs about CardMap, for every hash, bound and width of a word: its    *)
(* types, that a lookup and an insert agree on where an entry is, and that *)
(* the table is an IdMap however often it grows.                           *)
(***************************************************************************)
EXTENDS CardMap, Inductions, TLAPS

-----------------------------------------------------------------------------
(* Slots. *)

LEMMA FirstIsLeast ==
  ASSUME NEW S, S \subseteq Nat, S # {}
  PROVE  First(S) \in S /\ \A h \in S : First(S) <= h
<1>1. PICK m \in S : \A h \in S : ~(h < m)
  BY LeastNumber
<1>2. \A h \in S : m <= h
  BY <1>1
<1> QED
  BY <1>2 DEF First

LEMMA SlotTyped ==
  ASSUME NEW k \in Keys, NEW n \in Nat, NEW i \in Nat, i < n
  PROVE  Slot(k, i, n) \in 0..(n - 1)
<1>1. Hash(k) + i \in Nat /\ Word \in Nat \ {0} /\ n \in Nat \ {0}
  BY HashAssumption, BoundsAssumption
<1>2. (Hash(k) + i) % Word \in Nat
  BY <1>1
<1>3. ((Hash(k) + i) % Word) % n \in 0..(n - 1)
  BY <1>1, <1>2
<1> QED
  BY <1>3 DEF Slot

Table(n) == [0..(n - 1) -> Item]

LEMMA Items ==
  /\ \A e \in Item : e.card = NoCard <=> e = EmptyItem
  /\ \A e \in Item : e # EmptyItem <=> e.key \in Keys
  /\ \A e \in Item : e # EmptyItem => e.card \in Cards /\ e = [key |-> e.key, card |-> e.card]
  /\ \A k \in Keys, c \in Cards : [key |-> k, card |-> c] \in Item
       /\ [key |-> k, card |-> c] # EmptyItem
  /\ EmptyItem.key \notin Keys
  BY KeysAssumption, NoCardAssumption DEF Item, EmptyItem

\* What a table holds, each key once.
Entries(m)  == {m[s] : s \in DOMAIN m} \ {EmptyItem}
Unique(m)   == \A s, t \in DOMAIN m : m[s] # EmptyItem /\ m[t].key = m[s].key => t = s

LEMMA FoundIsEntry ==
  ASSUME NEW m, m \in [DOMAIN m -> Item], Unique(m), NEW k \in Keys
  PROVE  /\ Found(m, k) \in Cards \cup {NoCard}
         /\ \A c \in Cards : Found(m, k) = c <=> [key |-> k, card |-> c] \in Entries(m)
         /\ Found(m, k) = NoCard <=> \A e \in Entries(m) : e.key # k
<1>1. CASE \E s \in DOMAIN m : m[s].key = k
  <2> DEFINE s == CHOOSE s \in DOMAIN m : m[s].key = k
  <2>1. s \in DOMAIN m /\ m[s].key = k /\ Found(m, k) = m[s].card
    BY <1>1 DEF Found
  <2> HIDE DEF s
  <2>2. m[s] \in Item /\ m[s] # EmptyItem
    BY <2>1, Items
  <2>3. m[s].card \in Cards /\ m[s] = [key |-> k, card |-> m[s].card] /\ m[s] \in Entries(m)
    BY <2>1, <2>2, Items DEF Entries
  <2>4. ASSUME NEW c \in Cards, [key |-> k, card |-> c] \in Entries(m) PROVE m[s].card = c
    <3>1. PICK t \in DOMAIN m : m[t] = [key |-> k, card |-> c]
      BY <2>4 DEF Entries
    <3>2. t = s
      BY <2>1, <2>2, <3>1 DEF Unique
    <3> QED
      BY <3>1, <3>2
  <2>5. m[s].card # NoCard
    BY <2>3, NoCardAssumption
  <2>6. ~(\A e \in Entries(m) : e.key # k)
    BY <2>1, <2>3
  <2>7. \A c \in Cards : m[s].card = c <=> [key |-> k, card |-> c] \in Entries(m)
    BY <2>3, <2>4
  <2> QED
    BY <2>1, <2>3, <2>5, <2>6, <2>7
<1>2. CASE ~(\E s \in DOMAIN m : m[s].key = k)
  <2>1. Found(m, k) = NoCard
    BY <1>2 DEF Found
  <2>2. \A e \in Entries(m) : e.key # k
    BY <1>2 DEF Entries
  <2>3. \A c \in Cards : [key |-> k, card |-> c] \notin Entries(m)
    BY <2>2
  <2> QED
    BY <2>1, <2>2, <2>3, NoCardAssumption
<1> QED
  BY <1>1, <1>2

LEMMA ChainedIsUnique ==
  ASSUME NEW m, NEW n, Chained(m, n)
  PROVE  Unique(m)
  BY DEF Chained, Unique

\* A lookup finds the one entry there is.
LEMMA GetIsFound ==
  ASSUME NEW n \in Nat, NEW m \in Table(n), Chained(m, n), NEW k \in Keys
  PROVE  Get(m, k, n) = Found(m, k)
<1>0. DOMAIN m = 0..(n - 1) /\ \A s \in DOMAIN m : m[s] \in Item
  BY DEF Table
<1>1. \A i \in 0..(n - 1) : Slot(k, i, n) \in DOMAIN m
  BY <1>0, SlotTyped
<1>2. FoundAt(m, k, n) \subseteq Nat
  BY DEF FoundAt
<1>3. CASE \E s \in DOMAIN m : m[s].key = k
  <2> DEFINE s == CHOOSE s \in DOMAIN m : m[s].key = k
  <2>1. s \in DOMAIN m /\ m[s].key = k /\ Found(m, k) = m[s].card
    BY <1>3 DEF Found
  <2> HIDE DEF s
  <2>2. m[s] # EmptyItem
    BY <1>0, <2>1, Items
  <2>3. \E i \in Tries(n) : Slot(k, i, n) = s
    BY <2>1, <2>2 DEF Chained
  <2>4. FoundAt(m, k, n) # {}
    BY <2>1, <2>3, BoundsAssumption DEF FoundAt, Tries
  <2> DEFINE i == First(FoundAt(m, k, n))
  <2>5. i \in FoundAt(m, k, n)
    BY <1>2, <2>4, FirstIsLeast
  <2> HIDE DEF i
  <2>6. i \in 0..(n - 1) /\ m[Slot(k, i, n)].key = k
    BY <2>5 DEF FoundAt
  <2>7. Slot(k, i, n) = s
    BY <1>1, <2>1, <2>2, <2>6, ChainedIsUnique DEF Unique
  <2> QED
    BY <2>1, <2>4, <2>7 DEF Get, i
<1>4. CASE ~(\E s \in DOMAIN m : m[s].key = k)
  BY <1>1, <1>4 DEF Get, FoundAt, Found
<1> QED
  BY <1>3, <1>4

\* An insert replaces the entry under its key, or adds one, and moves no other.
LEMMA InsertOne ==
  ASSUME NEW n \in Nat, NEW m \in Table(n), Chained(m, n),
         NEW k \in Keys, NEW c \in Cards, Fits(m, k, n)
  PROVE  LET p == TryInsert(m, k, c, n)
         IN  /\ p \in Table(n)
             /\ Chained(p, n)
             /\ Entries(p) = {e \in Entries(m) : e.key # k} \cup {[key |-> k, card |-> c]}
<1> DEFINE i == First(OpenAt(m, k, n))
           s == Slot(k, i, n)
           e == [key |-> k, card |-> c]
           p == [m EXCEPT ![s] = e]
<1>0. DOMAIN m = 0..(n - 1) /\ \A t \in DOMAIN m : m[t] \in Item
  BY DEF Table
<1>1. i \in OpenAt(m, k, n) /\ \A h \in OpenAt(m, k, n) : i <= h
  <2>1. OpenAt(m, k, n) \subseteq Nat
    BY DEF OpenAt, Tries
  <2> QED
    BY <2>1, FirstIsLeast DEF Fits
<1>2. p = TryInsert(m, k, c, n)
  BY DEF TryInsert
<1> HIDE DEF i
<1>3. /\ i \in Tries(n) /\ i \in Nat /\ i < n
      /\ m[s] = EmptyItem \/ m[s].key = k
      /\ s \in DOMAIN m
  <2>1. i \in Tries(n) /\ Open(m, k, s)
    BY <1>1 DEF OpenAt
  <2>2. i \in Nat /\ i < n
    BY <2>1 DEF Tries
  <2>3. s \in DOMAIN m
    BY <1>0, <2>2, SlotTyped
  <2> QED
    BY <1>0, <2>1, <2>2, <2>3, Items DEF Open
<1>4. \A h \in 0..(i - 1) : m[Slot(k, h, n)] # EmptyItem /\ m[Slot(k, h, n)].key # k
  <2> SUFFICES ASSUME NEW h \in 0..(i - 1)
               PROVE  m[Slot(k, h, n)] # EmptyItem /\ m[Slot(k, h, n)].key # k
    OBVIOUS
  <2>1. h \in Tries(n) /\ h \in Nat /\ h < n /\ h < i
    BY <1>3, BoundsAssumption DEF Tries
  <2>2. h \notin OpenAt(m, k, n)
    BY <1>1, <1>3, <2>1
  <2>3. ~Open(m, k, Slot(k, h, n))
    BY <2>1, <2>2 DEF OpenAt
  <2>4. EmptyItem.card = NoCard
    BY DEF EmptyItem
  <2> QED
    BY <2>3, <2>4 DEF Open
<1>5. e \in Item /\ e # EmptyItem /\ e.key = k /\ EmptyItem.key # k
  BY Items
<1> HIDE DEF s, e
<1>6. /\ p \in Table(n) /\ DOMAIN p = DOMAIN m /\ p[s] = e
      /\ \A t \in DOMAIN m : t # s => p[t] = m[t]
  BY <1>0, <1>3, <1>5 DEF Table
<1> HIDE DEF p
<1>7. \A t \in DOMAIN m : m[t].key = k => t = s
  <2> SUFFICES ASSUME NEW t \in DOMAIN m, m[t].key = k PROVE t = s
    OBVIOUS
  <2>1. m[t] # EmptyItem
    BY <1>5
  <2>2. PICK h \in Tries(n) : /\ Slot(k, h, n) = t
                              /\ \A g \in 0..(h - 1) : m[Slot(k, g, n)] # EmptyItem
    BY <2>1 DEF Chained
  <2>3. h \in Nat /\ h \in OpenAt(m, k, n)
    BY <2>2 DEF OpenAt, Open, Tries
  <2>4. i <= h
    BY <1>1, <2>3
  <2>5. CASE i = h
    BY <2>2, <2>5 DEF s
  <2>6. CASE i < h
    <3>1. m[s] # EmptyItem
      BY <1>3, <2>2, <2>3, <2>6 DEF s
    <3>2. m[s].key = k
      BY <1>3, <3>1
    <3> QED
      BY <1>3, <2>1, <3>2, ChainedIsUnique DEF Unique
  <2> QED
    BY <1>3, <2>3, <2>4, <2>5, <2>6
<1>8. Chained(p, n)
  <2> SUFFICES ASSUME NEW t \in DOMAIN p, p[t] # EmptyItem
               PROVE  /\ \A u \in DOMAIN p : p[u].key = p[t].key => u = t
                      /\ \E h \in Tries(n) :
                           /\ Slot(p[t].key, h, n) = t
                           /\ \A g \in 0..(h - 1) : p[Slot(p[t].key, g, n)] # EmptyItem
    BY DEF Chained
  <2>1. \A u \in DOMAIN m : m[u] # EmptyItem => p[u] # EmptyItem
    BY <1>5, <1>6
  <2>2. CASE t = s
    <3>1. \A u \in DOMAIN p : p[u].key = k => u = t
      BY <1>6, <1>7, <2>2
    <3>2. \A g \in 0..(i - 1) : p[Slot(k, g, n)] # EmptyItem
      <4> SUFFICES ASSUME NEW g \in 0..(i - 1) PROVE p[Slot(k, g, n)] # EmptyItem
        OBVIOUS
      <4>1. Slot(k, g, n) \in DOMAIN m
        <5>1. g \in Nat /\ g < n
          BY <1>3
        <5> QED
          BY <1>0, <5>1, SlotTyped
      <4> QED
        BY <1>4, <2>1, <4>1
    <3>3. Slot(k, i, n) = t
      BY <2>2 DEF s
    <3> QED
      BY <1>3, <1>5, <1>6, <2>2, <3>1, <3>2, <3>3
  <2>3. CASE t # s
    <3>1. p[t] = m[t] /\ m[t] # EmptyItem /\ t \in DOMAIN m
      BY <1>6, <2>3
    <3>2. m[t].key # k /\ m[t].key \in Keys
      BY <1>0, <1>7, <2>3, <3>1, Items
    <3>3. \A u \in DOMAIN p : p[u].key = p[t].key => u = t
      BY <1>5, <1>6, <3>1, <3>2 DEF Chained
    <3>4. PICK h \in Tries(n) : /\ Slot(m[t].key, h, n) = t
                                /\ \A g \in 0..(h - 1) : m[Slot(m[t].key, g, n)] # EmptyItem
      BY <3>1 DEF Chained
    <3>5. \A g \in 0..(h - 1) : p[Slot(m[t].key, g, n)] # EmptyItem
      <4> SUFFICES ASSUME NEW g \in 0..(h - 1) PROVE p[Slot(m[t].key, g, n)] # EmptyItem
        OBVIOUS
      <4>1. h \in Nat /\ h < n
        BY DEF Tries
      <4>2. g \in Nat /\ g < n
        BY <4>1
      <4>3. Slot(m[t].key, g, n) \in DOMAIN m
        BY <1>0, <3>2, <4>2, SlotTyped
      <4> QED
        BY <2>1, <3>4, <4>3
    <3> QED
      BY <3>1, <3>3, <3>4, <3>5
  <2> QED
    BY <2>2, <2>3
<1>9. Entries(p) = {d \in Entries(m) : d.key # k} \cup {e}
  <2>1. ASSUME NEW d \in Entries(p) PROVE d = e \/ (d \in Entries(m) /\ d.key # k)
    <3>1. PICK t \in DOMAIN m : d = p[t] /\ d # EmptyItem
      BY <1>6 DEF Entries
    <3> QED
      BY <1>6, <1>7, <3>1 DEF Entries
  <2>2. ASSUME NEW d \in Entries(m), d.key # k PROVE d \in Entries(p)
    <3>1. PICK t \in DOMAIN m : d = m[t] /\ d # EmptyItem
      BY DEF Entries
    <3>2. t # s
      BY <1>3, <2>2, <3>1
    <3> QED
      BY <1>6, <3>1, <3>2 DEF Entries
  <2>3. e \in Entries(p)
    BY <1>3, <1>5, <1>6 DEF Entries
  <2> QED
    BY <2>1, <2>2, <2>3
<1> QED
  BY <1>2, <1>6, <1>8, <1>9 DEF e

-----------------------------------------------------------------------------
(* The state.  TypeOK and ProbesReach are not inductive: while a grow is     *)
(* under way, the new slots hold just what has been moved of the old ones.   *)

Moved == {old[s] : s \in {t \in DOMAIN old : t < j}} \ {EmptyItem}

MapInv ==
  /\ TypeOK
  /\ ProbesReach
  /\ pc # "grow" => attempt = 0
  /\ pc \in {"insert", "grow"} => arg # EmptyItem
  /\ pc = "grow" => /\ Unique(old)
                    /\ \A s \in DOMAIN old, t \in Nat : t <= s => t \in DOMAIN old
                    /\ Entries(map) = Moved

LEMMA EmptyTable ==
  ASSUME NEW n \in Nat
  PROVE  /\ Slots(n) \in Table(n) /\ Chained(Slots(n), n) /\ Entries(Slots(n)) = {}
         /\ \A s \in DOMAIN Slots(n) : Slots(n)[s] = EmptyItem
<1>1. DOMAIN Slots(n) = 0..(n - 1) /\ \A s \in 0..(n - 1) : Slots(n)[s] = EmptyItem
  BY DEF Slots
<1>2. Slots(n) \in Table(n)
  BY DEF Slots, Table, Item
<1> QED
  BY <1>1, <1>2 DEF Chained, Entries

LEMMA DoubledTyped == size \in Nat => Doubled \in 0..(Word - 1) /\ Doubled \in Nat
<1>1. Word \in Nat \ {0}
  BY BoundsAssumption
<1> QED
  BY <1>1 DEF Doubled

LEMMA MapInit == Init => MapInv
<1> SUFFICES ASSUME Init PROVE MapInv
  OBVIOUS
<1>1. size = 1 /\ map = Slots(1) /\ 1 \in 0..(Word - 1)
  BY BoundsAssumption DEF Init
<1>2. map \in Table(size) /\ Chained(map, size)
  BY <1>1, EmptyTable
<1>3. NoMap \in [{} -> Item] /\ DOMAIN NoMap = {}
  BY DEF NoMap
<1> QED
  BY <1>1, <1>2, <1>3, BoundsAssumption
     DEF Init, MapInv, TypeOK, Table, ProbesReach, Item

LEMMA MapStep == MapInv /\ [Next]_vars => MapInv'
<1> SUFFICES ASSUME MapInv, [Next]_vars PROVE MapInv'
  OBVIOUS
<1>0. /\ TypeOK /\ Chained(map, size) /\ size \in Nat /\ map \in Table(size)
      /\ DOMAIN map = 0..(size - 1)
      /\ pc # "grow" => attempt = 0
      /\ pc \in {"insert", "grow"} => arg \in Item /\ arg # EmptyItem
      /\ Attempts \in Nat \ {0} /\ Word \in Nat
  BY BoundsAssumption DEF MapInv, TypeOK, ProbesReach, Table
<1> USE DEF Table
<1>1. ASSUME NEW k \in Keys, NEW c \in Cards, Set(k, c) PROVE MapInv'
  <2>1. arg' \in Item /\ arg' # EmptyItem
    BY <1>1, Items DEF Set
  <2> QED
    BY <1>0, <1>1, <2>1 DEF Set, MapInv, TypeOK, ProbesReach
<1>2. CASE Insert
  <2>1. /\ arg.key \in Keys /\ arg.card \in Cards
        /\ map' = TryInsert(map, arg.key, arg.card, size) /\ Fits(map, arg.key, size)
        /\ size' = size /\ pc' = "idle"
    BY <1>0, <1>2, Items DEF Insert
  <2>2. map' \in Table(size) /\ Chained(map', size)
    BY <1>0, <2>1, InsertOne
  <2> QED
    BY <1>0, <1>2, <2>1, <2>2 DEF Insert, MapInv, TypeOK, ProbesReach
<1>3. ASSUME Resize PROVE /\ size' \in 0..(Word - 1) /\ size' \in Nat
                          /\ map' \in Table(size') /\ Chained(map', size')
                          /\ Entries(map') = {}
  BY <1>0, <1>3, DoubledTyped, EmptyTable DEF Resize
<1>4. CASE Grow
  <2>1. /\ Resize /\ old' = map /\ j' = 0 /\ pc = "insert" /\ pc' = "grow"
        /\ attempt' = 1 /\ UNCHANGED <<arg, result>>
    BY <1>0, <1>4 DEF Grow, Resize
  <2>2. Moved' = {}
    BY <1>0, <2>1 DEF Moved
  <2>3. Unique(old') /\ \A s \in DOMAIN old', t \in Nat : t <= s => t \in DOMAIN old'
    BY <1>0, <2>1, ChainedIsUnique
  <2>4. DOMAIN old' \subseteq 0..(Word - 1) /\ old' \in [DOMAIN old' -> Item]
    BY <1>0, <2>1 DEF TypeOK
  <2>5. attempt' \in 0..Attempts
    BY <1>0, <2>1
  <2> QED
    BY <1>0, <1>3, <2>1, <2>2, <2>3, <2>4, <2>5 DEF MapInv, TypeOK, ProbesReach
<1>5. CASE Abort
  BY <1>0, <1>5 DEF Abort, MapInv, TypeOK, ProbesReach
<1>6. CASE Move
  <2>0. /\ pc = "grow" /\ j \in DOMAIN old /\ j \in Nat /\ DOMAIN old \subseteq Nat
        /\ j' = j + 1 /\ UNCHANGED <<size, old, attempt, arg, pc, result>>
        /\ Unique(old) /\ Entries(map) = Moved
        /\ \A s \in DOMAIN old : old[s] \in Item
    BY <1>6 DEF Move, MapInv, TypeOK
  <2>1. Moved' = (Moved \cup {old[j]}) \ {EmptyItem}
    <3>1. {t \in DOMAIN old : t < j + 1} = {t \in DOMAIN old : t < j} \cup {j}
      BY <2>0
    <3> QED
      BY <2>0, <3>1 DEF Moved
  <2>2. CASE old[j] = EmptyItem
    <3>1. map' = map
      BY <1>6, <2>2 DEF Move
    <3>2. Entries(map') = Moved'
      BY <2>0, <2>1, <2>2, <3>1 DEF Moved
    <3> QED
      BY <1>0, <2>0, <3>1, <3>2 DEF MapInv, TypeOK, ProbesReach
  <2>3. CASE old[j] # EmptyItem
    <3>1. /\ Fits(map, old[j].key, size)
          /\ map' = TryInsert(map, old[j].key, old[j].card, size)
          /\ old[j].key \in Keys /\ old[j].card \in Cards
          /\ old[j] = [key |-> old[j].key, card |-> old[j].card]
      BY <1>6, <2>0, <2>3, Items DEF Move
    <3>2. /\ map' \in Table(size) /\ Chained(map', size)
          /\ Entries(map') = {e \in Moved : e.key # old[j].key} \cup {old[j]}
      <4> DEFINE k == old[j].key
                 c == old[j].card
      <4>1. k \in Keys /\ c \in Cards /\ Fits(map, k, size) /\ map' = TryInsert(map, k, c, size)
        BY <3>1
      <4> HIDE DEF k, c
      <4>2. /\ map' \in Table(size) /\ Chained(map', size)
            /\ Entries(map') = {e \in Entries(map) : e.key # k} \cup {[key |-> k, card |-> c]}
        BY <1>0, <4>1, InsertOne
      <4> QED
        BY <2>0, <3>1, <4>2 DEF k, c
    <3>3. \A e \in Moved : e.key # old[j].key
      <4> SUFFICES ASSUME NEW t \in DOMAIN old, t < j, old[t] # EmptyItem
                   PROVE  old[t].key # old[j].key
        BY DEF Moved
      <4> QED
        BY <2>0, <2>3 DEF Unique
    <3>4. Entries(map') = Moved'
      BY <2>1, <2>3, <3>2, <3>3 DEF Moved
    <3> QED
      BY <1>0, <2>0, <3>2, <3>4 DEF MapInv, TypeOK, ProbesReach
  <2> QED
    BY <2>2, <2>3
<1>7. CASE NextAttempt
  <2>1. /\ Resize /\ j' = 0 /\ pc = "grow" /\ attempt < Attempts /\ attempt' = attempt + 1
        /\ UNCHANGED <<old, arg, pc, result>>
    BY <1>7 DEF NextAttempt, Resize, Restart, AnotherAttempt, Stuck
  <2>2. DOMAIN old \subseteq Nat /\ attempt' \in 0..Attempts
    BY <1>0, <2>1 DEF TypeOK
  <2>3. Moved' = {}
    BY <2>1, <2>2 DEF Moved
  <2> QED
    BY <1>0, <1>3, <2>1, <2>2, <2>3 DEF MapInv, TypeOK, ProbesReach
<1>8. ASSUME old' = NoMap, j' = 0, attempt' = 0, pc' \in {"idle", "insert"},
             UNCHANGED <<size, map, arg>>, result' \in {"OK", "INTERNAL_ERROR"},
             pc' = "insert" => arg # EmptyItem
      PROVE  MapInv'
  <2>1. DOMAIN old' \subseteq 0..(Word - 1) /\ old' \in [DOMAIN old' -> Item]
    BY <1>8 DEF NoMap
  <2> QED
    BY <1>0, <1>8, <2>1 DEF MapInv, TypeOK, ProbesReach
<1>9. CASE GiveUp
  BY <1>8, <1>9 DEF GiveUp
<1>10. CASE Grown
  BY <1>0, <1>8, <1>10 DEF Grown, TypeOK
<1>11. CASE Clear
  <2>1. map' \in Table(size) /\ Chained(map', size)
    BY <1>0, <1>11, EmptyTable DEF Clear
  <2> QED
    BY <1>0, <1>11, <2>1 DEF Clear, MapInv, TypeOK, ProbesReach
<1>12. CASE UNCHANGED vars
  BY <1>12 DEF vars, MapInv, TypeOK, ProbesReach, Moved
<1> QED
  BY <1>1, <1>2, <1>4, <1>5, <1>6, <1>7, <1>9, <1>10, <1>11, <1>12 DEF Next, Step

\* Every variable has its type and the slots are as many as size says, also
\* when doubling overflows (sfc_card_map_uint32.c:161).
THEOREM TypesHold == Spec => []TypeOK
<1>1. MapInv => TypeOK
  BY DEF MapInv
<1> QED
  BY <1>1, MapInit, MapStep, PTL DEF Spec

\* Whatever the hash: every entry is where both a lookup and an insert with its
\* key find it, at every step of a grow (sfc_card_map_uint32.c:23).
THEOREM ProbesHold == Spec => []ProbesReach
<1>1. MapInv => ProbesReach
  BY DEF MapInv
<1> QED
  BY <1>1, MapInit, MapStep, PTL DEF Spec

-----------------------------------------------------------------------------
(* The table is a map from keys to cards: a set that has to grow changes     *)
(* what is found in its last step, and one that gives up loses entries and   *)
(* changes none.                                                             *)

Contents == IF pc = "grow" THEN old ELSE map

LEMMA LookupIsFound ==
  MapInv => Lookup = [k \in Keys |-> Found(Contents, k)]
<1> SUFFICES ASSUME MapInv PROVE Lookup = [k \in Keys |-> Found(Contents, k)]
  OBVIOUS
<1>1. size \in Nat /\ map \in Table(size) /\ Chained(map, size)
  BY BoundsAssumption DEF MapInv, TypeOK, ProbesReach, Table
<1>2. CASE pc = "grow"
  BY <1>2 DEF Lookup, Contents
<1>3. CASE pc # "grow"
  BY <1>1, <1>3, GetIsFound DEF Lookup, Contents
<1> QED
  BY <1>2, <1>3

LEMMA ContentsTyped ==
  ASSUME MapInv
  PROVE  /\ Unique(Contents) /\ Contents \in [DOMAIN Contents -> Item]
         /\ size \in Nat /\ map \in Table(size) /\ Chained(map, size) /\ Unique(map)
         /\ map \in [DOMAIN map -> Item]
<1>1. size \in Nat /\ map \in Table(size) /\ Chained(map, size) /\ map \in [DOMAIN map -> Item]
  BY BoundsAssumption DEF MapInv, TypeOK, ProbesReach, Table
<1>2. Unique(map)
  BY <1>1, ChainedIsUnique
<1> QED
  BY <1>1, <1>2 DEF MapInv, TypeOK, Contents

\* Two tables with the same entries are the same map.
LEMMA SameEntries ==
  ASSUME NEW m, NEW p, m \in [DOMAIN m -> Item], p \in [DOMAIN p -> Item],
         Unique(m), Unique(p), Entries(m) = Entries(p), NEW k \in Keys
  PROVE  Found(m, k) = Found(p, k)
  BY FoundIsEntry

\* When all is moved, the new slots hold what the old ones did.
LEMMA AllMoved ==
  ASSUME MapInv, pc = "grow", j \notin DOMAIN old
  PROVE  Entries(map) = Entries(old)
<1>1. \A s \in DOMAIN old : s < j
  <2> SUFFICES ASSUME NEW s \in DOMAIN old, ~(s < j) PROVE FALSE
    OBVIOUS
  <2>1. s \in Nat /\ j \in Nat /\ j <= s
    BY DEF MapInv, TypeOK
  <2> QED
    BY <2>1 DEF MapInv
<1>2. {t \in DOMAIN old : t < j} = DOMAIN old
  BY <1>1
<1> QED
  BY <1>2 DEF MapInv, Moved, Entries

LEMMA InsertIsSet ==
  ASSUME MapInv, Insert
  PROVE  [k \in Keys |-> Found(map', k)] = [Lookup EXCEPT ![arg.key] = arg.card]
<1> DEFINE a == arg.key
           c == arg.card
<1>1. /\ a \in Keys /\ c \in Cards /\ pc = "insert"
      /\ map' = TryInsert(map, a, c, size) /\ Fits(map, a, size)
  <2>1. arg \in Item /\ arg # EmptyItem
    BY DEF Insert, MapInv, TypeOK
  <2> QED
    BY <2>1, Items DEF Insert
<1> HIDE DEF a, c
<1>2. Lookup = [k \in Keys |-> Found(map, k)]
  BY <1>1, LookupIsFound DEF Contents
<1>3. /\ map' \in Table(size) /\ Chained(map', size)
      /\ Entries(map') = {e \in Entries(map) : e.key # a} \cup {[key |-> a, card |-> c]}
  BY <1>1, ContentsTyped, InsertOne
<1>4. map' \in [DOMAIN map' -> Item] /\ Unique(map')
  BY <1>3, ChainedIsUnique DEF Table
<1>5. Found(map', a) = c
  BY <1>1, <1>3, <1>4, FoundIsEntry
<1>6. ASSUME NEW k \in Keys, k # a PROVE Found(map', k) = Found(map, k)
  <2>1. \A d \in Cards : [key |-> k, card |-> d] \in Entries(map')
                         <=> [key |-> k, card |-> d] \in Entries(map)
    BY <1>3, <1>6
  <2>2. \A d \in Cards : Found(map', k) = d <=> Found(map, k) = d
    BY <1>4, <2>1, ContentsTyped, FoundIsEntry
  <2>3. Found(map', k) \in Cards \cup {NoCard} /\ Found(map, k) \in Cards \cup {NoCard}
    BY <1>4, ContentsTyped, FoundIsEntry
  <2> QED
    BY <2>2, <2>3
<1>7. [k \in Keys |-> Found(map', k)] = [Lookup EXCEPT ![a] = c]
  BY <1>1, <1>2, <1>5, <1>6
<1> QED
  BY <1>7 DEF a, c

LEMMA TableStep ==
  ASSUME MapInv, MapInv', [Next]_vars
  PROVE  [Function!Next]_<<Lookup, result>>
<1> DEFINE L  == [k \in Keys |-> Found(Contents, k)]
           LN == [k \in Keys |-> Found(Contents', k)]
<1>1. Lookup = L
  BY LookupIsFound
<1>2. Lookup' = LN
  <2>1. (MapInv => Lookup = [k \in Keys |-> Found(Contents, k)])'
    BY LookupIsFound, PTL
  <2> QED
    BY <2>1
<1>3. ASSUME Contents' = Contents, result' = result PROVE UNCHANGED <<Lookup, result>>
  BY <1>1, <1>2, <1>3
<1>4. ASSUME NEW k \in Keys, NEW c \in Cards, Set(k, c) PROVE UNCHANGED <<Lookup, result>>
  BY <1>3, <1>4 DEF Set, Contents
<1>5. CASE Abort \/ Move \/ NextAttempt \/ UNCHANGED vars
  <2>1. Contents' = Contents /\ result' = result
    BY <1>5 DEF Abort, Move, NextAttempt, Stuck, vars, Contents
  <2> QED
    BY <1>3, <2>1
<1>6. CASE Grow
  <2>1. Contents' = Contents /\ result' = result
    BY <1>6 DEF Grow, Contents
  <2> QED
    BY <1>3, <2>1
<1>7. CASE Insert
  <2>1. Contents' = map' /\ result' = "OK"
    BY <1>7 DEF Insert, Contents
  <2>2. Lookup' = [Lookup EXCEPT ![arg.key] = arg.card]
    BY <1>2, <1>7, <2>1, InsertIsSet
  <2>3. arg.key \in Keys /\ arg.card \in Cards
    <3>1. arg \in Item /\ arg # EmptyItem
      BY <1>7 DEF Insert, MapInv, TypeOK
    <3> QED
      BY <3>1, Items
  <2>4. Function!Set
    BY <2>1, <2>2, <2>3 DEF Function!Set
  <2> QED
    BY <2>4 DEF Function!Next
<1>8. CASE Grown
  <2>1. pc = "grow" /\ j \notin DOMAIN old /\ Contents = old /\ Contents' = map
    BY <1>8 DEF Grown, Contents
  <2>2. \A k \in Keys : Found(map, k) = Found(old, k)
    BY <2>1, ContentsTyped, AllMoved, SameEntries
  <2>3. LN = L
    BY <2>1, <2>2
  <2>4. result' = result
    BY <1>8 DEF Grown
  <2> HIDE DEF L, LN
  <2> QED
    BY <1>1, <1>2, <2>3, <2>4
<1>9. CASE GiveUp
  <2>1. /\ pc = "grow" /\ Contents = old /\ Contents' = map /\ result' = "INTERNAL_ERROR"
        /\ Entries(map) \subseteq Entries(old)
    BY <1>9 DEF GiveUp, Stuck, Contents, MapInv, Moved, Entries
  <2>2. ASSUME NEW k \in Keys
        PROVE  /\ Found(map, k) \in {Found(old, k), NoCard}
               /\ Found(map, k) \in Cards \cup {NoCard}
    <3>1. Found(map, k) \in Cards \cup {NoCard}
      BY ContentsTyped, FoundIsEntry
    <3>2. \A d \in Cards : Found(map, k) = d => [key |-> k, card |-> d] \in Entries(old)
      BY <2>1, ContentsTyped, FoundIsEntry
    <3>3. \A d \in Cards : Found(map, k) = d => Found(old, k) = d
      BY <2>1, <3>2, ContentsTyped, FoundIsEntry
    <3> QED
      BY <3>1, <3>3
  <2>3. \A k \in Keys : Lookup'[k] = Found(map, k) /\ Lookup[k] = Found(old, k)
    BY <1>1, <1>2, <2>1
  <2>4. Lookup' = [k \in Keys |-> Found(map, k)]
    BY <1>2, <2>1
  <2>5. Lookup' \in [Keys -> Cards \cup {NoCard}]
    BY <2>2, <2>4
  <2>6. Function!SetFails
    BY <2>1, <2>2, <2>3, <2>5 DEF Function!SetFails
  <2> QED
    BY <2>6 DEF Function!Next
<1>10. CASE Clear
  <2>1. Contents' = Slots(size) /\ result' = result /\ size \in Nat
    BY <1>10, ContentsTyped DEF Clear, Contents
  <2>2. \A k \in Keys : Found(Slots(size), k) = NoCard
    BY <2>1, EmptyTable, Items DEF Found
  <2>3. Lookup' = [k \in Keys |-> NoCard]
    BY <1>2, <2>1, <2>2
  <2>4. Function!Clear
    BY <2>1, <2>3 DEF Function!Clear
  <2> QED
    BY <2>4 DEF Function!Next
<1> QED
  BY <1>4, <1>5, <1>6, <1>7, <1>8, <1>9, <1>10 DEF Next, Step

LEMMA TableInit == Init => Function!Init
<1> SUFFICES ASSUME Init PROVE Function!Init
  OBVIOUS
<1>1. Contents = Slots(1) /\ Lookup = [k \in Keys |-> Found(Contents, k)]
  BY MapInit, LookupIsFound DEF Init, Contents
<1>2. \A k \in Keys : Found(Slots(1), k) = NoCard
  BY EmptyTable, Items DEF Found
<1>3. Lookup = [k \in Keys |-> NoCard]
  BY <1>1, <1>2
<1> QED
  BY <1>3 DEF Init, Function!Init

\* The table is the map from cardmarket ids that SfcCache has: a set takes effect
\* in one step or fails, and a grow in between loses and changes nothing
\* (sfc_card_map_uint32.c:156).
THEOREM TableIsIdMap == Spec => IsIdMap
<1>1. MapInv /\ MapInv' /\ [Next]_vars => [Function!Next]_<<Lookup, result>>
  BY TableStep
<1> QED
  BY <1>1, TableInit, MapInit, MapStep, PTL DEF Spec, IsIdMap, Function!Spec

-----------------------------------------------------------------------------
(* A table without slots: every grow of it succeeds and changes nothing.     *)

Hung == size = 0 /\ pc \in {"insert", "grow"} /\ (pc = "grow" => DOMAIN old = {})

LEMMA HungStays ==
  ASSUME TypeOK, Hung, [Next]_vars
  PROVE  Hung'
<1>1. size = 0 /\ DOMAIN map = {} /\ \A k : ~Fits(map, k, size)
  <2>1. size = 0 /\ map \in [0..(size - 1) -> Item]
    BY DEF Hung, TypeOK
  <2>2. 0..(size - 1) = {} /\ \A i \in 0..(MaxProbes - 1) : ~(i < size)
    BY <2>1, BoundsAssumption
  <2>3. DOMAIN map = {}
    BY <2>1, <2>2
  <2>4. Tries(size) = {}
    BY <2>2 DEF Tries
  <2> QED
    BY <2>1, <2>3, <2>4 DEF Fits, OpenAt
<1>2. Doubled = 0
  BY <1>1, BoundsAssumption DEF Doubled
<1>3. CASE Grow
  BY <1>1, <1>2, <1>3 DEF Grow, Resize, Hung
<1>4. ~Abort
  <2> DEFINE limit == (Word - 1) \div 2
  <2>1. limit \in Nat /\ limit >= 1
    BY BoundsAssumption
  <2> HIDE DEF limit
  <2>2. ~(size >= limit)
    BY <1>1, <2>1
  <2> QED
    BY <2>2 DEF Abort, limit
<1>5. ~Move /\ ~Stuck
  BY DEF Move, Stuck, Hung
<1>6. CASE Grown
  BY <1>6 DEF Grown, Hung
<1>7. ~Insert /\ ~Clear /\ \A k \in Keys, c \in Cards : ~Set(k, c)
  BY <1>1 DEF Insert, Clear, Set, Hung
<1>8. CASE UNCHANGED vars
  BY <1>8 DEF vars, Hung
<1> QED
  BY <1>3, <1>4, <1>5, <1>6, <1>7, <1>8 DEF Next, Step, NextAttempt, GiveUp

\* Once a grow has given up with a size that wrapped to 0, no set returns any
\* more, for any hash and bounds (sfc_card_map_uint32.c:113, 161, 165).
THEOREM SetsHang == Spec => NoSlotsNoEnd
<1>1. size = 0 /\ pc = "insert" => Hung
  BY DEF Hung
<1>2. TypeOK /\ Hung /\ [Next]_vars => Hung'
  BY HungStays
<1>3. Hung => pc \in {"insert", "grow"}
  BY DEF Hung
<1> QED
  BY <1>1, <1>2, <1>3, TypesHold, PTL DEF Spec, NoSlotsNoEnd
=============================================================================
