------------------------------ MODULE CardMap ------------------------------
(***************************************************************************)
(* sfc_card_map_uint32.c: a hash table with linear probing that gives up   *)
(* after MaxProbes slots and then grows, which may itself give up.  The    *)
(* loops of set and grow are steps here; nothing else runs between them.   *)
(***************************************************************************)
EXTENDS Naturals

CONSTANTS
  Keys,       \* map keys, never 0
  Cards, NoCard,
  Hash(_),    \* sfc_card_map_uint32_hash
  MaxProbes,  \* slots an insert tries; 52 in the code
  Attempts,   \* doublings one grow tries; 10 in the code
  Word        \* 2^32 in the code

ASSUME KeysAssumption   == Keys \subseteq Nat \ {0}
ASSUME NoCardAssumption == NoCard \notin Cards
ASSUME BoundsAssumption == MaxProbes \in Nat \ {0} /\ Attempts \in Nat \ {0} /\ Word \in Nat \ 0..2
ASSUME HashAssumption   == \A k \in Keys : Hash(k) \in 0..(Word - 1)

VARIABLES
  size,     \* number of slots
  map,      \* the slots
  old,      \* the slots before the grow under way
  j,        \* the next of them to move
  attempt,  \* which doubling this is
  arg,      \* key and card of the set under way
  pc,       \* "idle", "insert", "grow", or "aborted" by an assertion
  result    \* of the last set

vars == <<size, map, old, j, attempt, arg, pc, result>>

-----------------------------------------------------------------------------
EmptyItem == [key |-> 0, card |-> NoCard]
Item      == [key: Keys, card: Cards] \cup {EmptyItem}
NoMap     == [i \in {} |-> EmptyItem]
Slots(n)  == [i \in 0..(n - 1) |-> EmptyItem]

First(S) == CHOOSE i \in S : \A h \in S : i <= h

\* The i-th slot that is tried for key k in n slots.
Slot(k, i, n) == ((Hash(k) + i) % Word) % n

\* An insert takes the first slot that is empty or has its key already.
\* (Mutant: only an empty one.)
OpenIfEmpty(m, k, s) == m[s].card = NoCard
Open(m, k, s)        == m[s].card = NoCard \/ m[s].key = k

Tries(n)      == {i \in 0..(MaxProbes - 1) : i < n}
OpenAt(m, k, n) == {i \in Tries(n) : Open(m, k, Slot(k, i, n))}
Fits(m, k, n) == OpenAt(m, k, n) # {}

TryInsert(m, k, c, n) ==
  [m EXCEPT ![Slot(k, First(OpenAt(m, k, n)), n)] = [key |-> k, card |-> c]]

\* sfc_card_map_uint32_get looks at every slot, in probing order.
FoundAt(m, k, n) == {i \in 0..(n - 1) : m[Slot(k, i, n)].key = k}
Get(m, k, n) ==
  IF FoundAt(m, k, n) = {} THEN NoCard
  ELSE m[Slot(k, First(FoundAt(m, k, n)), n)].card

-----------------------------------------------------------------------------
\* sfc_card_map_uint32_create with init_size 1, as the cache calls it.
Init ==
  /\ size = 1
  /\ map = Slots(1)
  /\ old = NoMap
  /\ j = 0
  /\ attempt = 0
  /\ arg = EmptyItem
  /\ pc = "idle"
  /\ result = "OK"

Set(k, c) ==
  /\ pc = "idle"
  /\ arg' = [key |-> k, card |-> c]
  /\ pc' = "insert"
  /\ UNCHANGED <<size, map, old, j, attempt, result>>

Insert ==
  /\ pc = "insert"
  /\ Fits(map, arg.key, size)
  /\ map' = TryInsert(map, arg.key, arg.card, size)
  /\ pc' = "idle"
  /\ result' = "OK"
  /\ UNCHANGED <<size, old, j, attempt, arg>>

\* (Mutant: the size stays.)
DoubledNot == size
Doubled    == (2 * size) % Word

Resize ==
  /\ size' = Doubled
  /\ map' = Slots(Doubled)
  /\ attempt' = attempt + 1

\* Insert found no slot: sfc_card_map_uint32_grow begins.
Grow ==
  /\ pc = "insert"
  /\ ~Fits(map, arg.key, size)
  /\ size < (Word - 1) \div 2
  /\ Resize
  /\ old' = map
  /\ j' = 0
  /\ pc' = "grow"
  /\ UNCHANGED <<arg, result>>

\* assert(old_size < UINT32_MAX / 2)
Abort ==
  /\ pc = "insert"
  /\ ~Fits(map, arg.key, size)
  /\ size >= (Word - 1) \div 2
  /\ pc' = "aborted"
  /\ UNCHANGED <<size, map, old, j, attempt, arg, result>>

\* The entry at j is moved, or there is none.
Move ==
  /\ pc = "grow" /\ j \in DOMAIN old
  /\ \/ old[j] = EmptyItem /\ UNCHANGED map
     \/ /\ old[j] # EmptyItem /\ Fits(map, old[j].key, size)
        /\ map' = TryInsert(map, old[j].key, old[j].card, size)
  /\ j' = j + 1
  /\ UNCHANGED <<size, old, attempt, arg, pc, result>>

\* An entry does not fit: all of them again, into twice the slots.
Stuck == pc = "grow" /\ j \in DOMAIN old /\ old[j] # EmptyItem /\ ~Fits(map, old[j].key, size)

\* (Mutant: those already moved are not moved again.)
RestartHere == j
Restart     == 0

\* (Mutant: one attempt too many.)
AnotherAttemptLate == attempt <= Attempts
AnotherAttempt     == attempt < Attempts

NextAttempt ==
  /\ Stuck
  /\ AnotherAttempt
  /\ Resize
  /\ j' = Restart
  /\ UNCHANGED <<old, arg, pc, result>>

\* The last attempt failed.  The old slots are freed; the new ones, with the
\* entries moved so far, stay.
GiveUp ==
  /\ Stuck
  /\ ~AnotherAttempt
  /\ old' = NoMap
  /\ j' = 0
  /\ attempt' = 0
  /\ pc' = "idle"
  /\ result' = "INTERNAL_ERROR"
  /\ UNCHANGED <<size, map, arg>>

\* The set tries again.  (Mutant: it takes the growing for success.)
GrownIsDone ==
  /\ pc = "grow"
  /\ j \notin DOMAIN old
  /\ old' = NoMap
  /\ j' = 0
  /\ attempt' = 0
  /\ pc' = "idle"
  /\ UNCHANGED <<size, map, arg, result>>

Grown ==
  /\ pc = "grow"
  /\ j \notin DOMAIN old
  /\ old' = NoMap
  /\ j' = 0
  /\ attempt' = 0
  /\ pc' = "insert"
  /\ UNCHANGED <<size, map, arg, result>>

Clear ==
  /\ pc = "idle"
  /\ map' = Slots(size)
  /\ UNCHANGED <<size, old, j, attempt, arg, pc, result>>

Step == Insert \/ Grow \/ Abort \/ Move \/ NextAttempt \/ GiveUp \/ Grown

Next == Clear \/ Step \/ \E k \in Keys, c \in Cards : Set(k, c)

Spec == Init /\ [][Next]_vars

\* A call runs to its end.
FairSpec == Spec /\ WF_vars(Step)

-----------------------------------------------------------------------------
(* Properties. *)

\* Every variable has its type, and the slots are as many as size says.
TypeOK ==
  /\ size \in 0..(Word - 1)
  /\ map \in [0..(size - 1) -> Item]
  /\ DOMAIN old \subseteq 0..(Word - 1)
  /\ old \in [DOMAIN old -> Item]
  /\ j \in Nat
  /\ attempt \in 0..Attempts
  /\ arg \in Item
  /\ pc \in {"idle", "insert", "grow", "aborted"}
  /\ result \in {"OK", "INTERNAL_ERROR"}

\* What makes a lookup and an insert agree: every entry is in one slot, within
\* MaxProbes of where its hash puts it, and no slot before it in probing order
\* is empty, so that an insert with its key finds it first.
Chained(m, n) ==
  \A s \in DOMAIN m : m[s] # EmptyItem =>
    /\ \A t \in DOMAIN m : m[t].key = m[s].key => t = s
    /\ \E i \in Tries(n) :
         /\ Slot(m[s].key, i, n) = s
         /\ \A h \in 0..(i - 1) : m[Slot(m[s].key, h, n)] # EmptyItem

ProbesReach == Chained(map, size)

\* What is found under a key where the entries are, in whatever order it looks.
Found(m, k) ==
  IF \E s \in DOMAIN m : m[s].key = k
  THEN m[CHOOSE s \in DOMAIN m : m[s].key = k].card ELSE NoCard

Lookup == [k \in Keys |-> IF pc = "grow" THEN Found(old, k) ELSE Get(map, k, size)]

\* The table is the map IdMap, which SfcCache has as idMap, at every step: while
\* a grow is under way the old slots are what was promised.
Function == INSTANCE IdMap WITH lookup <- Lookup
IsIdMap == Function!Spec

\* A set ends: it returns, or the table has grown to the assertion of
\* sfc_card_map_uint32_grow.  A table without slots is the exception.
SetEnds == pc = "insert" /\ size # 0 ~> pc \in {"idle", "aborted"}

\* A grow that gives up may leave a table without slots: only its first doubling
\* is within the assertion, and a later one wraps to 0.  From then on 0 passes the
\* assertion, doubles to 0 and has nothing to move, so that every grow succeeds,
\* and a set tries again for ever (sfc_card_map_uint32.c:113, 161, 165).
NoSlotsNoEnd == [](size = 0 /\ pc = "insert" => [](pc \in {"insert", "grow"}))
=============================================================================
