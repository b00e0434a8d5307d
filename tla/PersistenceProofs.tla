------------------------- MODULE PersistenceProofs -------------------------
(***************************************************************************)
(* Proofs about Persistence, for every value of its constants: types, the  *)
(* full sets across saves, crashes and loads, and that a save is atomic.   *)
(***************************************************************************)
EXTENDS Persistence, SequenceTheorems, TLAPS

-----------------------------------------------------------------------------
(* Files.  What a save has written so far is the beginning of its cache's    *)
(* image, and a crash leaves a beginning of that.                            *)

\* The caches there are: none lists a card twice.
Proper == {c \in Cache : IsInjective(c.cards)}

Record == {Header(c) : c \in Cache} \cup {Card(c) : c \in Cards}

\* File f holds the first n records of the image of c; how many does not matter.
Holds(f, c, n) == n \in 0..Len(Image(c)) /\ f = File(SubSeq(Image(c), 1, n))
Begun(f, c)    == \E n \in Nat : Holds(f, c, n)
Partial(f)     == f \in {NoFile, OldFile} \/ \E c \in Proper : Begun(f, c)

LEMMA CacheFields ==
  ASSUME NEW c \in Cache
  PROVE  /\ c.cards \in Seq(Cards) /\ c.full \subseteq Sets /\ c.bad \subseteq Urls
         /\ c = [cards |-> c.cards, full |-> c.full, bad |-> c.bad]
  BY DEF Cache

LEMMA ImageRecords ==
  ASSUME NEW c \in Cache
  PROVE  /\ Image(c) \in Seq(Record) /\ Len(Image(c)) = Len(c.cards) + 1
         /\ Len(c.cards) \in Nat
         /\ Image(c)[1] = Header(c)
         /\ \A i \in 1..Len(c.cards) : Image(c)[i + 1] = Card(c.cards[i])
<1> DEFINE head == <<Header(c)>>
           rest == [i \in DOMAIN c.cards |-> Card(c.cards[i])]
<1>1. c.cards \in Seq(Cards) /\ DOMAIN c.cards = 1..Len(c.cards) /\ Len(c.cards) \in Nat
  BY CacheFields
<1>2. \A i \in 1..Len(c.cards) : Card(c.cards[i]) \in Record
  BY <1>1, ElementOfSeq DEF Record
<1>3. /\ rest \in Seq(Record) /\ Len(rest) = Len(c.cards)
      /\ \A i \in 1..Len(c.cards) : rest[i] = Card(c.cards[i])
  BY <1>1, <1>2
<1>4. head \in Seq(Record) /\ Len(head) = 1 /\ head[1] = Header(c)
  BY DEF Record
<1>5. Image(c) = head \o rest
  BY DEF Image
<1> HIDE DEF head, rest
<1>6. /\ Image(c) \in Seq(Record) /\ Len(Image(c)) = Len(c.cards) + 1
      /\ \A i \in 1..(Len(c.cards) + 1) : Image(c)[i] = IF i <= 1 THEN head[i] ELSE rest[i - 1]
  BY <1>1, <1>3, <1>4, <1>5, ConcatProperties
<1>7. Image(c)[1] = Header(c)
  BY <1>1, <1>4, <1>6
<1>8. ASSUME NEW i \in 1..Len(c.cards) PROVE Image(c)[i + 1] = Card(c.cards[i])
  BY <1>1, <1>3, <1>6
<1> QED
  BY <1>1, <1>6, <1>7, <1>8

\* The beginning of a sequence.
LEMMA Beginning ==
  ASSUME NEW S, NEW s \in Seq(S), NEW n \in 0..Len(s)
  PROVE  /\ SubSeq(s, 1, n) \in Seq(S) /\ Len(SubSeq(s, 1, n)) = n
         /\ \A i \in 1..n : SubSeq(s, 1, n)[i] = s[i]
         /\ \A m \in 0..n : SubSeq(SubSeq(s, 1, n), 1, m) = SubSeq(s, 1, m)
<1>1. /\ SubSeq(s, 1, n) \in Seq(S) /\ Len(SubSeq(s, 1, n)) = n
      /\ \A i \in 1..n : SubSeq(s, 1, n)[i] = s[i]
  OBVIOUS
<1>2. ASSUME NEW m \in 0..n PROVE SubSeq(SubSeq(s, 1, n), 1, m) = SubSeq(s, 1, m)
  <2> DEFINE t == SubSeq(s, 1, n)
  <2>1. t \in Seq(S) /\ Len(t) = n /\ \A i \in 1..n : t[i] = s[i]
    BY <1>1
  <2> HIDE DEF t
  <2>2. SubSeq(t, 1, m) \in Seq(S) /\ Len(SubSeq(t, 1, m)) = m
          /\ \A i \in 1..m : SubSeq(t, 1, m)[i] = s[i]
    BY <2>1
  <2>3. SubSeq(s, 1, m) \in Seq(S) /\ Len(SubSeq(s, 1, m)) = m
          /\ \A i \in 1..m : SubSeq(s, 1, m)[i] = s[i]
    OBVIOUS
  <2>4. SubSeq(t, 1, m) = SubSeq(s, 1, m)
    BY <2>2, <2>3, SeqEqual
  <2> QED
    BY <2>4 DEF t
<1> QED
  BY <1>1, <1>2

\* A file that holds a header and some cards loads as just these cards, one
\* without a header does not load.
LEMMA ContentOfBeginning ==
  ASSUME NEW c \in Cache, NEW f, NEW n, Holds(f, c, n)
  PROVE  /\ n = 0 => f = File(<<>>) /\ Content(f) = NoContent /\ ~Readable(f)
         /\ n > 0 => /\ Readable(f)
                     /\ Content(f) = [cards |-> SubSeq(c.cards, 1, n - 1), full |-> c.full,
                                      bad |-> c.bad]
<1>0. /\ Image(c) \in Seq(Record) /\ n \in 0..Len(Image(c)) /\ n \in Nat
      /\ Len(Image(c)) = Len(c.cards) + 1 /\ Len(c.cards) \in Nat
      /\ c.cards \in Seq(Cards)
  BY ImageRecords, CacheFields DEF Holds
<1> DEFINE r == SubSeq(Image(c), 1, n)
<1>1. f.recs = r /\ f = File(r)
  BY DEF Holds, File
<1>2. r \in Seq(Record) /\ Len(r) = n /\ \A i \in 1..n : r[i] = Image(c)[i]
  BY <1>0, Beginning
<1> HIDE DEF r
<1>3. CASE n = 0
  <2>1. r = <<>>
    BY <1>2, <1>3
  <2> QED
    BY <1>1, <1>3, <2>1 DEF Content, Readable
<1>4. CASE n > 0
  <2>1. r # <<>> /\ r[1] = Header(c)
    BY <1>0, <1>2, <1>4, ImageRecords
  <2>2. Readable(f)
    BY <1>1, <2>1 DEF Readable, Header
  <2>3. [i \in 1..(n - 1) |-> r[i + 1].card] = SubSeq(c.cards, 1, n - 1)
    <3> DEFINE s == SubSeq(c.cards, 1, n - 1)
    <3>1. s \in Seq(Cards) /\ Len(s) = n - 1 /\ \A i \in 1..(n - 1) : s[i] = c.cards[i]
      BY <1>0, <1>4, Beginning
    <3>2. ASSUME NEW i \in 1..(n - 1) PROVE r[i + 1].card = c.cards[i]
      <4>1. r[i + 1] = Card(c.cards[i])
        BY <1>0, <1>2, ImageRecords
      <4> QED
        BY <4>1 DEF Card
    <3> HIDE DEF s
    <3>3. [i \in 1..(n - 1) |-> r[i + 1].card] = s
      BY <3>1, <3>2
    <3> QED
      BY <3>3 DEF s
  <2>4. r[1].full = c.full /\ r[1].bad = c.bad
    BY <2>1 DEF Header
  <2>5. Content(f) = [cards |-> [i \in 1..(Len(r) - 1) |-> r[i + 1].card],
                      full |-> r[1].full, bad |-> r[1].bad]
    BY <1>1, <2>2 DEF Content
  <2>6. Content(f) = [cards |-> SubSeq(c.cards, 1, n - 1), full |-> c.full, bad |-> c.bad]
    BY <1>2, <2>3, <2>4, <2>5
  <2> QED
    BY <1>4, <2>2, <2>6
<1> QED
  BY <1>0, <1>3, <1>4

LEMMA ContentOfOther ==
  ASSUME NEW f \in {NoFile, OldFile}
  PROVE  /\ Content(f) = NoContent /\ ~Readable(f)
         /\ f = OldFile => f.exists /\ f.recs # <<>>
         /\ f = NoFile => ~f.exists /\ f.recs = <<>>
  BY DEF NoFile, OldFile, File, Content, Readable, Version

\* What a file that is there in part loads as, is a cache that could be.
LEMMA BeginningIsProper ==
  ASSUME NEW c \in Proper, NEW n \in 0..Len(c.cards)
  PROVE  [cards |-> SubSeq(c.cards, 1, n), full |-> c.full, bad |-> c.bad] \in Proper
<1>1. c \in Cache /\ c.cards \in Seq(Cards) /\ c.full \subseteq Sets /\ c.bad \subseteq Urls
      /\ IsInjective(c.cards)
  BY CacheFields DEF Proper
<1> DEFINE s == SubSeq(c.cards, 1, n)
<1>2. s \in Seq(Cards) /\ Len(s) = n /\ \A i \in 1..n : s[i] = c.cards[i]
  BY <1>1, Beginning
<1>3. DOMAIN s = 1..n /\ DOMAIN c.cards = 1..Len(c.cards) /\ Len(c.cards) \in Nat
  BY <1>1, <1>2
<1> HIDE DEF s
<1>4. IsInjective(s)
  BY <1>1, <1>2, <1>3 DEF IsInjective
<1> QED
  BY <1>1, <1>2, <1>4 DEF Proper, Cache, s

LEMMA ContentIsProper ==
  ASSUME NEW f, Partial(f)
  PROVE  Content(f) \in Proper \cup {NoContent}
<1>1. CASE f \in {NoFile, OldFile}
  BY <1>1, ContentOfOther
<1>2. ASSUME NEW c \in Proper, NEW n \in Nat, Holds(f, c, n)
      PROVE  Content(f) \in Proper \cup {NoContent}
  <2>1. c \in Cache /\ n <= Len(c.cards) + 1 /\ Len(c.cards) \in Nat
    BY <1>2, ImageRecords DEF Holds, Proper
  <2>2. CASE n = 0
    BY <1>2, <2>1, <2>2, ContentOfBeginning
  <2>3. CASE n > 0
    <3>1. n - 1 \in 0..Len(c.cards)
      BY <2>1, <2>3
    <3> QED
      BY <1>2, <2>1, <2>3, <3>1, ContentOfBeginning, BeginningIsProper
  <2> QED
    BY <2>2, <2>3
<1> QED
  BY <1>1, <1>2 DEF Partial, Begun

LEMMA CutPartial ==
  ASSUME NEW f, Partial(f), NEW g \in Cut(f)
  PROVE  Partial(g)
<1>1. Empty \in Proper /\ Holds(File(<<>>), Empty, 0)
  <2>1. Empty \in Cache /\ IsInjective(Empty.cards)
    BY DEF Empty, Cache, IsInjective
  <2>2. SubSeq(Image(Empty), 1, 0) = <<>> /\ 0 \in 0..Len(Image(Empty))
    BY <2>1, ImageRecords
  <2> QED
    BY <2>1, <2>2 DEF Proper, Holds
<1>2. PICK n \in 0..Len(f.recs) : g = File(SubSeq(f.recs, 1, n))
  BY DEF Cut
<1>3. CASE f \in {NoFile, OldFile}
  <2>1. f.recs = <<>> \/ f = OldFile
    BY <1>3 DEF NoFile
  <2>2. CASE f.recs = <<>>
    <3>1. n = 0 /\ SubSeq(<<>>, 1, 0) = <<>>
      BY <1>2, <2>2
    <3>2. g = File(<<>>)
      BY <1>2, <2>2, <3>1
    <3> QED
      BY <1>1, <3>2 DEF Partial, Begun
  <2>3. CASE f = OldFile
    <3> DEFINE r == <<[version |-> Version - 1]>>
    <3>1. f.recs = r /\ r \in Seq({[version |-> Version - 1]}) /\ Len(r) = 1
      BY <2>3 DEF OldFile, File
    <3>2. n = 0 \/ n = 1
      BY <1>2, <3>1
    <3>3. SubSeq(r, 1, 0) = <<>>
      OBVIOUS
    <3>4. SubSeq(r, 1, 1) = r
      BY <3>1, SubSeqFull
    <3> QED
      BY <1>1, <1>2, <2>3, <3>1, <3>2, <3>3, <3>4 DEF Partial, Begun, OldFile
  <2> QED
    BY <2>1, <2>2, <2>3
<1>4. ASSUME NEW c \in Proper, NEW m \in Nat, Holds(f, c, m)
      PROVE  Partial(g)
  <2>1. /\ Image(c) \in Seq(Record) /\ f.recs = SubSeq(Image(c), 1, m)
        /\ m \in 0..Len(Image(c)) /\ Len(Image(c)) \in Nat
    BY <1>4, ImageRecords DEF Holds, File, Proper
  <2>2. Len(f.recs) = m /\ SubSeq(f.recs, 1, n) = SubSeq(Image(c), 1, n)
    BY <1>2, <2>1, Beginning
  <2>3. n \in 0..Len(Image(c)) /\ n \in Nat
    BY <1>2, <2>1, <2>2
  <2>4. Holds(g, c, n)
    BY <1>2, <2>2, <2>3 DEF Holds
  <2> QED
    BY <2>3, <2>4 DEF Partial, Begun
<1> QED
  BY <1>3, <1>4 DEF Partial, Begun

-----------------------------------------------------------------------------
(* Types. *)

\* TypeOK is not inductive: what is at a path must be the beginning of some
\* cache's image, and what a save has written that of this cache's.
PartInv ==
  /\ cache \in Proper
  /\ Partial(file) /\ Partial(temp)
  /\ pc = "write" => Begun(temp, cache)
  /\ pc \in {"idle", "write", "failed", "rename", "removed"}
  /\ pc = "removed" => ~renameReplaces

LEMMA EmptyIsProper ==
  /\ Empty \in Proper /\ Empty.full = {}
  /\ Holds(File(<<>>), Empty, 0)
  /\ \A c \in Cache : Holds(File(<<>>), c, 0)
<1>1. Empty \in Proper /\ Empty.full = {}
  BY DEF Empty, Cache, IsInjective, Proper
<1>2. ASSUME NEW c \in Cache PROVE Holds(File(<<>>), c, 0)
  <2>1. SubSeq(Image(c), 1, 0) = <<>> /\ 0 \in 0..Len(Image(c))
    BY ImageRecords
  <2> QED
    BY <2>1 DEF Holds
<1> QED
  BY <1>1, <1>2 DEF Proper

LEMMA EmptyFilePartial == Partial(File(<<>>))
  BY EmptyIsProper DEF Partial, Begun

LEMMA ClearedIsProper ==
  ASSUME NEW c \in Cache
  PROVE  /\ Cleared(c) \in Proper
         /\ Cleared(c) = [cards |-> <<>>, full |-> {}, bad |-> c.bad]
<1>1. Cleared(c) = [cards |-> <<>>, full |-> {}, bad |-> c.bad]
  <2>1. Cleared(c) \in Cache
    <3>1. <<>> \in Seq(Cards) /\ {} \subseteq Sets
      OBVIOUS
    <3> QED
      BY <3>1 DEF Cleared, Cache
  <2>2. Cleared(c).cards = <<>> /\ Cleared(c).full = {} /\ Cleared(c).bad = c.bad
    BY DEF Cleared, Cache
  <2> QED
    BY <2>1, <2>2, CacheFields
<1>2. <<>> \in Seq(Cards) /\ IsInjective(<<>>)
  BY DEF IsInjective
<1> QED
  BY <1>1, <1>2, CacheFields DEF Proper, Cache

\* One more card, another full set, another bad URL.
LEMMA UseFields ==
  ASSUME NEW c \in Proper
  PROVE  /\ \A k \in Cards \ ToSet(c.cards) :
              LET d == [c EXCEPT !.cards = Append(c.cards, k)]
              IN  d \in Proper /\ d.full = c.full /\ ToSet(d.cards) = ToSet(c.cards) \cup {k}
         /\ \A s \in Sets :
              LET d == [c EXCEPT !.full = c.full \cup {s}]
              IN  d \in Proper /\ d.full = c.full \cup {s} /\ d.cards = c.cards
         /\ \A u \in Urls :
              LET d == [c EXCEPT !.bad = c.bad \cup {u}]
              IN  d \in Proper /\ d.full = c.full /\ d.cards = c.cards
<1>1. /\ c \in Cache /\ c.cards \in Seq(Cards) /\ c.full \subseteq Sets /\ c.bad \subseteq Urls
      /\ c = [cards |-> c.cards, full |-> c.full, bad |-> c.bad] /\ IsInjective(c.cards)
  BY CacheFields DEF Proper
<1>2. ASSUME NEW k \in Cards \ ToSet(c.cards)
      PROVE  LET d == [c EXCEPT !.cards = Append(c.cards, k)]
             IN  d \in Proper /\ d.full = c.full /\ ToSet(d.cards) = ToSet(c.cards) \cup {k}
  <2> DEFINE t == Append(c.cards, k)
             n == Len(c.cards)
  <2>1. /\ t \in Seq(Cards) /\ DOMAIN t = 1..(n + 1) /\ DOMAIN c.cards = 1..n /\ n \in Nat
        /\ \A i \in 1..n : t[i] = c.cards[i]
        /\ t[n + 1] = k
    BY <1>1, <1>2
  <2> HIDE DEF t, n
  <2>2. ToSet(t) = ToSet(c.cards) \cup {k}
    BY <2>1 DEF ToSet
  <2>3. \A i \in 1..n : t[i] # k
    BY <1>2, <2>1 DEF ToSet
  <2>4. IsInjective(t)
    BY <1>1, <2>1, <2>3 DEF IsInjective
  <2>5. [c EXCEPT !.cards = t] = [cards |-> t, full |-> c.full, bad |-> c.bad]
    BY <1>1
  <2>6. [c EXCEPT !.cards = t] \in Proper
    BY <1>1, <2>1, <2>4, <2>5 DEF Proper, Cache
  <2> QED
    BY <2>2, <2>5, <2>6 DEF t
<1>3. ASSUME NEW s \in Sets
      PROVE  LET d == [c EXCEPT !.full = c.full \cup {s}]
             IN  d \in Proper /\ d.full = c.full \cup {s} /\ d.cards = c.cards
  <2> DEFINE d == [c EXCEPT !.full = c.full \cup {s}]
  <2>1. d \in Cache
    BY <1>1 DEF Cache
  <2>2. d.cards = c.cards /\ d.full = c.full \cup {s}
    BY <1>1 DEF Cache
  <2> QED
    BY <1>1, <2>1, <2>2 DEF Proper
<1>4. ASSUME NEW u \in Urls
      PROVE  LET d == [c EXCEPT !.bad = c.bad \cup {u}]
             IN  d \in Proper /\ d.full = c.full /\ d.cards = c.cards
  <2> DEFINE d == [c EXCEPT !.bad = c.bad \cup {u}]
  <2>1. d \in Cache
    BY <1>1 DEF Cache
  <2>2. d.cards = c.cards /\ d.full = c.full
    BY <1>1 DEF Cache
  <2> QED
    BY <1>1, <2>1, <2>2 DEF Proper
<1> QED
  BY <1>2, <1>3, <1>4

\* The next record of an image.
LEMMA WriteOne ==
  ASSUME cache \in Proper, Begun(temp, cache), WriteRecord
  PROVE  Begun(temp', cache)
<1>1. PICK n \in Nat : Holds(temp, cache, n)
  BY DEF Begun
<1> DEFINE s == Image(cache)
<1>2. /\ s \in Seq(Record) /\ n \in 0..Len(s) /\ Len(s) \in Nat
      /\ temp.recs = SubSeq(s, 1, n) /\ Len(temp.recs) = n /\ n < Len(s)
      /\ temp' = File(Append(SubSeq(s, 1, n), s[n + 1]))
  <2>1. s \in Seq(Record) /\ Len(s) \in Nat
    BY ImageRecords DEF Proper
  <2>2. n \in 0..Len(s) /\ temp.recs = SubSeq(s, 1, n)
    BY <1>1 DEF Holds, File
  <2>3. Len(temp.recs) = n
    BY <2>1, <2>2, Beginning
  <2> QED
    BY <2>1, <2>2, <2>3 DEF WriteRecord
<1> HIDE DEF s
<1>3. n + 1 \in 1..Len(s) /\ n + 1 \in 0..Len(s) /\ s[n + 1] \in Record
  BY <1>2, ElementOfSeq
<1>4. /\ SubSeq(s, 1, n) \in Seq(Record) /\ Len(SubSeq(s, 1, n)) = n
      /\ \A i \in 1..n : SubSeq(s, 1, n)[i] = s[i]
  BY <1>2, Beginning
<1>5. /\ SubSeq(s, 1, n + 1) \in Seq(Record) /\ Len(SubSeq(s, 1, n + 1)) = n + 1
      /\ \A i \in 1..(n + 1) : SubSeq(s, 1, n + 1)[i] = s[i]
  BY <1>2, <1>3, Beginning
<1>6. Append(SubSeq(s, 1, n), s[n + 1]) = SubSeq(s, 1, n + 1)
  <2> DEFINE a == SubSeq(s, 1, n)
             b == SubSeq(s, 1, n + 1)
  <2>1. /\ Append(a, s[n + 1]) \in Seq(Record) /\ Len(Append(a, s[n + 1])) = n + 1
        /\ \A i \in 1..n : Append(a, s[n + 1])[i] = a[i]
        /\ Append(a, s[n + 1])[n + 1] = s[n + 1]
    BY <1>3, <1>4, AppendProperties
  <2>2. \A i \in 1..(n + 1) : Append(a, s[n + 1])[i] = b[i]
    <3> SUFFICES ASSUME NEW i \in 1..(n + 1) PROVE Append(a, s[n + 1])[i] = b[i]
      OBVIOUS
    <3>1. i \in 1..n \/ i = n + 1
      BY <1>2
    <3> QED
      BY <1>4, <1>5, <2>1, <3>1
  <2> HIDE DEF a, b
  <2>3. b \in Seq(Record) /\ Len(b) = n + 1
    BY <1>5 DEF b
  <2>4. Append(a, s[n + 1]) = b
    BY <2>1, <2>2, <2>3, SeqEqual
  <2> QED
    BY <2>4 DEF a, b
<1>7. Holds(temp', cache, n + 1)
  BY <1>2, <1>3, <1>6 DEF Holds, s
<1> QED
  BY <1>2, <1>7 DEF Begun

LEMMA PartInit == Init => PartInv
<1> SUFFICES ASSUME Init PROVE PartInv
  OBVIOUS
<1>1. Partial(file) /\ Partial(temp)
  BY EmptyFilePartial DEF Init, Partial
<1> QED
  BY <1>1, EmptyIsProper DEF Init, PartInv

LEMMA PartStep == PartInv /\ [Next]_vars => PartInv'
<1> SUFFICES ASSUME PartInv, [Next]_vars PROVE PartInv'
  OBVIOUS
<1>0. /\ cache \in Proper /\ cache \in Cache /\ Partial(file) /\ Partial(temp)
      /\ pc = "write" => Begun(temp, cache)
      /\ pc \in {"idle", "write", "failed", "rename", "removed"}
      /\ pc = "removed" => ~renameReplaces
  BY DEF PartInv, Proper
<1>00. renameReplaces' = renameReplaces
  BY DEF Next, vars
<1>1. ASSUME Using, cache' \in Proper PROVE PartInv'
  BY <1>0, <1>1 DEF Using, PartInv
<1>2. ASSUME NEW c \in Cards, AddCard(c) PROVE PartInv'
  BY <1>0, <1>1, <1>2, UseFields DEF AddCard
<1>3. ASSUME NEW s \in Sets, AddFullSet(s) PROVE PartInv'
  BY <1>0, <1>1, <1>3, UseFields DEF AddFullSet
<1>4. ASSUME NEW u \in Urls, AddBadUrl(u) PROVE PartInv'
  BY <1>0, <1>1, <1>4, UseFields DEF AddBadUrl
<1>5. CASE Clear
  BY <1>0, <1>1, <1>5, ClearedIsProper DEF Clear
<1>6. CASE SaveOpen
  <2>1. Begun(temp', cache')
    BY <1>0, <1>6, EmptyIsProper DEF SaveOpen, Begun
  <2> QED
    BY <1>0, <1>6, <2>1, EmptyFilePartial DEF SaveOpen, PartInv
<1>7. CASE SaveOpenFails \/ CloseFailed \/ RenameFails
  BY <1>0, <1>7 DEF SaveOpenFails, CloseFailed, RenameFails, PartInv
<1>8. CASE WriteRecord
  <2>1. pc = "write" /\ pc' = pc /\ UNCHANGED <<cache, file>>
    BY <1>8 DEF WriteRecord
  <2>2. Begun(temp', cache)
    BY <1>0, <1>8, <2>1, WriteOne
  <2> QED
    BY <1>0, <2>1, <2>2 DEF PartInv, Partial
<1>9. CASE WriteFails
  BY <1>0, <1>9, CutPartial DEF WriteFails, AfterFailedWrite, PartInv
<1>10. CASE Close
  <2>1. Partial(temp')
    BY <1>0, <1>10, CutPartial DEF Close, Flushed
  <2> QED
    BY <1>0, <1>10, <2>1 DEF Close, PartInv
<1>11. CASE Rename
  BY <1>0, <1>11 DEF Rename, PartInv, Partial
<1>12. CASE RemoveOld
  BY <1>0, <1>00, <1>12 DEF RemoveOld, PartInv, Partial
<1>13. CASE Load
  <2>1. cache' \in Proper
    BY <1>0, <1>13, ContentIsProper DEF Load, Loaded
  <2> QED
    BY <1>0, <1>13, <2>1 DEF Load, PartInv
<1>14. CASE LoadOpenFails \/ LoadReadFails
  BY <1>0, <1>14, ClearedIsProper DEF LoadOpenFails, LoadReadFails, PartInv
<1>15. CASE Crash
  <2>1. Partial(temp')
    BY <1>0, <1>15, CutPartial DEF Crash
  <2> QED
    BY <1>0, <1>15, <2>1, EmptyIsProper DEF Crash, PartInv
<1>16. CASE UNCHANGED vars
  BY <1>0, <1>16 DEF vars, PartInv
<1> QED
  BY <1>2, <1>3, <1>4, <1>5, <1>6, <1>7, <1>8, <1>9, <1>10, <1>11, <1>12, <1>13, <1>14, <1>15, <1>16
     DEF Next, Step

\* Whatever fails and wherever the program crashes, also when fclose loses data
\* unseen: what can be loaded is a cache, and no cache lists a card twice.
THEOREM TypesHold == Spec => []TypeOK
<1>1. PartInv => TypeOK
  BY ContentIsProper DEF PartInv, TypeOK, Proper
<1> QED
  BY <1>1, PartInit, PartStep, PTL DEF Spec

-----------------------------------------------------------------------------
(* Whole files.  While fclose writes all that is left in the buffer, a file  *)
(* at the path is what Init found there or the whole image of a cache whose  *)
(* full sets are full.                                                       *)

SoundCache(c) == \A s \in c.full : \A k \in Cards : SetOf(k) = s => k \in ToSet(c.cards)

Whole(f) ==
  \/ f \in {NoFile, OldFile, File(<<>>)}
  \/ \E c \in Proper : SoundCache(c) /\ f = File(Image(c))

WholeInv ==
  /\ PartInv
  /\ SoundCache(cache)
  /\ Whole(file)
  /\ pc \in {"rename", "removed"} => temp = File(Image(cache))
  /\ pc # "idle" => returned = Nothing
  /\ SavedIsWhole

LEMMA ContentOfImage ==
  ASSUME NEW c \in Proper
  PROVE  Content(File(Image(c))) = c /\ Readable(File(Image(c)))
<1>1. /\ c \in Cache /\ Image(c) \in Seq(Record) /\ Len(Image(c)) = Len(c.cards) + 1
      /\ Len(c.cards) \in Nat /\ c.cards \in Seq(Cards)
      /\ c = [cards |-> c.cards, full |-> c.full, bad |-> c.bad]
  BY ImageRecords, CacheFields DEF Proper
<1> DEFINE n == Len(Image(c))
<1>2. n \in 0..Len(Image(c)) /\ n > 0 /\ n - 1 = Len(c.cards)
  BY <1>1
<1>3. SubSeq(Image(c), 1, n) = Image(c) /\ SubSeq(c.cards, 1, n - 1) = c.cards
  BY <1>1, <1>2, SubSeqFull
<1>4. Holds(File(Image(c)), c, n)
  BY <1>2, <1>3 DEF Holds
<1> HIDE DEF n
<1> QED
  BY <1>1, <1>2, <1>3, <1>4, ContentOfBeginning

\* What a whole file loads as, if it loads.
LEMMA ContentOfWhole ==
  ASSUME NEW f, Whole(f), Content(f) # NoContent
  PROVE  Content(f) \in Proper /\ SoundCache(Content(f))
<1>1. f \notin {NoFile, OldFile, File(<<>>)}
  BY ContentOfOther, ContentOfBeginning, EmptyIsProper DEF Proper
<1> QED
  BY <1>1, ContentOfImage DEF Whole

\* When all records are written the temporary file holds the whole image.
LEMMA WrittenIsWhole ==
  ASSUME cache \in Proper, Begun(temp, cache), Len(temp.recs) = Len(Image(cache))
  PROVE  temp = File(Image(cache))
<1>1. PICK n \in Nat : Holds(temp, cache, n)
  BY DEF Begun
<1>2. Image(cache) \in Seq(Record)
  BY ImageRecords DEF Proper
<1>3. n \in 0..Len(Image(cache)) /\ temp.recs = SubSeq(Image(cache), 1, n)
      /\ temp = File(SubSeq(Image(cache), 1, n))
  BY <1>1 DEF Holds, File
<1>4. n = Len(Image(cache))
  BY <1>2, <1>3, Beginning
<1> QED
  BY <1>2, <1>3, <1>4, SubSeqFull

LEMMA WholeInit == Init => WholeInv
<1> SUFFICES ASSUME Init PROVE WholeInv
  OBVIOUS
<1>1. SoundCache(cache)
  BY EmptyIsProper DEF Init, SoundCache
<1>2. Whole(file) /\ pc = "idle"
  BY DEF Init, Whole
<1>3. SavedIsWhole
  BY DEF Init, SavedIsWhole, Nothing
<1> QED
  BY <1>1, <1>2, <1>3, PartInit DEF WholeInv

LEMMA WholeStep ==
  ASSUME ~FlushFails
  PROVE  WholeInv /\ [Next]_vars => WholeInv'
<1> SUFFICES ASSUME WholeInv, [Next]_vars PROVE WholeInv'
  OBVIOUS
<1>0. /\ PartInv /\ PartInv' /\ cache \in Proper /\ cache \in Cache
      /\ SoundCache(cache) /\ Whole(file)
      /\ pc \in {"rename", "removed"} => temp = File(Image(cache))
      /\ pc # "idle" => returned = Nothing
      /\ SavedIsWhole
      /\ pc = "write" => Begun(temp, cache)
  BY PartStep DEF WholeInv, PartInv, Proper
<1> DEFINE Rest == /\ SoundCache(cache') /\ Whole(file')
                   /\ pc' \in {"rename", "removed"} => temp' = File(Image(cache'))
                   /\ pc' # "idle" => returned' = Nothing
                   /\ SavedIsWhole'
<1>1. ASSUME Using, SoundCache(cache') PROVE Rest
  BY <1>0, <1>1 DEF Using, SavedIsWhole, Nothing
<1>2. ASSUME NEW c \in Cards, AddCard(c) PROVE Rest
  <2>1. SoundCache(cache')
    BY <1>0, <1>2, UseFields DEF AddCard, SoundCache
  <2> QED
    BY <1>1, <1>2, <2>1 DEF AddCard
<1>3. ASSUME NEW s \in Sets, AddFullSet(s) PROVE Rest
  <2>1. SoundCache(cache')
    BY <1>0, <1>3, UseFields DEF AddFullSet, InCache, SoundCache
  <2> QED
    BY <1>1, <1>3, <2>1 DEF AddFullSet
<1>4. ASSUME NEW u \in Urls, AddBadUrl(u) PROVE Rest
  <2>1. SoundCache(cache')
    BY <1>0, <1>4, UseFields DEF AddBadUrl, SoundCache
  <2> QED
    BY <1>1, <1>4, <2>1 DEF AddBadUrl
<1>5. SoundCache(Cleared(cache))
  BY <1>0, ClearedIsProper DEF SoundCache
<1>6. ASSUME Clear PROVE Rest
  BY <1>1, <1>5, <1>6 DEF Clear
<1>7. ASSUME SaveOpen PROVE Rest
  BY <1>0, <1>7 DEF SaveOpen, SavedIsWhole, Nothing
<1>8. ASSUME SaveOpenFails \/ CloseFailed \/ RenameFails PROVE Rest
  BY <1>0, <1>8 DEF SaveOpenFails, CloseFailed, RenameFails, SavedIsWhole, Return
<1>9. ASSUME WriteRecord \/ WriteFails PROVE Rest
  BY <1>0, <1>9 DEF WriteRecord, WriteFails, AfterFailedWrite, SavedIsWhole
<1>10. ASSUME Close PROVE Rest
  <2>1. temp' = temp /\ temp = File(Image(cache))
    BY <1>0, <1>10, WrittenIsWhole DEF Close, Flushed
  <2> QED
    BY <1>0, <1>10, <2>1 DEF Close, SavedIsWhole
<1>11. ASSUME Rename PROVE Rest
  <2>1. file' = File(Image(cache)) /\ cache' = cache /\ pc' = "idle"
    BY <1>0, <1>11 DEF Rename
  <2>2. Whole(file')
    BY <1>0, <2>1 DEF Whole
  <2>3. Content(file') = cache'
    BY <1>0, <2>1, ContentOfImage
  <2> QED
    BY <1>0, <2>1, <2>2, <2>3 DEF SavedIsWhole
<1>12. ASSUME RemoveOld PROVE Rest
  <2>1. /\ pc = "rename" /\ file' = NoFile /\ UNCHANGED <<cache, temp>>
    BY <1>12 DEF RemoveOld
  <2>2. returned' = Nothing
    BY <1>0, <1>12, <2>1 DEF RemoveOld
  <2>3. SavedIsWhole'
    BY <2>2 DEF SavedIsWhole, Nothing
  <2> QED
    BY <1>0, <2>1, <2>2, <2>3 DEF Whole
<1>13. ASSUME Load PROVE Rest
  <2>1. SoundCache(cache')
    BY <1>0, <1>13, ContentOfWhole DEF Load, Loaded
  <2> QED
    BY <1>0, <1>13, <2>1 DEF Load, SavedIsWhole, Return
<1>14. ASSUME LoadOpenFails \/ LoadReadFails PROVE Rest
  BY <1>0, <1>5, <1>14 DEF LoadOpenFails, LoadReadFails, SavedIsWhole, Return
<1>15. ASSUME Crash PROVE Rest
  BY <1>0, <1>15, EmptyIsProper DEF Crash, SavedIsWhole, Nothing, SoundCache
<1>16. ASSUME UNCHANGED vars PROVE Rest
  BY <1>0, <1>16 DEF vars, SavedIsWhole
<1>17. Rest
  BY <1>2, <1>3, <1>4, <1>6, <1>7, <1>8, <1>9, <1>10, <1>11, <1>12, <1>13, <1>14, <1>15, <1>16
     DEF Next, Step
<1> QED
  BY <1>0, <1>17 DEF WholeInv

\* A set in full_sets has all its cards in the cache, whatever was saved,
\* crashed and loaded before (sfc_query.c:30, sfc_cache.c:356).  fclose writes
\* what is left; else the file may miss cards of a set its header lists.
THEOREM FullSetsSurvive == ASSUME ~FlushFails PROVE Spec => []FullSetSound
<1>1. WholeInv => FullSetSound
  BY DEF WholeInv, SoundCache, FullSetSound, InCache
<1> QED
  BY <1>1, WholeInit, WholeStep, PTL DEF Spec

\* A save that returned SFC_RESULT_OK left the whole cache at the path
\* (sfc_cache.c:264), as long as fclose writes what is left.
THEOREM SavesAreWhole == ASSUME ~FlushFails PROVE Spec => []SavedIsWhole
<1>1. WholeInv => SavedIsWhole
  BY DEF WholeInv
<1> QED
  BY <1>1, WholeInit, WholeStep, PTL DEF Spec

\* The file of another save is removed only with the new one complete beside it
\* (sfc_file.c:63).
THEOREM RemovalsAreLast == ASSUME ~FlushFails PROVE Spec => RemovedLast
<1>1. WholeInv /\ [Next]_vars => [file.exists /\ ~file'.exists => temp = File(Image(cache))]_vars
  <2> SUFFICES ASSUME WholeInv, Next, file.exists, ~file'.exists
               PROVE  temp = File(Image(cache))
    BY DEF vars
  <2>1. pc \in {"rename", "removed"} => temp = File(Image(cache))
    BY DEF WholeInv
  <2>2. CASE Rename \/ RemoveOld
    BY <2>1, <2>2 DEF Rename, RemoveOld
  <2>3. CASE ~(Rename \/ RemoveOld)
    <3>1. file' = file
      BY <2>3 DEF Next, Step, Using, AddCard, AddFullSet, AddBadUrl, Clear, SaveOpen, SaveOpenFails,
           WriteRecord, WriteFails, CloseFailed, Close, RenameFails, Load, LoadOpenFails,
           LoadReadFails, Crash
    <3> QED
      BY <3>1
  <2> QED
    BY <2>2, <2>3
<1> QED
  BY <1>1, WholeInit, WholeStep, PTL DEF Spec, RemovedLast

-----------------------------------------------------------------------------
(* A save is atomic: each step of Persistence is one of DurableStore's on    *)
(* what the path would load as, or none.                                     *)

LEMMA StepIsAtomic ==
  ASSUME ~FlushFails, WholeInv, WholeInv', [Next]_vars
  PROVE  [Disk!Next]_(Disk!vars)
<1>0. /\ cache \in Cache /\ cache' \in Cache
      /\ Whole(file)
      /\ pc \in {"rename", "removed"} => temp = File(Image(cache))
      /\ pc = "removed" => ~renameReplaces
      /\ cache \in Proper
  BY DEF WholeInv, PartInv, Proper
<1>00. renameReplaces' = renameReplaces
  BY DEF Next, vars
<1> DEFINE Stay == UNCHANGED <<cache, Content(file), returned, renameReplaces>>
<1>1. ASSUME returned' = Nothing, file' = file PROVE Disk!Use
  BY <1>0, <1>1 DEF Disk!Use
<1>2. ASSUME \/ \E c \in Cards : AddCard(c)
             \/ \E s \in Sets : AddFullSet(s)
             \/ \E u \in Urls : AddBadUrl(u)
             \/ Clear \/ SaveOpen \/ Crash
      PROVE  Disk!Use
  BY <1>1, <1>2 DEF AddCard, AddFullSet, AddBadUrl, Clear, SaveOpen, Crash, Using
<1>3. ASSUME WriteRecord \/ WriteFails \/ Close PROVE Stay
  BY <1>00, <1>3 DEF WriteRecord, WriteFails, Close
<1>4. ASSUME SaveOpenFails \/ CloseFailed \/ RenameFails PROVE Disk!SaveFails
  BY <1>4 DEF SaveOpenFails, CloseFailed, RenameFails, Return, Disk!SaveFails
<1>5. ASSUME Rename PROVE Disk!Save
  <2>1. file' = File(Image(cache)) /\ cache' = cache /\ returned' = [op |-> "save", code |-> "OK"]
    BY <1>0, <1>5 DEF Rename, Return
  <2>2. Content(file') = cache
    BY <1>0, <2>1, ContentOfImage
  <2> QED
    BY <2>1, <2>2 DEF Disk!Save
<1>6. ASSUME RemoveOld PROVE Disk!Lose
  <2>1. Content(file') = NoContent
    BY <1>6, ContentOfOther DEF RemoveOld
  <2> QED
    BY <1>6, <2>1 DEF RemoveOld, Disk!Lose
<1>7. ASSUME Load PROVE Disk!Load
  BY <1>7 DEF Load, Loaded, Return, Disk!Load
<1>8. ASSUME LoadOpenFails \/ LoadReadFails PROVE Disk!LoadFails
  <2>1. Content(file) = NoContent
    <3>1. ~Readable(file) \/ ~file.exists
      BY <1>8 DEF LoadOpenFails, LoadReadFails, Readable
    <3>2. CASE ~Readable(file)
      BY <3>2 DEF Content
    <3>3. CASE ~file.exists
      <4>1. file = NoFile
        BY <1>0, <3>3 DEF Whole, File, OldFile
      <4> QED
        BY <4>1, ContentOfOther
    <3> QED
      BY <3>1, <3>2, <3>3
  <2> QED
    BY <1>8, <2>1 DEF LoadOpenFails, LoadReadFails, Return, Disk!LoadFails
<1>9. ASSUME UNCHANGED vars PROVE Stay
  BY <1>9 DEF vars
<1>10. \/ Disk!Use \/ Disk!SaveFails \/ Disk!Save \/ Disk!Lose \/ Disk!Load \/ Disk!LoadFails
       \/ Stay
  BY <1>2, <1>3, <1>4, <1>5, <1>6, <1>7, <1>8, <1>9 DEF Next, Step
<1> QED
  BY <1>00, <1>10 DEF Disk!Next, Disk!vars

LEMMA InitIsAtomic == Init => Disk!Init
<1> SUFFICES ASSUME Init PROVE Disk!Init
  OBVIOUS
<1>1. Content(file) = NoContent
  BY ContentOfOther, ContentOfBeginning, EmptyIsProper DEF Init, Proper
<1> QED
  BY <1>1, EmptyIsProper, SwitchAssumption DEF Init, Disk!Init, Proper

\* "The transactional property of the operation" (sfc_file.c:63), with every
\* failure and a crash at every step, as long as fclose writes what is left.
THEOREM SavesAreAtomic == ASSUME ~FlushFails PROVE Spec => SaveIsAtomic
<1>1. WholeInv /\ WholeInv' /\ [Next]_vars => [Disk!Next]_(Disk!vars)
  BY StepIsAtomic
<1> QED
  BY <1>1, InitIsAtomic, WholeInit, WholeStep, PTL DEF Spec, SaveIsAtomic, Disk!Spec
=============================================================================
