--------------------------- MODULE SfcCacheProofs ---------------------------
(***************************************************************************)
(* Proofs about SfcCache, for every value of its constants: the types of   *)
(* its variables, the soundness of bad_urls and, under the conditions it   *)
(* rests on, of full_sets; that a pass visits each query once, in order,   *)
(* that requests and queries stay in step, and that nothing is left of a   *)
(* request when the application may destroy the cache.  The second half is *)
(* about what it answers: the card list and the cardmarket map agree,      *)
(* results point to cards the cache holds, and SfcCache implements         *)
(* QueryService.                                                           *)
(***************************************************************************)
EXTENDS SfcCache, SequenceTheorems, Inductions

-----------------------------------------------------------------------------
(* What the constructors of the model build has the type it should have. *)

LEMMA NoBodyTyped == NoBody \in Body
  BY DEF Body

LEMMA FreeQueryTyped == FreeQuery \in QueryFields
  BY NoBodyTyped DEF FreeQuery, QueryFields, QueryState, Result

LEMMA NoRequestTyped == NoRequest \in Request
  BY NoBodyTyped DEF NoRequest, Request

LEMMA UrlTyped ==
  /\ \A k \in Key : KeyUrl(k) \in Url
  /\ \A i \in Ids : IdUrl(i) \in Url
  BY DEF KeyUrl, IdUrl, Url

LEMMA TargetTyped ==
  ASSUME NEW t \in Target \cup {NoTarget}
  PROVE  /\ t.type = "CARDMARKET_ID" => t.id \in Ids
         /\ t.type = "CARD_KEY" => t.key \in Key
         /\ t.type = "SET" => t.set \in Sets
  BY DEF Target, NoTarget

LEMMA StateTyped ==
  ASSUME NEW f \in QueryFields, NEW s \in QueryState
  PROVE  [f EXCEPT !.state = s] \in QueryFields
  BY DEF QueryFields

LEMMA CompletedTyped ==
  ASSUME NEW f \in QueryFields, NEW c \in Result
  PROVE  Completed(f, c) \in QueryFields
  BY DEF Completed, QueryFields, QueryState

LEMMA FetchingTyped ==
  ASSUME NEW f \in QueryFields, NEW u \in Url
  PROVE  Fetching(f, u) \in QueryFields
  BY DEF Fetching, QueryFields, QueryState

LEMMA WalkTyped ==
  ASSUME NEW f \in QueryFields
  PROVE  /\ PastFound(f) \in QueryFields
         /\ PastNotFound(f) \in QueryFields
<1>1. f.num + 1 \in Nat /\ f.ver + 1 \in Nat
  BY DEF QueryFields
<1>2. /\ [f EXCEPT !.ver = f.ver + 1] \in QueryFields
      /\ [f EXCEPT !.num = f.num + 1] \in QueryFields
      /\ [f EXCEPT !.ver = 0, !.num = f.num + 1] \in QueryFields
      /\ [f EXCEPT !.ver = 1] \in QueryFields
  BY <1>1 DEF QueryFields
<1> QED
  BY <1>2 DEF PastFound, PastNotFound

LEMMA ParsedTyped ==
  ASSUME NEW q \in Query, query[q] \in QueryFields
  PROVE  /\ Parsed(q) \in QueryFields
         /\ Parsed(q).target = query[q].target
  BY NoBodyTyped DEF Parsed, QueryFields

LEMMA NextKeyTyped ==
  ASSUME NEW q \in Query, query[q] \in QueryFields, query[q].target.type = "SET"
  PROVE  NextKey(q) \in Key
<1>1. query[q].num \in Nat /\ query[q].ver \in Nat /\ query[q].target \in Target \cup {NoTarget}
  BY DEF QueryFields
<1> QED
  BY <1>1, TargetTyped DEF NextKey, PlainKey, Key, Mark

LEMMA ParseJsonTyped ==
  ASSUME NEW b \in Body
  PROVE  /\ ParseJson(b) \in Result
         /\ ParseJson(b) = "OK" => b.key \in Catalog /\ b.key \in Key
  BY CatalogAssumption DEF ParseJson, Result, Body, NotFoundBody, GarbageBody, NoBody

LEMMA PutTyped ==
  ASSUME query \in [Query -> QueryFields], NEW q \in Query, NEW r \in QueryFields, Put(q, r)
  PROVE  query' \in [Query -> QueryFields]
  BY DEF Put

\* A card found in the list is a card.
LEMMA CardOfTyped ==
  ASSUME cards \in Seq(Card), NEW k, Cached(k)
  PROVE  CardOf(k) \in ToSet(cards) /\ CardOf(k) \in Card /\ CardOf(k).key = k
<1>1. PICK c \in ToSet(cards) : c.key = k
  BY DEF Cached
<1>2. CardOf(k) \in ToSet(cards) /\ CardOf(k).key = k
  BY <1>1 DEF CardOf
<1> QED
  BY <1>2 DEF ToSet

\* Adding a card keeps the store typed; so does keeping the card of a response.
LEMMA AddCardTyped ==
  ASSUME cards \in Seq(Card), idMap \in [Ids -> Card \cup {NoCard}],
         NEW c \in Card, AddCard(c)
  PROVE  cards' \in Seq(Card) /\ idMap' \in [Ids -> Card \cup {NoCard}]
  BY DEF AddCard

LEMMA KeepCardTyped ==
  ASSUME cards \in Seq(Card), idMap \in [Ids -> Card \cup {NoCard}],
         NEW q \in Query, NEW k \in Key, KeepCard(q, k)
  PROVE  cards' \in Seq(Card) /\ idMap' \in [Ids -> Card \cup {NoCard}]
<1>1. [key |-> k, by |-> q] \in Card
  BY DEF Card
<1> QED
  BY <1>1, AddCardTyped DEF KeepCard

LEMMA SetCardNotFoundTyped ==
  ASSUME query \in [Query -> QueryFields], fullSets \subseteq Sets,
         NEW q \in Query, NEW r \in QueryFields, r.target.type = "SET",
         SetCardNotFound(q, r)
  PROVE  query' \in [Query -> QueryFields] /\ fullSets' \subseteq Sets
<1>1. r.target.set \in Sets
  BY TargetTyped DEF QueryFields
<1>2. Completed(r, "OK") \in QueryFields
  BY CompletedTyped DEF Result
<1>3. [PastNotFound(r) EXCEPT !.state = "GET_NEXT_IN_SET"] \in QueryFields
  BY WalkTyped, StateTyped DEF QueryState
<1> QED
  BY <1>1, <1>2, <1>3, PutTyped DEF SetCardNotFound

-----------------------------------------------------------------------------
(* The walk's handler runs only for set queries (sfc_query.c:205); with that, *)
(* StoreTypeOK is inductive.                                                  *)

GetNextOnSets ==
  \A q \in Query : query[q].state = "GET_NEXT_IN_SET" => query[q].target.type = "SET"

LEMMA StoreTypeInit == Init => StoreTypeOK
<1>1. 0 \in 0..BucketSize
  BY BucketAssumption
<1>2. <<>> \in Seq(Card)
  OBVIOUS
<1> QED
  BY <1>1, <1>2, FreeQueryTyped, NoRequestTyped DEF Init, StoreTypeOK

LEMMA StoreTypeStep == StoreTypeOK /\ GetNextOnSets /\ [Next]_vars => StoreTypeOK'
<1> SUFFICES ASSUME StoreTypeOK, GetNextOnSets, [Next]_vars PROVE StoreTypeOK'
  OBVIOUS
<1> USE DEF StoreTypeOK
<1>1. CASE UNCHANGED vars
  BY <1>1 DEF vars
<1>2. CASE CreateCache
  BY <1>2 DEF CreateCache, store
<1>3. CASE Clear
  BY <1>3 DEF Clear, EmptyStore
<1>4. CASE Destroy
  <2>1. 0 \in 0..BucketSize /\ <<>> \in Seq(Card)
    BY BucketAssumption
  <2> QED
    BY <1>4, <2>1, FreeQueryTyped, NoRequestTyped DEF Destroy, EmptyStore
<1>5. CASE Refill
  BY <1>5, BucketAssumption DEF Refill, Refilled, store
<1>6. CASE BeginUpdate
  <2>1. ASSUME NEW r \in Request PROVE UpdatedRequest(r) \in Request
    BY NoRequestTyped DEF UpdatedRequest, Request
  <2> QED
    BY <1>6, <2>1 DEF BeginUpdate, store
<1>7. ASSUME NEW q \in Query, NEW t \in Targets, CreateQuery(q, t)
      PROVE  StoreTypeOK'
  <2>1. [FreeQuery EXCEPT !.state = "INIT", !.target = t] \in QueryFields
    BY FreeQueryTyped, TargetsAssumption DEF QueryFields, QueryState
  <2> QED
    BY <1>7, <2>1 DEF CreateQuery, store
<1>8. ASSUME NEW q \in Query, DeleteQuery(q)
      PROVE  StoreTypeOK'
  <2>1. [query[q] EXCEPT !.state = "DELETE"] \in QueryFields
    BY StateTyped DEF QueryState
  <2> QED
    BY <1>8, <2>1 DEF DeleteQuery, store
<1>9. ASSUME NEW q \in Query, Answer(q)
      PROVE  StoreTypeOK'
  <2>1. PICK b \in ServerBodies(client[q].url)
                     \cup (IF NetworkFails THEN {GarbageBody, NoBody} ELSE {}) :
          client' = [client EXCEPT ![q].st = "answered", ![q].body = b]
    BY <1>9 DEF Answer
  <2>2. b \in Body
    BY DEF ServerBodies, CardsAt, CardBody, Body
  <2>3. [client[q] EXCEPT !.st = "answered", !.body = b] \in Request
    BY <2>2 DEF Request
  <2> QED
    BY <1>9, <2>1, <2>3 DEF Answer, store
<1>10. ASSUME NEW q \in Query, UpdateQuery(q)
      PROVE  StoreTypeOK'
  <2>1. /\ query[q] \in QueryFields
        /\ query[q].data \in Body
        /\ query[q].target \in Target \cup {NoTarget}
        /\ query[q].url \in Url \cup {NoUrl}
    BY DEF QueryFields
  <2>2. CASE UpdateInitCardmarketId(q)
    <3>1. query[q].target.id \in Ids
      BY <2>1, <2>2, TargetTyped DEF UpdateInitCardmarketId
    <3>2. /\ Completed(query[q], "OK") \in QueryFields
          /\ Fetching(query[q], IdUrl(query[q].target.id)) \in QueryFields
      BY <2>1, <3>1, CompletedTyped, FetchingTyped, UrlTyped DEF Result
    <3> QED
      BY <2>2, <3>2, PutTyped DEF UpdateInitCardmarketId, Visit, store
  <2>3. CASE UpdateInitCardKey(q)
    <3>1. query[q].target.key \in Key
      BY <2>1, <2>3, TargetTyped DEF UpdateInitCardKey
    <3>2. /\ Completed(query[q], "OK") \in QueryFields
          /\ Completed(query[q], "INVALID_COLLECTOR_NUMBER") \in QueryFields
          /\ Fetching(query[q], KeyUrl(query[q].target.key)) \in QueryFields
      BY <2>1, <3>1, CompletedTyped, FetchingTyped, UrlTyped DEF Result
    <3> QED
      BY <2>3, <3>2, PutTyped DEF UpdateInitCardKey, Visit, store
  <2>4. CASE UpdateInitSet(q)
    <3>1. /\ Completed(query[q], "OK") \in QueryFields
          /\ [query[q] EXCEPT !.state = "GET_NEXT_IN_SET", !.num = 1, !.ver = 0] \in QueryFields
      BY <2>1, CompletedTyped DEF Result, QueryFields, QueryState
    <3> QED
      BY <2>4, <3>1, PutTyped DEF UpdateInitSet, Visit, store
  <2>5. CASE UpdateGetNextInSet(q)
    <3>0. query[q].target.type = "SET"
      BY <2>5 DEF UpdateGetNextInSet, Visit, GetNextOnSets
    <3>1. /\ PastFound(query[q]) \in QueryFields
          /\ Fetching(query[q], KeyUrl(NextKey(q))) \in QueryFields
      BY <2>1, <3>0, WalkTyped, FetchingTyped, UrlTyped, NextKeyTyped
    <3> QED
      BY <2>5, <3>1, PutTyped DEF UpdateGetNextInSet, Visit, store
  <2>6. CASE UpdateHttpGetKnownBad(q)
    <3>1. Completed(query[q], "NOT_FOUND") \in QueryFields
      BY <2>1, CompletedTyped DEF Result
    <3>2. query' \in [Query -> QueryFields] /\ fullSets' \subseteq Sets
      BY <2>1, <2>6, <3>1, PutTyped, SetCardNotFoundTyped DEF UpdateHttpGetKnownBad, KnownBad
    <3> QED
      BY <2>6, <3>2 DEF UpdateHttpGetKnownBad, Visit
  <2>7. CASE UpdateHttpGetNoToken(q)
    BY <2>7 DEF UpdateHttpGetNoToken, Visit, store
  <2>8. CASE UpdateHttpGet(q)
    <3>1. [query[q] EXCEPT !.state = "WAITING"] \in QueryFields
      BY <2>1, StateTyped DEF QueryState
    <3>2. [st |-> "active", url |-> query[q].url, body |-> NoBody] \in Request
      BY <2>1, NoBodyTyped DEF Request
    <3>3. tokens' \in 0..BucketSize
      BY <2>8, BucketAssumption DEF UpdateHttpGet
    <3> QED
      BY <2>8, <3>1, <3>2, <3>3, PutTyped DEF UpdateHttpGet, Visit, store
  <2>9. CASE UpdateWaiting(q)
    <3>1. /\ client[q].body \in Body
          /\ Polled(client[q]) \in Request
      BY NoBodyTyped DEF Polled, Request
    <3>2. [query[q] EXCEPT !.state = "PARSE_RESULT", !.data = client[q].body,
             !.result = IF client[q].body = NoBody THEN "HTTP_GET_FAILED" ELSE "OK"]
            \in QueryFields
      BY <2>1, <3>1 DEF QueryFields, QueryState, Result
    <3> QED
      BY <2>9, <3>1, <3>2, PutTyped DEF UpdateWaiting, Visit, store
  <2>10. CASE ParseSetCard(q)
    <3>1. query[q].data.key \in Key
      BY <2>1, <2>10, ParseJsonTyped DEF ParseSetCard
    <3>2. [PastFound(Parsed(q)) EXCEPT !.state = "GET_NEXT_IN_SET"] \in QueryFields
      BY <2>1, ParsedTyped, WalkTyped, StateTyped DEF QueryState
    <3> QED
      BY <2>10, <3>1, <3>2, KeepCardTyped, PutTyped DEF ParseSetCard, Visit
  <2>11. CASE ParseSetNotFound(q)
    <3>1. query' \in [Query -> QueryFields] /\ fullSets' \subseteq Sets
      BY <2>1, <2>11, ParsedTyped, SetCardNotFoundTyped DEF ParseSetNotFound
    <3> QED
      BY <2>1, <2>11, <3>1 DEF ParseSetNotFound, Visit
  <2>12. CASE ParseCard(q)
    <3>1. query[q].data.key \in Key
      BY <2>1, <2>12, ParseJsonTyped DEF ParseCard
    <3>2. cards' \in Seq(Card) /\ idMap' \in [Ids -> Card \cup {NoCard}]
      BY <2>12, <3>1, KeepCardTyped DEF ParseCard
    <3> DEFINE target == query[q].target
               key == query[q].data.key
               asked == [key EXCEPT !.set = target.key.set, !.ver = target.key.ver]
    <3>3. OtherVersion(target, key) => Fetching(Parsed(q), KeyUrl(asked)) \in QueryFields
      <4>1. SUFFICES ASSUME target.type = "CARD_KEY" PROVE asked \in Key
        BY <2>1, ParsedTyped, FetchingTyped, UrlTyped DEF OtherVersion
      <4> QED
        BY <2>1, <3>1, <4>1, TargetTyped DEF Key
    <3>4. \A c \in Result : Completed(Parsed(q), c) \in QueryFields
      BY <2>1, ParsedTyped, CompletedTyped
    <3>5. query' \in [Query -> QueryFields]
      BY <2>12, <3>3, <3>4, PutTyped DEF ParseCard, Result
    <3> QED
      BY <2>12, <3>2, <3>5 DEF ParseCard, Visit
  <2>13. CASE ParseFailed(q)
    <3>1. Completed(Parsed(q), ParseJson(query[q].data)) \in QueryFields
      BY <2>1, ParsedTyped, CompletedTyped, ParseJsonTyped
    <3> QED
      BY <2>1, <2>13, <3>1, PutTyped DEF ParseFailed, BadUrl, Visit, store
  <2>14. CASE SkipCompleted(q)
    BY <2>14 DEF SkipCompleted, Visit, store
  <2>15. CASE RemoveDeleted(q)
    BY <2>15, FreeQueryTyped, PutTyped DEF RemoveDeleted, Visit, store
  <2> QED
    BY <1>10, <2>2, <2>3, <2>4, <2>5, <2>6, <2>7, <2>8, <2>9, <2>10, <2>11, <2>12, <2>13,
       <2>14, <2>15 DEF UpdateQuery
<1> QED
  BY <1>1, <1>2, <1>3, <1>4, <1>5, <1>6, <1>7, <1>8, <1>9, <1>10 DEF Next

-----------------------------------------------------------------------------
(* Requests and answers.  A request that is under way is the one its query *)
(* waits for, and what came back for a URL is what the server has there.   *)

Truthful(u, b) ==
  /\ b.kind = "card" => b.key \in CardsAt(u)
  /\ b.kind = "not_found" => CardsAt(u) = {}

RequestOK(q) ==
  /\ client[q].st \in {"active", "answered", "completed"} =>
       query[q].state = "WAITING" /\ client[q].url = query[q].url
  /\ client[q].st \in {"answered", "completed"} => Truthful(client[q].url, client[q].body)
  /\ query[q].state = "PARSE_RESULT" => Truthful(query[q].url, query[q].data)

CardsInCatalog == \A c \in ToSet(cards) : c.key \in Catalog

AnswerInv ==
  /\ StoreTypeOK
  /\ GetNextOnSets
  /\ \A q \in Query : RequestOK(q)
  /\ NegativeCacheSound
  /\ CardsInCatalog

LEMMA AnswerInit == Init => AnswerInv
<1> SUFFICES ASSUME Init PROVE AnswerInv
  OBVIOUS
<1>1. StoreTypeOK
  BY StoreTypeInit
<1>2. GetNextOnSets /\ \A q \in Query : RequestOK(q)
  BY DEF Init, GetNextOnSets, RequestOK, FreeQuery, NoRequest
<1>3. NegativeCacheSound /\ CardsInCatalog
  BY DEF Init, NegativeCacheSound, CardsInCatalog, ToSet
<1> QED
  BY <1>1, <1>2, <1>3 DEF AnswerInv

\* What the constructors of a query's next fields change.
LEMMA CompletedFields ==
  ASSUME NEW f \in QueryFields, NEW c
  PROVE  Completed(f, c).state = "COMPLETED"
  BY DEF Completed, QueryFields

LEMMA FetchingFields ==
  ASSUME NEW f \in QueryFields, NEW u
  PROVE  LET g == Fetching(f, u)
         IN  /\ g.state = "HTTP_GET" /\ g.url = u
             /\ g.target = f.target /\ g.num = f.num /\ g.ver = f.ver
  BY DEF Fetching, QueryFields

LEMMA PutOther ==
  ASSUME StoreTypeOK, NEW q \in Query, NEW r, Put(q, r)
  PROVE  /\ query'[q] = r
         /\ \A p \in Query \ {q} : query'[p] = query[p]
  BY DEF Put, StoreTypeOK

\* A step that leaves q outside WAITING and PARSE_RESULT, and every request as
\* it is, keeps RequestOK.
LEMMA RequestFrame ==
  ASSUME StoreTypeOK, \A p \in Query : RequestOK(p),
         NEW q \in Query, query[q].state # "WAITING", UNCHANGED client,
         NEW r, Put(q, r), r.state \notin {"WAITING", "PARSE_RESULT"}
  PROVE  \A p \in Query : RequestOK(p)'
<1> SUFFICES ASSUME NEW p \in Query PROVE RequestOK(p)'
  OBVIOUS
<1>1. CASE p = q
  BY <1>1, PutOther DEF RequestOK
<1>2. CASE p # q
  BY <1>2, PutOther DEF RequestOK
<1> QED
  BY <1>1, <1>2

\* Only the start of a walk and its next position enter GET_NEXT_IN_SET.
LEMMA SetCardNotFoundGoesOn ==
  ASSUME NEW q \in Query, NEW r \in QueryFields, SetCardNotFound(q, r)
  PROVE  \E g : Put(q, g) /\ g.target = r.target /\ g.state \in {"COMPLETED", "GET_NEXT_IN_SET"}
<1>1. Completed(r, "OK").target = r.target /\ Completed(r, "OK").state = "COMPLETED"
  BY DEF Completed, QueryFields
<1>2. PastNotFound(r) \in QueryFields /\ PastNotFound(r).target = r.target
  BY WalkTyped DEF PastNotFound, QueryFields
<1>3. LET g == [PastNotFound(r) EXCEPT !.state = "GET_NEXT_IN_SET"]
      IN  g.target = r.target /\ g.state = "GET_NEXT_IN_SET"
  BY <1>2 DEF QueryFields
<1> QED
  BY <1>1, <1>3 DEF SetCardNotFound

LEMMA GetNextStep == StoreTypeOK /\ GetNextOnSets /\ [Next]_vars => GetNextOnSets'
<1> SUFFICES ASSUME StoreTypeOK, GetNextOnSets, [Next]_vars PROVE GetNextOnSets'
  OBVIOUS
<1>0. ASSUME NEW q \in Query, NEW r, Put(q, r),
             r.state = "GET_NEXT_IN_SET" => r.target.type = "SET"
      PROVE  GetNextOnSets'
  BY <1>0, PutOther DEF GetNextOnSets
<1>1. CASE UNCHANGED query
  BY <1>1 DEF GetNextOnSets
<1>2. CASE Destroy
  BY <1>2 DEF Destroy, GetNextOnSets, FreeQuery
<1>3. ASSUME NEW q \in Query, NEW t \in Targets, CreateQuery(q, t)
      PROVE  GetNextOnSets'
  <2>1. [FreeQuery EXCEPT !.state = "INIT", !.target = t].state = "INIT"
    BY DEF FreeQuery
  <2> QED
    BY <1>0, <1>3, <2>1 DEF CreateQuery, Put
<1>4. ASSUME NEW q \in Query, DeleteQuery(q)
      PROVE  GetNextOnSets'
  <2>1. query[q] \in QueryFields
    BY DEF StoreTypeOK
  <2>2. [query[q] EXCEPT !.state = "DELETE"].state = "DELETE"
    BY <2>1 DEF QueryFields
  <2> QED
    BY <1>0, <1>4, <2>2 DEF DeleteQuery, Put
<1>5. ASSUME NEW q \in Query, UpdateQuery(q)
      PROVE  GetNextOnSets'
  <2>1. query[q] \in QueryFields /\ Parsed(q) \in QueryFields /\ Parsed(q).target = query[q].target
    BY ParsedTyped DEF StoreTypeOK
  <2>2. CASE UpdateInitCardmarketId(q) \/ UpdateInitCardKey(q)
    BY <1>0, <2>1, <2>2, CompletedFields, FetchingFields
       DEF UpdateInitCardmarketId, UpdateInitCardKey
  <2>3. CASE UpdateInitSet(q)
    <3>1. [query[q] EXCEPT !.state = "GET_NEXT_IN_SET", !.num = 1, !.ver = 0].target
            = query[q].target
      BY <2>1 DEF QueryFields
    <3> QED
      BY <1>0, <2>1, <2>3, <3>1, CompletedFields DEF UpdateInitSet
  <2>4. CASE UpdateGetNextInSet(q)
    <3>1. query[q].target.type = "SET"
      BY <2>4 DEF UpdateGetNextInSet, Visit, GetNextOnSets
    <3>2. PastFound(query[q]).target = query[q].target
      BY <2>1 DEF PastFound, QueryFields
    <3> QED
      BY <1>0, <2>1, <2>4, <3>1, <3>2, FetchingFields DEF UpdateGetNextInSet
  <2>5. CASE UpdateHttpGetKnownBad(q)
    BY <1>0, <2>1, <2>5, CompletedFields, SetCardNotFoundGoesOn DEF UpdateHttpGetKnownBad, KnownBad
  <2>6. CASE UpdateHttpGet(q)
    <3>1. [query[q] EXCEPT !.state = "WAITING"].state = "WAITING"
      BY <2>1 DEF QueryFields
    <3> QED
      BY <1>0, <2>6, <3>1 DEF UpdateHttpGet
  <2>7. CASE UpdateWaiting(q) /\ query' # query
    <3> DEFINE g == [query[q] EXCEPT !.state = "PARSE_RESULT", !.data = client[q].body,
                       !.result = IF client[q].body = NoBody THEN "HTTP_GET_FAILED" ELSE "OK"]
    <3>1. g.state = "PARSE_RESULT"
      BY <2>1 DEF QueryFields
    <3> HIDE DEF g
    <3>2. Put(q, g)
      BY <2>7 DEF UpdateWaiting, g
    <3> QED
      BY <1>0, <3>1, <3>2
  <2>8. CASE ParseSetCard(q)
    <3>1. PastFound(Parsed(q)) \in QueryFields /\ PastFound(Parsed(q)).target = query[q].target
      BY <2>1, WalkTyped DEF PastFound, QueryFields
    <3>2. [PastFound(Parsed(q)) EXCEPT !.state = "GET_NEXT_IN_SET"].target = query[q].target
      BY <3>1 DEF QueryFields
    <3> QED
      BY <1>0, <2>8, <3>2 DEF ParseSetCard
  <2>9. CASE ParseSetNotFound(q)
    BY <1>0, <2>1, <2>9, SetCardNotFoundGoesOn DEF ParseSetNotFound
  <2>10. CASE ParseCard(q) \/ ParseFailed(q)
    BY <1>0, <2>1, <2>10, CompletedFields, FetchingFields DEF ParseCard, ParseFailed
  <2>11. CASE RemoveDeleted(q)
    BY <1>0, <2>11 DEF RemoveDeleted, FreeQuery
  <2> QED
    BY <1>1, <1>5, <2>2, <2>3, <2>4, <2>5, <2>6, <2>7, <2>8, <2>9, <2>10, <2>11
       DEF UpdateQuery, UpdateHttpGetNoToken, SkipCompleted
<1> QED
  BY <1>1, <1>2, <1>3, <1>4, <1>5
     DEF Next, vars, CreateCache, Clear, Refill, BeginUpdate, Answer

LEMMA RequestStep ==
  ASSUME StoreTypeOK, \A p \in Query : RequestOK(p), [Next]_vars
  PROVE  \A p \in Query : RequestOK(p)'
<1>1. CASE UNCHANGED <<query, client>>
  BY <1>1 DEF RequestOK
<1>2. CASE Destroy
  BY <1>2 DEF Destroy, RequestOK, FreeQuery, NoRequest
<1>3. CASE BeginUpdate
  <2> SUFFICES ASSUME NEW p \in Query PROVE RequestOK(p)'
    OBVIOUS
  <2>1. client[p] \in Request /\ client'[p] = UpdatedRequest(client[p]) /\ query'[p] = query[p]
    BY <1>3 DEF BeginUpdate, StoreTypeOK
  <2>2. CASE client[p].st = "doomed"
    BY <2>1, <2>2 DEF UpdatedRequest, NoRequest, RequestOK
  <2>3. CASE client[p].st = "answered"
    <3>1. LET r == [client[p] EXCEPT !.st = "completed"]
          IN  r.st = "completed" /\ r.url = client[p].url /\ r.body = client[p].body
      BY <2>1 DEF Request
    <3>2. client'[p] = [client[p] EXCEPT !.st = "completed"]
      BY <2>1, <2>3 DEF UpdatedRequest
    <3> QED
      BY <2>1, <2>3, <3>1, <3>2 DEF RequestOK
  <2>4. CASE client[p].st \notin {"doomed", "answered"}
    BY <2>1, <2>4 DEF UpdatedRequest, RequestOK
  <2> QED
    BY <2>2, <2>3, <2>4
<1>4. ASSUME NEW q \in Query, NEW t \in Targets, CreateQuery(q, t)
      PROVE  \A p \in Query : RequestOK(p)'
  <2>1. [FreeQuery EXCEPT !.state = "INIT", !.target = t].state = "INIT"
    BY DEF FreeQuery
  <2> QED
    BY <1>4, <2>1, RequestFrame DEF CreateQuery, Put
<1>5. ASSUME NEW q \in Query, DeleteQuery(q)
      PROVE  \A p \in Query : RequestOK(p)'
  <2>1. [query[q] EXCEPT !.state = "DELETE"].state = "DELETE"
    BY DEF StoreTypeOK, QueryFields
  <2> QED
    BY <1>5, <2>1, RequestFrame DEF DeleteQuery, Put
<1>6. ASSUME NEW q \in Query, Answer(q)
      PROVE  \A p \in Query : RequestOK(p)'
  <2>1. PICK b \in ServerBodies(client[q].url)
                     \cup (IF NetworkFails THEN {GarbageBody, NoBody} ELSE {}) :
          client' = [client EXCEPT ![q].st = "answered", ![q].body = b]
    BY <1>6 DEF Answer
  <2>2. Truthful(client[q].url, b)
    BY DEF ServerBodies, Truthful, CardBody, NotFoundBody, GarbageBody, NoBody
  <2>3. /\ client'[q].st = "answered" /\ client'[q].url = client[q].url /\ client'[q].body = b
        /\ \A p \in Query \ {q} : client'[p] = client[p]
    BY <2>1 DEF StoreTypeOK, Request
  <2>4. client[q].st = "active" /\ UNCHANGED query
    BY <1>6 DEF Answer
  <2> QED
    BY <2>2, <2>3, <2>4 DEF RequestOK
<1>7. ASSUME NEW q \in Query, UpdateQuery(q)
      PROVE  \A p \in Query : RequestOK(p)'
  <2>1. query[q] \in QueryFields /\ Parsed(q) \in QueryFields
    BY ParsedTyped DEF StoreTypeOK
  <2>2. CASE UpdateInitCardmarketId(q) \/ UpdateInitCardKey(q)
    BY <2>1, <2>2, RequestFrame, CompletedFields, FetchingFields
       DEF UpdateInitCardmarketId, UpdateInitCardKey, Visit
  <2>3. CASE UpdateInitSet(q)
    <3>1. [query[q] EXCEPT !.state = "GET_NEXT_IN_SET", !.num = 1, !.ver = 0].state
            = "GET_NEXT_IN_SET"
      BY <2>1 DEF QueryFields
    <3> QED
      BY <2>1, <2>3, <3>1, RequestFrame, CompletedFields DEF UpdateInitSet, Visit
  <2>4. CASE UpdateGetNextInSet(q)
    <3>1. PastFound(query[q]).state = query[q].state
      BY <2>1 DEF PastFound, QueryFields
    <3> QED
      BY <2>1, <2>4, <3>1, RequestFrame, FetchingFields DEF UpdateGetNextInSet, Visit
  <2>5. CASE UpdateHttpGetKnownBad(q)
    BY <2>1, <2>5, RequestFrame, CompletedFields, SetCardNotFoundGoesOn
       DEF UpdateHttpGetKnownBad, KnownBad, Visit
  <2>6. CASE UpdateHttpGet(q)
    <3> DEFINE r == [query[q] EXCEPT !.state = "WAITING"]
    <3>1. r.state = "WAITING" /\ r.url = query[q].url
      BY <2>1 DEF QueryFields
    <3>2. Put(q, r) /\ query[q].state = "HTTP_GET"
      BY <2>6 DEF UpdateHttpGet, Visit
    <3>3. /\ client'[q] = [st |-> "active", url |-> query[q].url, body |-> NoBody]
          /\ \A p \in Query \ {q} : client'[p] = client[p]
      BY <2>6 DEF UpdateHttpGet, StoreTypeOK
    <3> HIDE DEF r
    <3>4. /\ query'[q] = r
          /\ \A p \in Query \ {q} : query'[p] = query[p]
      BY <3>2, PutOther
    <3>5. RequestOK(q)'
      BY <3>1, <3>3, <3>4 DEF RequestOK
    <3>6. \A p \in Query \ {q} : RequestOK(p)'
      BY <3>3, <3>4 DEF RequestOK
    <3> QED
      BY <3>5, <3>6
  <2>7. CASE UpdateWaiting(q) /\ client[q].st = "completed"
    <3> DEFINE g == [query[q] EXCEPT !.state = "PARSE_RESULT", !.data = client[q].body,
                       !.result = IF client[q].body = NoBody THEN "HTTP_GET_FAILED" ELSE "OK"]
    <3>1. g.state = "PARSE_RESULT" /\ g.url = query[q].url /\ g.data = client[q].body
      BY <2>1 DEF QueryFields
    <3>2. /\ Put(q, g)
          /\ client[q].st = "completed"
          /\ client' = [client EXCEPT ![q] = Polled(client[q])]
      BY <2>7 DEF UpdateWaiting
    <3> HIDE DEF g
    <3>3. /\ query'[q] = g
          /\ \A p \in Query \ {q} : query'[p] = query[p]
      BY <3>2, PutOther
    <3>4. client'[q].st = "doomed" /\ \A p \in Query \ {q} : client'[p] = client[p]
      BY <3>2 DEF Polled, StoreTypeOK, Request
    <3>5. RequestOK(q)'
      BY <3>1, <3>2, <3>3, <3>4 DEF RequestOK
    <3>6. \A p \in Query \ {q} : RequestOK(p)'
      BY <3>3, <3>4 DEF RequestOK
    <3> QED
      BY <3>5, <3>6
  <2>8. CASE ParseSetCard(q)
    <3>1. PastFound(Parsed(q)) \in QueryFields
      BY <2>1, WalkTyped
    <3>2. [PastFound(Parsed(q)) EXCEPT !.state = "GET_NEXT_IN_SET"].state = "GET_NEXT_IN_SET"
      BY <3>1 DEF QueryFields
    <3> QED
      BY <2>8, <3>2, RequestFrame DEF ParseSetCard, Visit
  <2>9. CASE ParseSetNotFound(q)
    BY <2>1, <2>9, RequestFrame, SetCardNotFoundGoesOn DEF ParseSetNotFound, Visit
  <2>10. CASE ParseCard(q) \/ ParseFailed(q)
    BY <2>1, <2>10, RequestFrame, CompletedFields, FetchingFields
       DEF ParseCard, ParseFailed, Visit
  <2>11. CASE RemoveDeleted(q)
    BY <2>11, RequestFrame DEF RemoveDeleted, FreeQuery, Visit
  <2>12. CASE \/ UpdateWaiting(q) /\ client[q].st # "completed"
              \/ UpdateHttpGetNoToken(q) \/ SkipCompleted(q)
    <3>1. UNCHANGED query /\ UNCHANGED client
      BY <2>12 DEF UpdateWaiting, UpdateHttpGetNoToken, SkipCompleted
    <3> QED
      BY <1>1, <3>1
  <2> QED
    BY <1>7, <2>2, <2>3, <2>4, <2>5, <2>6, <2>7, <2>8, <2>9, <2>10, <2>11, <2>12
       DEF UpdateQuery
<1> QED
  BY <1>1, <1>2, <1>3, <1>4, <1>5, <1>6, <1>7 DEF Next, vars, CreateCache, Clear, Refill

-----------------------------------------------------------------------------
(* The query list and what a pass has left of it. *)

LEMMA RemoveAtTyped ==
  ASSUME NEW S, NEW s \in Seq(S), NEW i \in DOMAIN s
  PROVE  RemoveAt(s, i) \in Seq(S)
<1>1. i \in 1..Len(s) /\ Len(s) \in Nat
  OBVIOUS
<1>2. SubSeq(s, 1, i - 1) \in Seq(S) /\ SubSeq(s, i + 1, Len(s)) \in Seq(S)
  BY <1>1
<1> QED
  BY <1>2 DEF RemoveAt

LEMMA ListTypeStep == ListTypeOK /\ [Next]_vars => ListTypeOK'
<1> SUFFICES ASSUME ListTypeOK, [Next]_vars PROVE ListTypeOK'
  OBVIOUS
<1> USE DEF ListTypeOK
<1>1. CASE UNCHANGED <<queryList, todo>>
  BY <1>1
<1>2. CASE Destroy
  <2>1. <<>> \in Seq(Query)
    OBVIOUS
  <2> QED
    BY <1>2, <2>1 DEF Destroy
<1>3. CASE BeginUpdate
  BY <1>3 DEF BeginUpdate
<1>4. ASSUME NEW q \in Query, NEW t \in Targets, CreateQuery(q, t) PROVE ListTypeOK'
  BY <1>4 DEF CreateQuery, Link
<1>5. ASSUME NEW q \in Query, NEW s, Visit(q, s) PROVE todo' \in Seq(Query)
  BY <1>5 DEF Visit
<1>6. ASSUME NEW q \in Query, RemoveDeleted(q) PROVE ListTypeOK'
  <2>1. queryList' \in Seq(Query)
    BY <1>6, RemoveAtTyped DEF RemoveDeleted, Unlink
  <2> QED
    BY <1>5, <1>6, <2>1 DEF RemoveDeleted
<1>7. ASSUME NEW q \in Query, UpdateQuery(q), ~RemoveDeleted(q) PROVE ListTypeOK'
  <2>1. UNCHANGED queryList /\ \E s : Visit(q, s)
    BY <1>7
       DEF UpdateQuery, UpdateInitCardmarketId, UpdateInitCardKey, UpdateInitSet,
           UpdateGetNextInSet, UpdateHttpGetKnownBad, UpdateHttpGetNoToken, UpdateHttpGet,
           UpdateWaiting, ParseSetCard, ParseSetNotFound, ParseCard, ParseFailed, SkipCompleted
  <2> QED
    BY <1>5, <2>1
<1> QED
  BY <1>1, <1>2, <1>3, <1>4, <1>6, <1>7
     DEF Next, vars, store, CreateCache, Clear, Refill, DeleteQuery, Answer

\* The type invariant holds in every reachable state, for any number of queries,
\* any catalog and bucket, and an application with or without discipline.
THEOREM TypesHold == Spec => []TypeOK
<1> DEFINE Inv == TypeOK /\ GetNextOnSets
<1>1. Init => Inv
  <2>1. Init => ListTypeOK
    BY DEF Init, ListTypeOK
  <2>2. Init => GetNextOnSets
    BY DEF Init, GetNextOnSets, FreeQuery
  <2> QED
    BY <2>1, <2>2, StoreTypeInit DEF TypeOK
<1>2. Inv /\ [Next]_vars => Inv'
  BY StoreTypeStep, ListTypeStep, GetNextStep DEF TypeOK
<1> QED
  BY <1>1, <1>2, PTL DEF Spec

-----------------------------------------------------------------------------
(* The store and the negative cache. *)

LEMMA KeepCardKeys ==
  ASSUME StoreTypeOK, NEW q \in Query, NEW k \in Key, KeepCard(q, k)
  PROVE  /\ ToSet(cards) \subseteq ToSet(cards)'
         /\ \A c \in ToSet(cards)' : c \in ToSet(cards) \/ c.key = k
         /\ \E c \in ToSet(cards)' : c.key = k
<1>1. CASE Cached(k)
  BY <1>1 DEF KeepCard, Cached
<1>2. CASE ~Cached(k)
  <2> DEFINE c == [key |-> k, by |-> q]
  <2>1. c \in Card /\ c.key = k /\ cards \in Seq(Card)
    BY DEF Card, StoreTypeOK
  <2>2. cards' = Append(cards, c)
    BY <1>2 DEF KeepCard, AddCard
  <2> HIDE DEF c
  <2>3. /\ DOMAIN cards' = 1..(Len(cards) + 1) /\ DOMAIN cards = 1..Len(cards)
        /\ \A i \in 1..Len(cards) : cards'[i] = cards[i]
        /\ cards'[Len(cards) + 1] = c
        /\ Len(cards) \in Nat
    BY <2>1, <2>2
  <2>4. ToSet(cards)' = ToSet(cards) \cup {c}
    BY <2>3 DEF ToSet
  <2> QED
    BY <2>1, <2>4
<1> QED
  BY <1>1, <1>2

LEMMA CatalogStep ==
  ASSUME StoreTypeOK, CardsInCatalog, [Next]_vars
  PROVE  CardsInCatalog'
<1>1. CASE UNCHANGED cards
  BY <1>1 DEF CardsInCatalog
<1>2. CASE EmptyStore
  BY <1>2 DEF EmptyStore, CardsInCatalog, ToSet
<1>3. ASSUME NEW q \in Query, ParseSetCard(q) \/ ParseCard(q)
      PROVE  CardsInCatalog'
  <2>1. query[q].data \in Body
    BY DEF StoreTypeOK, QueryFields
  <2>2. KeepCard(q, query[q].data.key) /\ ParseJson(query[q].data) = "OK"
    BY <1>3 DEF ParseSetCard, ParseCard
  <2>3. query[q].data.key \in Catalog /\ query[q].data.key \in Key
    BY <2>1, <2>2, ParseJsonTyped
  <2> QED
    BY <2>2, <2>3, KeepCardKeys DEF CardsInCatalog
<1> QED
  BY <1>1, <1>2, <1>3
     DEF Next, vars, store, UpdateQuery, CreateCache, Clear, Destroy, Refill, BeginUpdate,
         CreateQuery, DeleteQuery, Answer, UpdateInitCardmarketId, UpdateInitCardKey,
         UpdateInitSet, UpdateGetNextInSet, UpdateHttpGetKnownBad, UpdateHttpGetNoToken,
         UpdateHttpGet, UpdateWaiting, ParseSetNotFound, ParseFailed, SkipCompleted,
         RemoveDeleted

LEMMA NegativeCacheStep ==
  ASSUME StoreTypeOK, \A q \in Query : RequestOK(q), NegativeCacheSound, [Next]_vars
  PROVE  NegativeCacheSound'
<1>1. CASE UNCHANGED badUrls
  BY <1>1 DEF NegativeCacheSound
<1>2. CASE Destroy
  BY <1>2 DEF Destroy, NegativeCacheSound
<1>3. ASSUME NEW q \in Query, query[q].state = "PARSE_RESULT",
             ParseJson(query[q].data) = "NOT_FOUND",
             badUrls' = badUrls \cup {query[q].url}
      PROVE  NegativeCacheSound'
  <2>1. query[q].data.kind = "not_found"
    BY <1>3 DEF ParseJson
  <2>2. CardsAt(query[q].url) = {}
    BY <1>3, <2>1 DEF RequestOK, Truthful
  <2> QED
    BY <1>3, <2>2 DEF NegativeCacheSound
<1>4. ASSUME NEW q \in Query, ParseSetNotFound(q) \/ ParseFailed(q)
      PROVE  NegativeCacheSound'
  <2>1. CASE ParseJson(query[q].data) = "NOT_FOUND"
    BY <1>3, <1>4, <2>1 DEF ParseSetNotFound, ParseFailed, BadUrl, Visit
  <2>2. CASE ParseJson(query[q].data) # "NOT_FOUND"
    BY <1>1, <1>4, <2>2 DEF ParseSetNotFound, ParseFailed, BadUrl
  <2> QED
    BY <2>1, <2>2
<1> QED
  BY <1>1, <1>2, <1>4
     DEF Next, vars, UpdateQuery, CreateCache, Clear, Refill, BeginUpdate,
         CreateQuery, DeleteQuery, Answer, UpdateInitCardmarketId, UpdateInitCardKey,
         UpdateInitSet, UpdateGetNextInSet, UpdateHttpGetKnownBad, UpdateHttpGetNoToken,
         UpdateHttpGet, UpdateWaiting, ParseSetCard, ParseCard, SkipCompleted,
         RemoveDeleted

LEMMA AnswerStep == AnswerInv /\ [Next]_vars => AnswerInv'
  BY StoreTypeStep, GetNextStep, RequestStep, NegativeCacheStep, CatalogStep DEF AnswerInv

\* bad_urls is right in every reachable state: whatever fails on the network and
\* whatever the application does, only a URL that the server answered with 404
\* is in it.
THEOREM BadUrlsAreBad == Spec => []NegativeCacheSound
<1>1. Init => AnswerInv
  BY AnswerInit
<1>2. AnswerInv /\ [Next]_vars => AnswerInv'
  BY AnswerStep
<1>3. AnswerInv => NegativeCacheSound
  BY DEF AnswerInv
<1> QED
  BY <1>1, <1>2, <1>3, PTL DEF Spec

-----------------------------------------------------------------------------
(* The set walk.  A walk at (n, v) has left no card of its set behind: every *)
(* card before that position is cached, and it stands at a version only when *)
(* the number has no plain card.                                             *)

CachedKeys == {c.key : c \in ToSet(cards)}

Before(k, n, v) == k.num < n \/ (k.num = n /\ k.ver < v)

Walked(C, s, n, v) ==
  /\ n \in Nat \ {0} /\ v \in Nat
  /\ \A k \in Catalog : k.set = s /\ Before(k, n, v) => k \in C
  /\ v > 0 => PlainKey(s, n, 0) \notin Catalog

Full(C, s) == \A k \in Catalog : k.set = s => k \in C

Walking == {"GET_NEXT_IN_SET", "HTTP_GET", "WAITING", "PARSE_RESULT"}

WalkOK(C, f) ==
  f.target.type = "SET" /\ f.state \in Walking =>
    /\ Walked(C, f.target.set, f.num, f.ver)
    /\ f.state # "GET_NEXT_IN_SET" => f.url = KeyUrl(PlainKey(f.target.set, f.num, f.ver))

WalkInv ==
  /\ AnswerInv
  /\ \A q \in Query : WalkOK(CachedKeys, query[q])
  /\ FullSetSound

LEMMA CachedIn == \A k : Cached(k) <=> k \in CachedKeys
  BY DEF Cached, CachedKeys

LEMMA WalkedMore ==
  ASSUME NEW C, NEW D, C \subseteq D, NEW s, NEW n, NEW v, Walked(C, s, n, v)
  PROVE  Walked(D, s, n, v)
  BY DEF Walked

LEMMA KeyFields ==
  ASSUME NEW k \in Catalog, Enumerable
  PROVE  /\ k.num \in Nat /\ k.ver \in Nat /\ k = PlainKey(k.set, k.num, k.ver)
         /\ k.num > 0
<1>1. k \in Key /\ k.mark = "plain" /\ k.num > 0
  BY CatalogAssumption DEF Enumerable
<1> QED
  BY <1>1 DEF Key, PlainKey

LEMMA WalkedStart ==
  ASSUME Enumerable, NEW C, NEW s
  PROVE  Walked(C, s, 1, 0)
<1>1. \A k \in Catalog : k.num \in Nat \ {0} /\ k.ver \in Nat
  BY KeyFields
<1> QED
  BY <1>1 DEF Walked, Before

\* The walk may go on from a position whose card is cached ...
LEMMA WalkedFound ==
  ASSUME Enumerable, NEW C, NEW s, NEW n, NEW v, Walked(C, s, n, v),
         PlainKey(s, n, v) \in Catalog, PlainKey(s, n, v) \in C
  PROVE  /\ v > 0 => Walked(C, s, n, v + 1)
         /\ v = 0 => Walked(C, s, n + 1, 0)
<1>1. n \in Nat \ {0} /\ v \in Nat
  BY DEF Walked
<1>2. ASSUME NEW k \in Catalog, k.set = s, k.num = n, k.ver = v PROVE k \in C
  BY <1>2, KeyFields
<1>3. ASSUME NEW k \in Catalog, k.set = s, k.num = n, v = 0 PROVE k.ver = 0
  BY <1>3, KeyFields DEF Enumerable
<1>4. ASSUME v > 0 PROVE Walked(C, s, n, v + 1)
  <2> SUFFICES ASSUME NEW k \in Catalog, k.set = s, Before(k, n, v + 1) PROVE k \in C
    BY <1>1, <1>4 DEF Walked
  <2>1. Before(k, n, v) \/ (k.num = n /\ k.ver = v)
    BY <1>1, KeyFields DEF Before
  <2> QED
    BY <1>2, <2>1 DEF Walked
<1>5. ASSUME v = 0 PROVE Walked(C, s, n + 1, 0)
  <2> SUFFICES ASSUME NEW k \in Catalog, k.set = s, Before(k, n + 1, 0) PROVE k \in C
    BY <1>1 DEF Walked
  <2>1. Before(k, n, v) \/ k.num = n
    BY <1>1, KeyFields DEF Before
  <2>2. k.num = n => k.ver = v
    BY <1>3, <1>5
  <2> QED
    BY <1>2, <2>1, <2>2 DEF Walked
<1> QED
  BY <1>4, <1>5

\* ... and from one that has no card, unless it is the first version: then the
\* walk has seen the whole set.
LEMMA WalkedNotFound ==
  ASSUME Enumerable, NEW C, NEW s, NEW n, NEW v, Walked(C, s, n, v),
         PlainKey(s, n, v) \notin Catalog
  PROVE  /\ v = 0 => Walked(C, s, n, 1)
         /\ v > 1 => Walked(C, s, n + 1, 0)
         /\ v = 1 => Full(C, s)
<1>1. n \in Nat \ {0} /\ v \in Nat
  BY DEF Walked
<1>2. ASSUME NEW k \in Catalog, k.set = s, k.num = n, v > 0 PROVE k.ver < v
  <2>1. k.num \in Nat /\ k.ver \in Nat /\ k = PlainKey(s, n, k.ver)
    BY <1>2, KeyFields
  <2>2. k.ver # 0
    BY <1>2, <2>1 DEF Walked
  <2>3. ~(v \in 1..k.ver)
    BY <1>2 DEF Enumerable
  <2> QED
    BY <1>1, <1>2, <2>1, <2>2, <2>3
<1>3. ASSUME v = 0 PROVE Walked(C, s, n, 1)
  <2> SUFFICES ASSUME NEW k \in Catalog, k.set = s, Before(k, n, 1) PROVE k \in C
    BY <1>1, <1>3 DEF Walked
  <2>1. k.num \in Nat /\ k.ver \in Nat /\ k = PlainKey(s, k.num, k.ver)
    BY KeyFields
  <2>2. k.num < n
    BY <1>1, <1>3, <2>1 DEF Before
  <2> QED
    BY <2>2 DEF Walked, Before
<1>4. ASSUME v > 1 PROVE Walked(C, s, n + 1, 0)
  <2> SUFFICES ASSUME NEW k \in Catalog, k.set = s, Before(k, n + 1, 0) PROVE k \in C
    BY <1>1 DEF Walked
  <2>1. Before(k, n, v)
    BY <1>1, <1>2, <1>4, KeyFields DEF Before
  <2> QED
    BY <2>1 DEF Walked
<1>5. ASSUME v = 1 PROVE Full(C, s)
  <2> SUFFICES ASSUME NEW k \in Catalog, k.set = s PROVE k \in C
    BY DEF Full
  <2>1. k.num \in Nat /\ k.ver \in Nat
    BY KeyFields
  <2>2. \A e \in {0, 1} : PlainKey(s, n, e) \notin Catalog
    BY <1>5 DEF Walked
  <2>3. ~(n \in 1..k.num)
    BY <2>2 DEF Enumerable
  <2>4. Before(k, n, v)
    BY <1>1, <2>1, <2>3 DEF Before
  <2> QED
    BY <2>4 DEF Walked
<1> QED
  BY <1>3, <1>4, <1>5

LEMMA WalkInit == Init => WalkInv
<1> SUFFICES ASSUME Init PROVE WalkInv
  OBVIOUS
<1>1. \A q \in Query : WalkOK(CachedKeys, query[q])
  BY DEF Init, WalkOK, FreeQuery, NoTarget
<1>2. FullSetSound
  BY DEF Init, FullSetSound
<1> QED
  BY <1>1, <1>2, AnswerInit DEF WalkInv

\* Only Clear and Destroy take cards away.
LEMMA KeysGrow ==
  ASSUME StoreTypeOK, [Next]_vars, ~Clear, ~Destroy
  PROVE  CachedKeys \subseteq CachedKeys'
<1>1. CASE UNCHANGED cards
  BY <1>1 DEF CachedKeys
<1>2. ASSUME NEW q \in Query, ParseSetCard(q) \/ ParseCard(q)
      PROVE  CachedKeys \subseteq CachedKeys'
  <2>1. query[q].data \in Body
    BY DEF StoreTypeOK, QueryFields
  <2>2. KeepCard(q, query[q].data.key) /\ ParseJson(query[q].data) = "OK"
    BY <1>2 DEF ParseSetCard, ParseCard
  <2>3. query[q].data.key \in Key
    BY <2>1, <2>2, ParseJsonTyped
  <2> QED
    BY <2>2, <2>3, KeepCardKeys DEF CachedKeys
<1> QED
  BY <1>1, <1>2
     DEF Next, vars, store, UpdateQuery, CreateCache, Refill, BeginUpdate,
         CreateQuery, DeleteQuery, Answer, UpdateInitCardmarketId, UpdateInitCardKey,
         UpdateInitSet, UpdateGetNextInSet, UpdateHttpGetKnownBad, UpdateHttpGetNoToken,
         UpdateHttpGet, UpdateWaiting, ParseSetNotFound, ParseFailed, SkipCompleted,
         RemoveDeleted

\* While no card goes, the walks and the full sets that a step does not touch
\* stay right.
LEMMA WalkFrame ==
  ASSUME StoreTypeOK, \A p \in Query : WalkOK(CachedKeys, query[p]),
         CachedKeys \subseteq CachedKeys',
         NEW q \in Query, NEW r, Put(q, r), WalkOK(CachedKeys', r)
  PROVE  \A p \in Query : WalkOK(CachedKeys', query'[p])
<1> SUFFICES ASSUME NEW p \in Query PROVE WalkOK(CachedKeys', query'[p])
  OBVIOUS
<1>1. CASE p = q
  BY <1>1, PutOther
<1>2. CASE p # q
  <2>1. query'[p] = query[p] /\ WalkOK(CachedKeys, query[p])
    BY <1>2, PutOther
  <2> QED
    BY <2>1, WalkedMore DEF WalkOK
<1> QED
  BY <1>1, <1>2

LEMMA WalkStays ==
  ASSUME \A p \in Query : WalkOK(CachedKeys, query[p]),
         CachedKeys \subseteq CachedKeys', UNCHANGED query
  PROVE  \A p \in Query : WalkOK(CachedKeys', query'[p])
  BY WalkedMore DEF WalkOK

LEMMA FullFrame ==
  ASSUME FullSetSound, CachedKeys \subseteq CachedKeys',
         \A s \in fullSets' : s \in fullSets \/ Full(CachedKeys', s)
  PROVE  FullSetSound'
<1>1. \A s \in fullSets : Full(CachedKeys, s)
  BY CachedIn DEF FullSetSound, Full
<1>2. \A s \in fullSets' : Full(CachedKeys', s)
  BY <1>1 DEF Full
<1>3. \A k : Cached(k)' <=> k \in CachedKeys'
  BY DEF Cached, CachedKeys
<1> QED
  BY <1>2, <1>3 DEF FullSetSound, Full

LEMMA NotFoundStep ==
  ASSUME Enumerable, NEW q \in Query, NEW r \in QueryFields, NEW C,
         Walked(C, r.target.set, r.num, r.ver),
         PlainKey(r.target.set, r.num, r.ver) \notin Catalog,
         SetCardNotFound(q, r)
  PROVE  /\ \E g : Put(q, g) /\ WalkOK(C, g)
         /\ \A s \in fullSets' : s \in fullSets \/ Full(C, s)
<1>1. CASE r.ver = 1
  <2>1. Completed(r, "OK").state = "COMPLETED"
    BY CompletedFields
  <2>2. Put(q, Completed(r, "OK")) /\ fullSets' = fullSets \cup {r.target.set}
    BY <1>1 DEF SetCardNotFound
  <2>3. Full(C, r.target.set)
    BY <1>1, WalkedNotFound
  <2> QED
    BY <2>1, <2>2, <2>3 DEF WalkOK, Walking
<1>2. CASE r.ver # 1
  <2> DEFINE g == [PastNotFound(r) EXCEPT !.state = "GET_NEXT_IN_SET"]
  <2>1. r.ver \in Nat /\ r.num \in Nat
    BY DEF QueryFields
  <2>2. /\ PastNotFound(r) \in QueryFields /\ PastNotFound(r).target = r.target
        /\ r.ver = 0 => PastNotFound(r).num = r.num /\ PastNotFound(r).ver = 1
        /\ r.ver > 0 => PastNotFound(r).num = r.num + 1 /\ PastNotFound(r).ver = 0
    <3>1. PastNotFound(r) \in QueryFields
      BY WalkTyped
    <3>2. CASE r.ver = 0
      <4>1. PastNotFound(r) = [r EXCEPT !.ver = 1]
        BY <3>2 DEF PastNotFound
      <4> QED
        BY <3>1, <3>2, <4>1 DEF QueryFields
    <3>3. CASE r.ver > 0
      <4>1. PastNotFound(r) = [r EXCEPT !.ver = 0, !.num = r.num + 1]
        BY <3>3 DEF PastNotFound
      <4>2. /\ [r EXCEPT !.ver = 0, !.num = r.num + 1].num = r.num + 1
            /\ [r EXCEPT !.ver = 0, !.num = r.num + 1].ver = 0
            /\ [r EXCEPT !.ver = 0, !.num = r.num + 1].target = r.target
        BY DEF QueryFields
      <4> QED
        BY <2>1, <3>1, <3>3, <4>1, <4>2
    <3> QED
      BY <2>1, <3>2, <3>3
  <2>3. /\ g.target = r.target /\ g.state = "GET_NEXT_IN_SET"
        /\ g.num = PastNotFound(r).num /\ g.ver = PastNotFound(r).ver
    BY <2>2 DEF QueryFields
  <2>4. Put(q, g) /\ UNCHANGED fullSets
    BY <1>2 DEF SetCardNotFound
  <2> HIDE DEF g
  <2>5. Walked(C, g.target.set, g.num, g.ver)
    BY <1>2, <2>1, <2>2, <2>3, WalkedNotFound
  <2> QED
    BY <2>3, <2>4, <2>5 DEF WalkOK
<1> QED
  BY <1>1, <1>2

LEMMA FoundStep ==
  ASSUME Enumerable, NEW f \in QueryFields, NEW C,
         Walked(C, f.target.set, f.num, f.ver),
         PlainKey(f.target.set, f.num, f.ver) \in Catalog,
         PlainKey(f.target.set, f.num, f.ver) \in C
  PROVE  LET g == [PastFound(f) EXCEPT !.state = "GET_NEXT_IN_SET"]
         IN  /\ Walked(C, g.target.set, g.num, g.ver)
             /\ g.state = "GET_NEXT_IN_SET"
             /\ f.state = "GET_NEXT_IN_SET" => g = PastFound(f)
<1>1. f.ver \in Nat /\ f.num \in Nat
  BY DEF QueryFields
<1>2. /\ PastFound(f) \in QueryFields /\ PastFound(f).target = f.target
      /\ PastFound(f).state = f.state
      /\ f.ver = 0 => PastFound(f).num = f.num + 1 /\ PastFound(f).ver = 0
      /\ f.ver > 0 => PastFound(f).num = f.num /\ PastFound(f).ver = f.ver + 1
  BY <1>1, WalkTyped DEF PastFound, QueryFields
<1> DEFINE g == [PastFound(f) EXCEPT !.state = "GET_NEXT_IN_SET"]
<1>3. /\ g.target = f.target /\ g.state = "GET_NEXT_IN_SET"
      /\ g.num = PastFound(f).num /\ g.ver = PastFound(f).ver
      /\ f.state = "GET_NEXT_IN_SET" => g = PastFound(f)
  BY <1>2 DEF QueryFields
<1> HIDE DEF g
<1>4. Walked(C, g.target.set, g.num, g.ver)
  BY <1>1, <1>2, <1>3, WalkedFound
<1> QED
  BY <1>3, <1>4 DEF g

\* Where a walk's URL leads: to the card the walk stands at, if there is one.
LEMMA WalkUrl ==
  ASSUME ServerHonest, StoreTypeOK, NEW q \in Query, WalkOK(CachedKeys, query[q]),
         query[q].target.type = "SET", query[q].state \in Walking
  PROVE  /\ NextKey(q) \in Key
         /\ CardsAt(KeyUrl(NextKey(q))) = {NextKey(q)} \cap Catalog
         /\ NextKey(q) = PlainKey(query[q].target.set, query[q].num, query[q].ver)
<1>1. query[q] \in QueryFields
  BY DEF StoreTypeOK
<1>2. NextKey(q) \in Key
  BY <1>1, NextKeyTyped
<1> QED
  BY <1>2 DEF ServerHonest, HonestAbout, NextKey

LEMMA WalkStep ==
  ASSUME ServerHonest, Enumerable, Disciplined, WalkInv, [Next]_vars
  PROVE  (\A p \in Query : WalkOK(CachedKeys', query'[p])) /\ FullSetSound'
<1> DEFINE Goal == (\A p \in Query : WalkOK(CachedKeys', query'[p])) /\ FullSetSound'
<1>0. /\ StoreTypeOK /\ GetNextOnSets /\ CardsInCatalog /\ NegativeCacheSound
      /\ \A p \in Query : RequestOK(p)
      /\ \A p \in Query : WalkOK(CachedKeys, query[p])
      /\ FullSetSound
  BY DEF WalkInv, AnswerInv
<1>1. CASE Clear
  <2>1. \A p \in Query : query'[p].state = "FREE"
    BY <1>1 DEF Clear
  <2>2. fullSets' = {}
    BY <1>1 DEF Clear, EmptyStore
  <2> QED
    BY <2>1, <2>2 DEF WalkOK, Walking, FullSetSound
<1>2. CASE Destroy
  <2>1. \A p \in Query : query'[p].state = "FREE"
    BY <1>2 DEF Destroy, FreeQuery
  <2>2. fullSets' = {}
    BY <1>2 DEF Destroy, EmptyStore
  <2> QED
    BY <2>1, <2>2 DEF WalkOK, Walking, FullSetSound
<1>3. ASSUME ~Clear, ~Destroy PROVE Goal
  <2>0. CachedKeys \subseteq CachedKeys'
    BY <1>0, <1>3, KeysGrow
  <2>1. ASSUME UNCHANGED query, UNCHANGED fullSets PROVE Goal
    BY <1>0, <2>0, <2>1, WalkStays, FullFrame
  <2>2. ASSUME NEW q \in Query, NEW r, Put(q, r), WalkOK(CachedKeys', r),
               \A s \in fullSets' : s \in fullSets \/ Full(CachedKeys', s)
        PROVE  Goal
    BY <1>0, <2>0, <2>2, WalkFrame, FullFrame
  <2>3. ASSUME NEW q \in Query, NEW r, Put(q, r),
               r.state \notin Walking \/ r.target.type # "SET", UNCHANGED fullSets
        PROVE  Goal
    BY <2>2, <2>3 DEF WalkOK
  <2>4. ASSUME NEW q \in Query, NEW t \in Targets, CreateQuery(q, t)
        PROVE  Goal
    <3>1. [FreeQuery EXCEPT !.state = "INIT", !.target = t].state \notin Walking
      BY DEF FreeQuery, Walking
    <3> QED
      BY <2>3, <2>4, <3>1 DEF CreateQuery, Put, store
  <2>5. ASSUME NEW q \in Query, DeleteQuery(q)
        PROVE  Goal
    <3>1. [query[q] EXCEPT !.state = "DELETE"].state \notin Walking
      BY <1>0 DEF StoreTypeOK, QueryFields, Walking
    <3> QED
      BY <2>3, <2>5, <3>1 DEF DeleteQuery, Put, store
  <2>6. ASSUME NEW q \in Query, UpdateQuery(q)
        PROVE  Goal
    <3>0. /\ query[q] \in QueryFields /\ Parsed(q) \in QueryFields
          /\ query[q].data \in Body
      BY <1>0, ParsedTyped DEF StoreTypeOK, QueryFields
    <3>00. /\ Parsed(q).target = query[q].target /\ Parsed(q).state = query[q].state
           /\ Parsed(q).num = query[q].num /\ Parsed(q).ver = query[q].ver
      BY <3>0 DEF Parsed, QueryFields
    <3>1. CASE UpdateInitCardmarketId(q) \/ UpdateInitCardKey(q)
      <4>1. \A u : Fetching(query[q], u).target = query[q].target
        BY <3>0, FetchingFields
      <4>2. \A c : Completed(query[q], c).state \notin Walking
        BY <3>0, CompletedFields DEF Walking
      <4> QED
        BY <2>3, <3>1, <4>1, <4>2 DEF UpdateInitCardmarketId, UpdateInitCardKey, store
    <3>2. CASE UpdateInitSet(q)
      <4> DEFINE g == [query[q] EXCEPT !.state = "GET_NEXT_IN_SET", !.num = 1, !.ver = 0]
      <4>1. g.state = "GET_NEXT_IN_SET" /\ g.num = 1 /\ g.ver = 0
        BY <3>0 DEF QueryFields
      <4>2. WalkOK(CachedKeys', g)
        BY <4>1, WalkedStart DEF WalkOK
      <4>3. Completed(query[q], "OK").state \notin Walking
        BY <3>0, CompletedFields DEF Walking
      <4>4. Put(q, g) \/ Put(q, Completed(query[q], "OK"))
        BY <3>2 DEF UpdateInitSet
      <4>5. UNCHANGED fullSets
        BY <3>2 DEF UpdateInitSet, store
      <4> HIDE DEF g
      <4> QED
        BY <2>2, <2>3, <4>2, <4>3, <4>4, <4>5
    <3>3. CASE UpdateGetNextInSet(q)
      <4>1. query[q].state = "GET_NEXT_IN_SET" /\ query[q].target.type = "SET"
        BY <1>0, <3>3 DEF UpdateGetNextInSet, Visit, GetNextOnSets
      <4>2. /\ Walked(CachedKeys', query[q].target.set, query[q].num, query[q].ver)
            /\ NextKey(q) = PlainKey(query[q].target.set, query[q].num, query[q].ver)
        BY <1>0, <2>0, <4>1, WalkedMore, WalkUrl DEF WalkOK, Walking
      <4>3. CASE Cached(NextKey(q)) /\ Put(q, PastFound(query[q]))
        <5>1. NextKey(q) \in Catalog /\ NextKey(q) \in CachedKeys'
          BY <1>0, <2>0, <4>3, CachedIn DEF CardsInCatalog, Cached
        <5>2. WalkOK(CachedKeys', PastFound(query[q]))
          BY <3>0, <4>1, <4>2, <5>1, FoundStep DEF WalkOK
        <5> QED
          BY <2>2, <3>3, <4>3, <5>2 DEF UpdateGetNextInSet, store
      <4>4. CASE Put(q, Fetching(query[q], KeyUrl(NextKey(q))))
        <5>1. WalkOK(CachedKeys', Fetching(query[q], KeyUrl(NextKey(q))))
          BY <3>0, <4>2, FetchingFields DEF WalkOK
        <5> QED
          BY <2>2, <3>3, <4>4, <5>1 DEF UpdateGetNextInSet, store
      <4> QED
        BY <3>3, <4>3, <4>4 DEF UpdateGetNextInSet
    <3>4. CASE UpdateHttpGetKnownBad(q)
      <4>1. query[q].state = "HTTP_GET" /\ query[q].url \in badUrls /\ KnownBad(q)
        BY <3>4 DEF UpdateHttpGetKnownBad, Visit
      <4>2. CASE query[q].target.type = "SET"
        <5>1. /\ Walked(CachedKeys', query[q].target.set, query[q].num, query[q].ver)
              /\ query[q].url = KeyUrl(NextKey(q))
              /\ NextKey(q) = PlainKey(query[q].target.set, query[q].num, query[q].ver)
          BY <1>0, <2>0, <4>1, <4>2, WalkedMore, WalkUrl DEF WalkOK, Walking
        <5>2. NextKey(q) \notin Catalog
          BY <1>0, <4>1, <4>2, <5>1, WalkUrl DEF NegativeCacheSound, Walking
        <5>3. SetCardNotFound(q, query[q])
          BY <4>1, <4>2 DEF KnownBad
        <5> QED
          BY <2>2, <3>0, <5>1, <5>2, <5>3, NotFoundStep
      <4>3. CASE query[q].target.type # "SET"
        <5>1. Completed(query[q], "NOT_FOUND").state \notin Walking
          BY <3>0, CompletedFields DEF Walking
        <5> QED
          BY <2>3, <4>1, <4>3, <5>1 DEF KnownBad
      <4> QED
        BY <4>2, <4>3
    <3>5. CASE UpdateHttpGet(q)
      <4> DEFINE g == [query[q] EXCEPT !.state = "WAITING"]
      <4>1. /\ g.state = "WAITING" /\ g.target = query[q].target /\ g.url = query[q].url
            /\ g.num = query[q].num /\ g.ver = query[q].ver
        BY <3>0 DEF QueryFields
      <4>2. Put(q, g) /\ UNCHANGED fullSets /\ query[q].state = "HTTP_GET"
        BY <3>5 DEF UpdateHttpGet, Visit, store
      <4> HIDE DEF g
      <4>3. WalkOK(CachedKeys', g)
        BY <1>0, <2>0, <4>1, <4>2, WalkedMore DEF WalkOK, Walking
      <4> QED
        BY <2>2, <4>2, <4>3
    <3>6. CASE UpdateWaiting(q) /\ client[q].st = "completed"
      <4> DEFINE g == [query[q] EXCEPT !.state = "PARSE_RESULT", !.data = client[q].body,
                         !.result = IF client[q].body = NoBody THEN "HTTP_GET_FAILED" ELSE "OK"]
      <4>1. /\ g.state = "PARSE_RESULT" /\ g.target = query[q].target /\ g.url = query[q].url
            /\ g.num = query[q].num /\ g.ver = query[q].ver
        BY <3>0 DEF QueryFields
      <4>2. Put(q, g) /\ UNCHANGED fullSets /\ query[q].state = "WAITING"
        BY <3>6 DEF UpdateWaiting, Visit, store
      <4> HIDE DEF g
      <4>3. WalkOK(CachedKeys', g)
        BY <1>0, <2>0, <4>1, <4>2, WalkedMore DEF WalkOK, Walking
      <4> QED
        BY <2>2, <4>2, <4>3
    <3>7. CASE ParseSetCard(q)
      <4> DEFINE g == [PastFound(Parsed(q)) EXCEPT !.state = "GET_NEXT_IN_SET"]
      <4>1. /\ query[q].state = "PARSE_RESULT" /\ query[q].target.type = "SET"
            /\ ParseJson(query[q].data) = "OK"
            /\ KeepCard(q, query[q].data.key)
            /\ Put(q, g)
            /\ UNCHANGED fullSets
        BY <3>7 DEF ParseSetCard, Visit
      <4>2. /\ Walked(CachedKeys', query[q].target.set, query[q].num, query[q].ver)
            /\ query[q].url = KeyUrl(NextKey(q))
            /\ NextKey(q) = PlainKey(query[q].target.set, query[q].num, query[q].ver)
        BY <1>0, <2>0, <4>1, WalkedMore, WalkUrl DEF WalkOK, Walking
      <4>3. query[q].data.kind = "card"
        BY <4>1 DEF ParseJson
      <4>4. query[q].data.key = NextKey(q) /\ NextKey(q) \in Catalog
        BY <1>0, <4>1, <4>2, <4>3, WalkUrl DEF RequestOK, Truthful, Walking
      <4>5. NextKey(q) \in CachedKeys'
        <5>1. query[q].data.key \in Key
          BY <3>0, <4>1, ParseJsonTyped
        <5> QED
          BY <1>0, <4>1, <4>4, <5>1, KeepCardKeys DEF CachedKeys
      <4> HIDE DEF g
      <4>6. Walked(CachedKeys', g.target.set, g.num, g.ver) /\ g.state = "GET_NEXT_IN_SET"
        BY <3>0, <3>00, <4>2, <4>4, <4>5, FoundStep DEF g
      <4>7. WalkOK(CachedKeys', g)
        BY <4>6 DEF WalkOK
      <4> QED
        BY <2>2, <4>1, <4>7
    <3>8. CASE ParseSetNotFound(q)
      <4>1. /\ query[q].state = "PARSE_RESULT" /\ query[q].target.type = "SET"
            /\ ParseJson(query[q].data) = "NOT_FOUND"
            /\ SetCardNotFound(q, Parsed(q))
        BY <3>8 DEF ParseSetNotFound, Visit
      <4>2. /\ Walked(CachedKeys', query[q].target.set, query[q].num, query[q].ver)
            /\ query[q].url = KeyUrl(NextKey(q))
            /\ NextKey(q) = PlainKey(query[q].target.set, query[q].num, query[q].ver)
        BY <1>0, <2>0, <4>1, WalkedMore, WalkUrl DEF WalkOK, Walking
      <4>3. query[q].data.kind = "not_found"
        BY <4>1 DEF ParseJson
      <4>4. NextKey(q) \notin Catalog
        BY <1>0, <4>1, <4>2, <4>3, WalkUrl DEF RequestOK, Truthful, Walking
      <4> QED
        BY <2>2, <3>0, <3>00, <4>1, <4>2, <4>4, NotFoundStep
    <3>9. CASE ParseCard(q)
      <4>1. query[q].target.type # "SET" /\ UNCHANGED fullSets
        BY <3>9 DEF ParseCard
      <4>2. \A u : Fetching(Parsed(q), u).target = query[q].target
        BY <3>0, <3>00, FetchingFields
      <4>3. \A c : Completed(Parsed(q), c).state \notin Walking
        BY <3>0, CompletedFields DEF Walking
      <4> QED
        BY <2>3, <3>9, <4>1, <4>2, <4>3 DEF ParseCard
    <3>10. CASE ParseFailed(q)
      <4>1. \A c : Completed(Parsed(q), c).state \notin Walking
        BY <3>0, CompletedFields DEF Walking
      <4> QED
        BY <2>3, <3>10, <4>1 DEF ParseFailed, store
    <3>11. CASE RemoveDeleted(q)
      <4>1. FreeQuery.state \notin Walking
        BY DEF FreeQuery, Walking
      <4> QED
        BY <2>3, <3>11, <4>1 DEF RemoveDeleted, store
    <3>12. CASE \/ UpdateWaiting(q) /\ client[q].st # "completed"
                \/ UpdateHttpGetNoToken(q) \/ SkipCompleted(q)
      BY <2>1, <3>12 DEF UpdateWaiting, UpdateHttpGetNoToken, SkipCompleted, store
    <3> QED
      BY <2>6, <3>1, <3>2, <3>3, <3>4, <3>5, <3>6, <3>7, <3>8, <3>9, <3>10, <3>11, <3>12
         DEF UpdateQuery
  <2> HIDE DEF Goal
  <2> QED
    BY <1>3, <2>1, <2>4, <2>5, <2>6
       DEF Next, vars, store, CreateCache, Refill, BeginUpdate, Answer
<1> QED
  BY <1>1, <1>2, <1>3

\* A set the cache holds to be full has every card Scryfall has of it, when the
\* server answers a key with its card, the set's numbers have no gap, and the
\* application does not clear the cache under a query.
THEOREM FullSetsAreFull ==
  ASSUME ServerHonest, Enumerable, Disciplined
  PROVE  Spec => []FullSetSound
<1>1. Init => WalkInv
  BY WalkInit
<1>2. WalkInv /\ [Next]_vars => WalkInv'
  BY AnswerStep, WalkStep DEF WalkInv
<1>3. WalkInv => FullSetSound
  BY DEF WalkInv
<1> QED
  BY <1>1, <1>2, <1>3, PTL DEF Spec

-----------------------------------------------------------------------------
(* Sequences: suffixes as tails, removal of an element. *)

\* s is what is left of t from some place on.
TailOf(s, t) ==
  /\ Len(s) <= Len(t)
  /\ \A i \in 1..Len(s) : s[i] = t[Len(t) - Len(s) + i]

LEMMA SuffixIsTail ==
  ASSUME NEW S, NEW s \in Seq(S), NEW t \in Seq(S)
  PROVE  IsSuffix(s, t) <=> TailOf(s, t)
<1> DEFINE rs == Reverse(s)
           rt == Reverse(t)
<1>1. /\ Len(s) \in Nat /\ Len(t) \in Nat
      /\ rs \in Seq(S) /\ Len(rs) = Len(s) /\ \A i \in 1..Len(s) : rs[i] = s[Len(s) - i + 1]
      /\ rt \in Seq(S) /\ Len(rt) = Len(t) /\ \A i \in 1..Len(t) : rt[i] = t[Len(t) - i + 1]
  BY DEF Reverse
<1> HIDE DEF rs, rt
<1>2. ASSUME Len(s) <= Len(t)
      PROVE  SubSeq(rs, 1, Len(rs)) = SubSeq(rt, 1, Len(rs))
               <=> \A i \in 1..Len(s) : rs[i] = rt[i]
  <2>1. /\ SubSeq(rs, 1, Len(rs)) = [i \in 1..Len(s) |-> rs[i]]
        /\ SubSeq(rt, 1, Len(rs)) = [i \in 1..Len(s) |-> rt[i]]
    BY <1>1, <1>2
  <2> QED
    BY <2>1
<1>3. ASSUME Len(s) <= Len(t), \A i \in 1..Len(s) : rs[i] = rt[i]
      PROVE  \A i \in 1..Len(s) : s[i] = t[Len(t) - Len(s) + i]
  <2> SUFFICES ASSUME NEW i \in 1..Len(s) PROVE s[i] = t[Len(t) - Len(s) + i]
    OBVIOUS
  <2> DEFINE j == Len(s) - i + 1
  <2>1. j \in 1..Len(s) /\ j \in 1..Len(t)
    BY <1>1, <1>3
  <2>2. rs[j] = s[Len(s) - j + 1] /\ rt[j] = t[Len(t) - j + 1] /\ rs[j] = rt[j]
    BY <1>1, <1>3, <2>1
  <2>3. Len(s) - j + 1 = i /\ Len(t) - j + 1 = Len(t) - Len(s) + i
    BY <1>1
  <2> QED
    BY <2>2, <2>3
<1>4. ASSUME Len(s) <= Len(t), \A i \in 1..Len(s) : s[i] = t[Len(t) - Len(s) + i]
      PROVE  \A i \in 1..Len(s) : rs[i] = rt[i]
  <2> SUFFICES ASSUME NEW i \in 1..Len(s) PROVE rs[i] = rt[i]
    OBVIOUS
  <2> DEFINE j == Len(s) - i + 1
  <2>1. j \in 1..Len(s) /\ s[j] = t[Len(t) - Len(s) + j]
    BY <1>1, <1>4
  <2> QED
    BY <1>1, <1>4, <2>1
<1> QED
  BY <1>1, <1>2, <1>3, <1>4 DEF IsSuffix, IsPrefix, TailOf, rs, rt

LEMMA TailOfTail ==
  ASSUME NEW S, NEW s \in Seq(S), NEW t \in Seq(S), s # <<>>, TailOf(s, t)
  PROVE  /\ TailOf(Tail(s), t)
         /\ Head(s) = t[Len(t) - Len(s) + 1]
         /\ Len(t) - Len(s) + 1 \in 1..Len(t)
         /\ Len(s) > 0 /\ Len(Tail(s)) = Len(s) - 1
         /\ \A i \in 1..Len(Tail(s)) : Tail(s)[i] = s[i + 1]
<1>1. /\ Len(s) \in Nat /\ Len(t) \in Nat /\ Len(s) > 0
      /\ Len(Tail(s)) = Len(s) - 1
      /\ Head(s) = s[1]
      /\ \A i \in 1..(Len(s) - 1) : Tail(s)[i] = s[i + 1]
  OBVIOUS
<1> QED
  BY <1>1 DEF TailOf

LEMMA RemoveAtProperties ==
  ASSUME NEW S, NEW s \in Seq(S), NEW i \in 1..Len(s)
  PROVE  /\ RemoveAt(s, i) \in Seq(S)
         /\ Len(RemoveAt(s, i)) = Len(s) - 1
         /\ \A j \in 1..(Len(s) - 1) : RemoveAt(s, i)[j] = IF j < i THEN s[j] ELSE s[j + 1]
<1> DEFINE a == SubSeq(s, 1, i - 1)
           b == SubSeq(s, i + 1, Len(s))
<1>1. Len(s) \in Nat /\ i \in Nat
  OBVIOUS
<1>2. a \in Seq(S) /\ Len(a) = i - 1 /\ \A j \in 1..(i - 1) : a[j] = s[j]
  BY <1>1
<1>3. b \in Seq(S) /\ Len(b) = Len(s) - i /\ \A j \in 1..(Len(s) - i) : b[j] = s[i + j]
  BY <1>1
<1> HIDE DEF a, b
<1>4. /\ a \o b \in Seq(S) /\ Len(a \o b) = Len(s) - 1
      /\ \A j \in 1..(Len(s) - 1) : (a \o b)[j] = IF j <= Len(a) THEN a[j] ELSE b[j - Len(a)]
  <2>1. /\ a \o b \in Seq(S) /\ Len(a \o b) = Len(a) + Len(b)
        /\ \A j \in 1..(Len(a) + Len(b)) : (a \o b)[j] = IF j <= Len(a) THEN a[j] ELSE b[j - Len(a)]
    BY <1>2, <1>3, ConcatProperties, Zenon
  <2>2. Len(a) + Len(b) = Len(s) - 1
    BY <1>1, <1>2, <1>3
  <2> QED
    BY <2>1, <2>2, Zenon
<1>5. ASSUME NEW j \in 1..(Len(s) - 1)
      PROVE  (a \o b)[j] = IF j < i THEN s[j] ELSE s[j + 1]
  BY <1>1, <1>2, <1>3, <1>4
<1> QED
  BY <1>4, <1>5 DEF RemoveAt, a, b

-----------------------------------------------------------------------------
(* What a step of a pass does to its query. *)

\* The states in which a query goes on by itself, without its request.
Thinking == {"INIT", "GET_NEXT_IN_SET", "HTTP_GET", "PARSE_RESULT"}

\* A query thinks: from fields f to fields r, with no request begun or awaited.
Thinks(f, r) ==
  /\ f.state \in Thinking
  /\ r \in QueryFields
  /\ r.state \in {"GET_NEXT_IN_SET", "HTTP_GET", "COMPLETED"}
  /\ r.target = f.target
  /\ r.data = IF f.state = "PARSE_RESULT" THEN NoBody ELSE f.data

LEMMA ParsedFields ==
  ASSUME StoreTypeOK, NEW q \in Query
  PROVE  /\ Parsed(q) \in QueryFields /\ Parsed(q).data = NoBody
         /\ Parsed(q).target = query[q].target /\ Parsed(q).state = query[q].state
         /\ Parsed(q).num = query[q].num /\ Parsed(q).ver = query[q].ver
         /\ Parsed(q).url = query[q].url
<1>1. query[q] \in QueryFields /\ Parsed(q) \in QueryFields
  BY ParsedTyped DEF StoreTypeOK
<1> QED
  BY <1>1 DEF Parsed, QueryFields

LEMMA CompletedThinks ==
  ASSUME NEW f \in QueryFields, NEW c \in Result
  PROVE  LET r == Completed(f, c)
         IN  /\ r \in QueryFields /\ r.state = "COMPLETED" /\ r.result = c
             /\ r.target = f.target /\ r.data = f.data
<1>1. Completed(f, c) \in QueryFields
  BY CompletedTyped
<1> QED
  BY <1>1 DEF Completed, QueryFields

LEMMA FetchingThinks ==
  ASSUME NEW f \in QueryFields, NEW u \in Url
  PROVE  LET r == Fetching(f, u)
         IN  /\ r \in QueryFields /\ r.state = "HTTP_GET" /\ r.target = f.target
             /\ r.data = f.data
<1>1. Fetching(f, u) \in QueryFields
  BY FetchingTyped
<1> QED
  BY <1>1 DEF Fetching, QueryFields

\* Going on with a walk keeps what is not its position.
LEMMA WalkThinks ==
  ASSUME NEW f \in QueryFields, NEW g \in {PastFound(f), PastNotFound(f)}
  PROVE  LET r == [g EXCEPT !.state = "GET_NEXT_IN_SET"]
         IN  /\ g \in QueryFields /\ g.state = f.state /\ g.target = f.target /\ g.data = f.data
             /\ r \in QueryFields /\ r.state = "GET_NEXT_IN_SET"
             /\ r.target = f.target /\ r.data = f.data
             /\ r.num = g.num /\ r.ver = g.ver
<1>1. g \in QueryFields
  BY WalkTyped
<1>2. g.state = f.state /\ g.target = f.target /\ g.data = f.data
  BY <1>1 DEF PastFound, PastNotFound, QueryFields
<1>3. [g EXCEPT !.state = "GET_NEXT_IN_SET"] \in QueryFields
  BY <1>1, StateTyped DEF QueryState
<1> QED
  BY <1>1, <1>2, <1>3 DEF QueryFields

LEMMA NotFoundThinks ==
  ASSUME NEW q \in Query, NEW f \in QueryFields, SetCardNotFound(q, f)
  PROVE  \E r \in QueryFields :
           /\ Put(q, r) /\ r.state \in {"COMPLETED", "GET_NEXT_IN_SET"}
           /\ r.target = f.target /\ r.data = f.data
<1>1. CASE f.ver = 1
  BY <1>1, CompletedThinks DEF SetCardNotFound, Result
<1>2. CASE f.ver # 1
  BY <1>2, WalkThinks DEF SetCardNotFound
<1> QED
  BY <1>1, <1>2

\* Every step of a pass is one of these: a query is freed, begins a request or
\* polls it; or it thinks; or it has nothing to do.
LEMMA UpdateShape ==
  ASSUME StoreTypeOK, GetNextOnSets, NEW q \in Query, UpdateQuery(q),
         ~UpdateHttpGet(q), ~UpdateWaiting(q), ~RemoveDeleted(q)
  PROVE  /\ UNCHANGED <<client, queryList>>
         /\ \/ \E r : Put(q, r) /\ Thinks(query[q], r)
            \/ UNCHANGED <<query, results>> /\ query[q].state \in {"HTTP_GET", "COMPLETED"}
<1> DEFINE Thought == \E r : Put(q, r) /\ Thinks(query[q], r)
<1>0. /\ query[q] \in QueryFields /\ query[q].data \in Body
      /\ query[q].target \in Target \cup {NoTarget}
      /\ query[q].num \in Nat /\ query[q].ver \in Nat
  BY DEF StoreTypeOK, QueryFields
<1>1. UNCHANGED <<client, queryList>>
  BY DEF UpdateQuery, UpdateInitCardmarketId, UpdateInitCardKey, UpdateInitSet,
         UpdateGetNextInSet, UpdateHttpGetKnownBad, UpdateHttpGetNoToken,
         ParseSetCard, ParseSetNotFound, ParseCard, ParseFailed, SkipCompleted
<1>2. CASE UpdateInitCardmarketId(q)
  <2>1. IdUrl(query[q].target.id) \in Url /\ query[q].state = "INIT"
    BY <1>0, <1>2, UrlTyped, TargetTyped DEF UpdateInitCardmarketId, Visit
  <2>2. Thought
    BY <1>0, <1>2, <2>1, CompletedThinks, FetchingThinks
       DEF UpdateInitCardmarketId, Thinks, Thinking, Result
  <2> QED
    BY <1>1, <2>2
<1>3. CASE UpdateInitCardKey(q)
  <2>1. KeyUrl(query[q].target.key) \in Url /\ query[q].state = "INIT"
    BY <1>0, <1>3, UrlTyped, TargetTyped DEF UpdateInitCardKey, Visit
  <2>2. Thought
    BY <1>0, <1>3, <2>1, CompletedThinks, FetchingThinks
       DEF UpdateInitCardKey, Thinks, Thinking, Result
  <2> QED
    BY <1>1, <2>2
<1>4. CASE UpdateInitSet(q)
  <2> DEFINE g == [query[q] EXCEPT !.state = "GET_NEXT_IN_SET", !.num = 1, !.ver = 0]
  <2>1. /\ g \in QueryFields /\ g.state = "GET_NEXT_IN_SET"
        /\ g.target = query[q].target /\ g.data = query[q].data
    BY <1>0 DEF QueryFields, QueryState
  <2>2. query[q].state = "INIT" /\ (Put(q, g) \/ Put(q, Completed(query[q], "OK")))
    BY <1>4 DEF UpdateInitSet, Visit
  <2> HIDE DEF g
  <2>3. Thought
    BY <1>0, <2>1, <2>2, CompletedThinks DEF Thinks, Thinking, Result
  <2> QED
    BY <1>1, <2>3
<1>5. CASE UpdateGetNextInSet(q)
  <2>1. query[q].state = "GET_NEXT_IN_SET" /\ query[q].target.type = "SET"
    BY <1>5 DEF UpdateGetNextInSet, Visit, GetNextOnSets
  <2>2. PastFound(query[q]).state = "GET_NEXT_IN_SET" /\ KeyUrl(NextKey(q)) \in Url
    BY <1>0, <2>1, WalkThinks, NextKeyTyped, UrlTyped
  <2>3. Thinks(query[q], PastFound(query[q]))
    BY <1>0, <2>1, <2>2, WalkThinks DEF Thinks, Thinking
  <2>4. Thinks(query[q], Fetching(query[q], KeyUrl(NextKey(q))))
    BY <1>0, <2>1, <2>2, FetchingThinks DEF Thinks, Thinking
  <2>5. Thought
    BY <1>5, <2>3, <2>4 DEF UpdateGetNextInSet
  <2> QED
    BY <1>1, <2>5
<1>6. CASE UpdateHttpGetKnownBad(q)
  <2>1. query[q].state = "HTTP_GET" /\ KnownBad(q)
    BY <1>6 DEF UpdateHttpGetKnownBad, Visit
  <2>2. Thought
    BY <1>0, <2>1, CompletedThinks, NotFoundThinks DEF KnownBad, Thinks, Thinking, Result
  <2> QED
    BY <1>1, <2>2
<1>7. CASE ParseSetCard(q) \/ ParseSetNotFound(q) \/ ParseFailed(q)
  <2>1. /\ query[q].state = "PARSE_RESULT"
        /\ ParseJson(query[q].data) \in Result
    BY <1>0, <1>7, ParseJsonTyped DEF ParseSetCard, ParseSetNotFound, ParseFailed, Visit
  <2>2. ASSUME ParseSetCard(q) PROVE Thought
    <3>1. Thinks(query[q], [PastFound(Parsed(q)) EXCEPT !.state = "GET_NEXT_IN_SET"])
      BY <2>1, ParsedFields, WalkThinks DEF Thinks, Thinking
    <3> QED
      BY <2>2, <3>1 DEF ParseSetCard
  <2>3. ASSUME ParseSetNotFound(q) PROVE Thought
    BY <2>1, <2>3, ParsedFields, NotFoundThinks DEF ParseSetNotFound, Thinks, Thinking
  <2>4. ASSUME ParseFailed(q) PROVE Thought
    <3>1. Thinks(query[q], Completed(Parsed(q), ParseJson(query[q].data)))
      BY <2>1, ParsedFields, CompletedThinks DEF Thinks, Thinking
    <3> QED
      BY <2>4, <3>1 DEF ParseFailed
  <2> QED
    BY <1>1, <1>7, <2>2, <2>3, <2>4
<1>8. CASE ParseCard(q)
  <2> DEFINE target == query[q].target
             key == query[q].data.key
             asked == [key EXCEPT !.set = target.key.set, !.ver = target.key.ver]
  <2>1. query[q].state = "PARSE_RESULT" /\ key \in Key
    BY <1>0, <1>8, ParseJsonTyped DEF ParseCard, Visit
  <2>2. target.type = "CARD_KEY" => KeyUrl(asked) \in Url
    BY <1>0, <2>1, TargetTyped, UrlTyped DEF Key
  <2>3. \/ Put(q, Completed(Parsed(q), "OK"))
        \/ Put(q, Completed(Parsed(q), "REQUEST_NEEDS_VERSION"))
        \/ target.type = "CARD_KEY" /\ Put(q, Fetching(Parsed(q), KeyUrl(asked)))
    BY <1>8 DEF ParseCard, OtherVersion
  <2> HIDE DEF asked
  <2>4. Thought
    BY <2>1, <2>2, <2>3, ParsedFields, CompletedThinks, FetchingThinks
       DEF Thinks, Thinking, Result
  <2> QED
    BY <1>1, <2>4
<1>9. CASE UpdateHttpGetNoToken(q) \/ SkipCompleted(q)
  BY <1>1, <1>9 DEF UpdateHttpGetNoToken, SkipCompleted, Visit
<1> QED
  BY <1>2, <1>3, <1>4, <1>5, <1>6, <1>7, <1>8, <1>9 DEF UpdateQuery

-----------------------------------------------------------------------------
(* The query list and the pass over it. *)

\* The states that put a query on the list do not change but by CreateQuery,
\* Destroy and RemoveDeleted.
LEMMA ListedFrame ==
  ASSUME StoreTypeOK, NEW q \in Query, query[q].state # "FREE",
         NEW r, Put(q, r), r.state # "FREE"
  PROVE  {p \in Query : query[p].state # "FREE"}' = {p \in Query : query[p].state # "FREE"}
<1>1. \A p \in Query : query'[p].state # "FREE" <=> query[p].state # "FREE"
  BY PutOther
<1> QED
  BY <1>1

ListInv ==
  /\ StoreTypeOK
  /\ GetNextOnSets
  /\ ListTypeOK
  /\ PassInOrder

LEMMA ListInit == Init => ListInv
<1> SUFFICES ASSUME Init PROVE ListInv
  OBVIOUS
<1>1. ListTypeOK /\ GetNextOnSets
  BY DEF Init, ListTypeOK, GetNextOnSets, FreeQuery
<1>2. IsSuffix(todo, queryList)
  <2>1. <<>> \in Seq(Query) /\ todo = <<>> /\ queryList = <<>>
    BY DEF Init
  <2>2. TailOf(todo, queryList)
    BY <2>1 DEF TailOf
  <2> QED
    BY <2>1, <2>2, SuffixIsTail
<1>3. IsInjective(queryList) /\ ToSet(queryList) = {q \in Query : query[q].state # "FREE"}
  BY DEF Init, IsInjective, ToSet, FreeQuery
<1> QED
  BY <1>1, <1>2, <1>3, StoreTypeInit DEF ListInv, PassInOrder

LEMMA PassStep == ListInv /\ [Next]_vars => PassInOrder'
<1> SUFFICES ASSUME ListInv, [Next]_vars PROVE PassInOrder'
  OBVIOUS
<1> DEFINE Listed == {p \in Query : query[p].state # "FREE"}
<1>0. /\ StoreTypeOK /\ GetNextOnSets /\ ListTypeOK /\ ListTypeOK'
      /\ queryList \in Seq(Query) /\ todo \in Seq(Query)
      /\ queryList' \in Seq(Query) /\ todo' \in Seq(Query)
      /\ TailOf(todo, queryList) /\ IsInjective(queryList) /\ ToSet(queryList) = Listed
  BY ListTypeStep, SuffixIsTail DEF ListInv, ListTypeOK, PassInOrder
<1>1. ASSUME TailOf(todo', queryList'), IsInjective(queryList'), ToSet(queryList') = Listed'
      PROVE  PassInOrder'
  <2>1. IsSuffix(todo', queryList')
    BY <1>0, <1>1, SuffixIsTail
  <2> QED
    BY <1>1, <2>1 DEF PassInOrder
<1> HIDE DEF Listed
<1>2. CASE UNCHANGED <<query, queryList, todo>>
  BY <1>2 DEF ListInv, PassInOrder
<1>3. ASSUME NEW q \in Query, NEW t \in Targets, CreateQuery(q, t)
      PROVE  PassInOrder'
  <2> DEFINE n == Len(queryList)
  <2>1. /\ n \in Nat /\ DOMAIN queryList = 1..n /\ DOMAIN queryList' = 1..(n + 1)
        /\ \A i \in 1..n : queryList'[i] = queryList[i]
        /\ queryList'[n + 1] = q
    BY <1>0, <1>3 DEF CreateQuery, Link
  <2>2. todo' = <<>>
    BY <1>3 DEF CreateQuery, AppCall
  <2>3. \A i \in 1..n : queryList[i] # q
    <3>1. q \notin ToSet(queryList)
      BY <1>0, <1>3 DEF CreateQuery, Listed
    <3> QED
      BY <2>1, <3>1 DEF ToSet
  <2>4. [FreeQuery EXCEPT !.state = "INIT", !.target = t].state # "FREE"
    BY DEF FreeQuery
  <2>5. Listed' = Listed \cup {q}
    <3>1. query'[q].state # "FREE" /\ \A p \in Query \ {q} : query'[p] = query[p]
      BY <1>0, <1>3, <2>4, PutOther DEF CreateQuery, Put
    <3> QED
      BY <3>1 DEF Listed
  <2>6. TailOf(todo', queryList')
    BY <1>0, <2>1, <2>2 DEF TailOf
  <2>7. IsInjective(queryList')
    <3> SUFFICES ASSUME NEW i \in 1..(n + 1), NEW j \in 1..(n + 1), queryList'[i] = queryList'[j]
                 PROVE  i = j
      BY <2>1 DEF IsInjective
    <3>1. CASE i \in 1..n /\ j \in 1..n
      BY <1>0, <2>1, <3>1 DEF IsInjective
    <3> QED
      BY <2>1, <2>3, <3>1
  <2>8. ToSet(queryList') = ToSet(queryList) \cup {q}
    BY <2>1 DEF ToSet
  <2> QED
    BY <1>0, <1>1, <2>5, <2>6, <2>7, <2>8
<1>4. CASE Destroy
  <2>1. todo' = <<>> /\ queryList' = <<>> /\ Listed' = {}
    BY <1>4 DEF Destroy, MayDestroy, AppCall, FreeQuery, Listed
  <2>2. TailOf(todo', queryList') /\ IsInjective(queryList') /\ ToSet(queryList') = {}
    BY <2>1 DEF TailOf, IsInjective, ToSet
  <2> QED
    BY <1>1, <2>1, <2>2
<1>5. CASE BeginUpdate
  <2>1. UNCHANGED queryList /\ UNCHANGED query /\ todo' = queryList
    BY <1>5 DEF BeginUpdate
  <2>2. TailOf(queryList, queryList)
    BY <1>0 DEF TailOf
  <2> QED
    BY <1>0, <1>1, <2>1, <2>2 DEF Listed
<1>6. ASSUME NEW q \in Query, DeleteQuery(q)
      PROVE  PassInOrder'
  <2>1. [query[q] EXCEPT !.state = "DELETE"].state = "DELETE"
    BY <1>0 DEF StoreTypeOK, QueryFields
  <2>2. Listed' = Listed
    BY <1>0, <1>6, <2>1, ListedFrame DEF DeleteQuery, Put, Listed
  <2>3. UNCHANGED queryList /\ UNCHANGED todo
    BY <1>6 DEF DeleteQuery
  <2> QED
    BY <1>0, <1>1, <2>2, <2>3
<1>7. ASSUME NEW q \in Query, UpdateQuery(q)
      PROVE  PassInOrder'
  <2>1. todo # <<>> /\ q = Head(todo) /\ todo' = Tail(todo)
    BY <1>7
       DEF UpdateQuery, UpdateInitCardmarketId, UpdateInitCardKey, UpdateInitSet,
           UpdateGetNextInSet, UpdateHttpGetKnownBad, UpdateHttpGetNoToken, UpdateHttpGet,
           UpdateWaiting, ParseSetCard, ParseSetNotFound, ParseCard, ParseFailed,
           SkipCompleted, RemoveDeleted, Visit
  <2>2. /\ TailOf(Tail(todo), queryList)
        /\ q = queryList[Len(queryList) - Len(todo) + 1]
        /\ Len(queryList) - Len(todo) + 1 \in 1..Len(queryList)
        /\ Len(todo) > 0 /\ Len(Tail(todo)) = Len(todo) - 1
        /\ \A i \in 1..Len(Tail(todo)) : Tail(todo)[i] = todo[i + 1]
    BY <1>0, <2>1, TailOfTail
  <2>3. CASE RemoveDeleted(q)
    <3>1. PICK d \in 1..Len(queryList) : queryList[d] = q /\ queryList' = RemoveAt(queryList, d)
      BY <1>0, <2>3 DEF RemoveDeleted, Unlink
    <3> DEFINE n == Len(queryList)
               m == Len(todo)
    <3>2. /\ n \in Nat /\ m \in Nat /\ m > 0 /\ m <= n /\ DOMAIN queryList = 1..n
          /\ d = n - m + 1
      <4>1. n \in Nat /\ m \in Nat /\ m > 0 /\ m <= n /\ DOMAIN queryList = 1..n
        BY <1>0, <2>2 DEF TailOf
      <4>2. n - m + 1 \in DOMAIN queryList /\ d \in DOMAIN queryList
        BY <2>2, <3>1, <4>1
      <4>3. d = n - m + 1
        BY <1>0, <2>2, <3>1, <4>2, Zenon DEF IsInjective
      <4> QED
        BY <4>1, <4>3
    <3>3. /\ Len(queryList') = n - 1 /\ DOMAIN queryList' = 1..(n - 1)
          /\ \A i \in 1..(n - 1) : queryList'[i] = IF i < d THEN queryList[i] ELSE queryList[i + 1]
      <4>1. /\ Len(queryList') = n - 1
            /\ \A i \in 1..(n - 1) : queryList'[i]
                 = IF i < d THEN queryList[i] ELSE queryList[i + 1]
        BY <1>0, <3>1, RemoveAtProperties, Zenon
      <4> QED
        BY <1>0, <4>1
    <3>4. TailOf(todo', queryList')
      <4>1. Len(todo') = m - 1
        BY <2>1, <2>2
      <4>2. ASSUME NEW i \in 1..(m - 1)
            PROVE  todo'[i] = queryList'[(n - 1) - (m - 1) + i]
        <5>1. todo'[i] = todo[i + 1]
          BY <2>1, <2>2, <4>1
        <5>2. todo[i + 1] = queryList[n - m + (i + 1)]
          BY <1>0, <3>2 DEF TailOf
        <5>3. queryList'[n - m + i] = queryList[n - m + i + 1]
          BY <3>2, <3>3
        <5> QED
          BY <3>2, <5>1, <5>2, <5>3
      <4> QED
        BY <3>2, <3>3, <4>1, <4>2 DEF TailOf
    <3>5. IsInjective(queryList')
      <4> SUFFICES ASSUME NEW i \in 1..(n - 1), NEW j \in 1..(n - 1), queryList'[i] = queryList'[j]
                   PROVE  i = j
        BY <3>3 DEF IsInjective
      <4> DEFINE s(k) == IF k < d THEN k ELSE k + 1
      <4>1. s(i) \in 1..n /\ s(j) \in 1..n /\ queryList[s(i)] = queryList[s(j)]
        BY <3>2, <3>3
      <4>2. s(i) = s(j)
        BY <1>0, <3>2, <4>1 DEF IsInjective
      <4> QED
        BY <3>2, <4>2
    <3>6. ToSet(queryList') = ToSet(queryList) \ {q}
      <4>1. ASSUME NEW i \in 1..(n - 1)
            PROVE  queryList'[i] \in ToSet(queryList) /\ queryList'[i] # q
        <5>1. PICK j \in 1..n : queryList'[i] = queryList[j] /\ j # d
          BY <3>2, <3>3
        <5>2. queryList[j] # queryList[d]
          BY <1>0, <3>2, <5>1 DEF IsInjective
        <5> QED
          BY <3>1, <3>2, <5>1, <5>2 DEF ToSet
      <4>2. ASSUME NEW i \in 1..n, queryList[i] # q
            PROVE  \E j \in 1..(n - 1) : queryList'[j] = queryList[i]
        <5>1. CASE i < d
          BY <3>2, <3>3, <5>1
        <5>2. CASE i > d
          <6>1. i - 1 \in 1..(n - 1) /\ queryList'[i - 1] = queryList[i]
            BY <3>2, <3>3, <5>2
          <6> QED
            BY <6>1
        <5> QED
          BY <3>1, <3>2, <4>2, <5>1, <5>2
      <4>3. ToSet(queryList') = {queryList'[i] : i \in 1..(n - 1)}
        BY <3>3 DEF ToSet
      <4>4. ToSet(queryList) = {queryList[i] : i \in 1..n}
        BY <3>2 DEF ToSet
      <4>5. ToSet(queryList') \subseteq ToSet(queryList) \ {q}
        BY <4>1, <4>3
      <4>6. ToSet(queryList) \ {q} \subseteq ToSet(queryList')
        BY <4>2, <4>3, <4>4
      <4> QED
        BY <4>5, <4>6
    <3>7. Listed' = Listed \ {q}
      BY <1>0, <2>3, PutOther DEF RemoveDeleted, FreeQuery, Listed
    <3> QED
      BY <1>0, <1>1, <3>4, <3>5, <3>6, <3>7
  <2>4. CASE ~RemoveDeleted(q)
    <3>1. UNCHANGED queryList
      BY <1>0, <1>7, <2>4, UpdateShape DEF UpdateHttpGet, UpdateWaiting
    <3>2. Listed' = Listed
      <4>1. CASE UpdateHttpGet(q)
        <5>1. [query[q] EXCEPT !.state = "WAITING"].state = "WAITING"
          BY <1>0 DEF StoreTypeOK, QueryFields
        <5> QED
          BY <1>0, <4>1, <5>1, ListedFrame DEF UpdateHttpGet, Visit, Listed
      <4>2. CASE UpdateWaiting(q)
        <5> DEFINE g == [query[q] EXCEPT !.state = "PARSE_RESULT", !.data = client[q].body,
                           !.result = IF client[q].body = NoBody THEN "HTTP_GET_FAILED" ELSE "OK"]
        <5>1. g.state = "PARSE_RESULT"
          BY <1>0 DEF StoreTypeOK, QueryFields
        <5>2. UNCHANGED query \/ (Put(q, g) /\ query[q].state = "WAITING")
          BY <4>2 DEF UpdateWaiting, Visit
        <5> HIDE DEF g
        <5> QED
          BY <1>0, <5>1, <5>2, ListedFrame DEF Listed
      <4>3. CASE ~UpdateHttpGet(q) /\ ~UpdateWaiting(q)
        <5>1. UNCHANGED query \/ \E r : Put(q, r) /\ query[q].state # "FREE" /\ r.state # "FREE"
          BY <1>0, <1>7, <2>4, <4>3, UpdateShape DEF Thinks, Thinking
        <5> QED
          BY <1>0, <5>1, ListedFrame DEF Listed
      <4> QED
        BY <4>1, <4>2, <4>3
    <3> QED
      BY <1>0, <1>1, <2>1, <2>2, <3>1, <3>2
  <2> QED
    BY <2>3, <2>4
<1> QED
  BY <1>2, <1>3, <1>4, <1>5, <1>6, <1>7
     DEF Next, vars, CreateCache, Clear, Refill, Answer

LEMMA ListStep == ListInv /\ [Next]_vars => ListInv'
  BY StoreTypeStep, GetNextStep, ListTypeStep, PassStep DEF ListInv

\* In every reachable state the queries a pass has left are the tail of the
\* query list, no query is listed twice, and those listed are those that exist:
\* unlinking and freeing a query in the middle of a pass skips and repeats none.
THEOREM PassesAreInOrder == Spec => []PassInOrder
<1>1. Init => ListInv
  BY ListInit
<1>2. ListInv /\ [Next]_vars => ListInv'
  BY ListStep
<1>3. ListInv => PassInOrder
  BY DEF ListInv
<1> QED
  BY <1>1, <1>2, <1>3, PTL DEF Spec

-----------------------------------------------------------------------------
(* Requests and queries stay in step. *)

\* RequestsMatchQueries is not inductive: that a query does not leave
\* PARSE_RESULT before the HTTP context has destroyed its request holds because
\* the pass that polled the request does not come back to the query.
InStep(q) ==
  /\ client[q].st \in {"active", "answered", "completed"} <=> query[q].state = "WAITING"
  /\ client[q].st = "doomed" => query[q].state = "PARSE_RESULT" /\ q \notin ToSet(todo)
  /\ query[q].state = "WAITING" => client[q].url = query[q].url
  /\ query[q].data # NoBody => query[q].state = "PARSE_RESULT"

StepInv == ListInv /\ \A q \in Query : InStep(q)

LEMMA StepInit == Init => StepInv
<1> SUFFICES ASSUME Init PROVE StepInv
  OBVIOUS
<1>1. \A q \in Query : InStep(q)
  BY DEF Init, InStep, FreeQuery, NoRequest
<1> QED
  BY <1>1, ListInit DEF StepInv

\* The pass goes on: its query is behind it, the others that were are too.
LEMMA PassGoesOn ==
  ASSUME ListInv, todo # <<>>, todo' = Tail(todo)
  PROVE  /\ ToSet(todo') \subseteq ToSet(todo)
         /\ Head(todo) \in ToSet(todo) /\ Head(todo) \notin ToSet(todo')
<1>0. todo \in Seq(Query) /\ queryList \in Seq(Query) /\ TailOf(todo, queryList)
        /\ IsInjective(queryList)
  BY SuffixIsTail DEF ListInv, ListTypeOK, PassInOrder
<1> DEFINE m == Len(todo)
           n == Len(queryList)
<1>1. /\ m \in Nat /\ n \in Nat /\ m > 0 /\ m <= n /\ DOMAIN queryList = 1..n
      /\ DOMAIN todo = 1..m /\ DOMAIN todo' = 1..(m - 1)
      /\ Head(todo) = todo[1]
      /\ \A i \in 1..(m - 1) : todo'[i] = todo[i + 1]
  BY <1>0 DEF TailOf
<1>2. ToSet(todo) = {todo[i] : i \in 1..m} /\ ToSet(todo') = {todo'[i] : i \in 1..(m - 1)}
  BY <1>1 DEF ToSet
<1>3. ASSUME NEW i \in 1..(m - 1) PROVE todo'[i] \in ToSet(todo) /\ todo'[i] # Head(todo)
  <2>1. i + 1 \in 1..m /\ 1 \in 1..m /\ todo'[i] = todo[i + 1]
    BY <1>1
  <2>2. todo[i + 1] = queryList[n - m + i + 1] /\ todo[1] = queryList[n - m + 1]
    BY <1>0, <1>1, <2>1 DEF TailOf
  <2>3. n - m + i + 1 \in 1..n /\ n - m + 1 \in 1..n /\ n - m + i + 1 # n - m + 1
    BY <1>1
  <2>4. queryList[n - m + i + 1] # queryList[n - m + 1]
    BY <1>0, <1>1, <2>3 DEF IsInjective
  <2> QED
    BY <1>1, <1>2, <2>1, <2>2, <2>4
<1>4. 1 \in 1..m
  BY <1>1
<1> QED
  BY <1>1, <1>2, <1>3, <1>4

LEMMA InStepFrame ==
  ASSUME \A p \in Query : InStep(p), ToSet(todo') \subseteq ToSet(todo),
         NEW q \in Query,
         \A p \in Query \ {q} : query'[p] = query[p] /\ client'[p] = client[p],
         InStep(q)'
  PROVE  \A p \in Query : InStep(p)'
  BY DEF InStep

LEMMA InStepStep == StepInv /\ [Next]_vars => \A q \in Query : InStep(q)'
<1> SUFFICES ASSUME StepInv, [Next]_vars PROVE \A q \in Query : InStep(q)'
  OBVIOUS
<1>0. /\ ListInv /\ StoreTypeOK /\ GetNextOnSets
      /\ \A p \in Query : InStep(p)
      /\ \A p \in Query : query[p] \in QueryFields /\ client[p] \in Request
  BY DEF StepInv, ListInv, StoreTypeOK
<1>1. CASE UNCHANGED <<query, client, todo>>
  BY <1>0, <1>1 DEF InStep
<1>2. CASE Destroy
  BY <1>2 DEF Destroy, InStep, FreeQuery, NoRequest
<1>3. CASE BeginUpdate
  <2> SUFFICES ASSUME NEW p \in Query PROVE InStep(p)'
    OBVIOUS
  <2>1. client'[p] = UpdatedRequest(client[p]) /\ query'[p] = query[p]
    BY <1>0, <1>3 DEF BeginUpdate
  <2>2. CASE client[p].st = "doomed"
    BY <1>0, <2>1, <2>2 DEF UpdatedRequest, NoRequest, InStep
  <2>3. CASE client[p].st = "answered"
    <3>1. LET r == [client[p] EXCEPT !.st = "completed"]
          IN  r.st = "completed" /\ r.url = client[p].url
      BY <1>0 DEF Request
    <3> QED
      BY <1>0, <2>1, <2>3, <3>1 DEF InStep, UpdatedRequest
  <2>4. CASE client[p].st \notin {"doomed", "answered"}
    BY <1>0, <2>1, <2>4 DEF UpdatedRequest, InStep
  <2> QED
    BY <2>2, <2>3, <2>4
<1>4. ASSUME NEW q \in Query, NEW t \in Targets, CreateQuery(q, t)
      PROVE  \A p \in Query : InStep(p)'
  <2>1. LET r == [FreeQuery EXCEPT !.state = "INIT", !.target = t]
        IN  r.state = "INIT" /\ r.data = NoBody
    BY DEF FreeQuery
  <2>2. query'[q].state = "INIT" /\ query'[q].data = NoBody
    BY <1>0, <1>4, <2>1 DEF CreateQuery, StoreTypeOK
  <2>3. query[q].state = "FREE" /\ UNCHANGED <<client, todo>>
    BY <1>4 DEF CreateQuery
  <2>4. InStep(q)'
    BY <1>0, <2>2, <2>3 DEF InStep
  <2> QED
    BY <1>0, <1>4, <2>3, <2>4, InStepFrame, PutOther DEF CreateQuery, Put
<1>5. ASSUME NEW q \in Query, DeleteQuery(q)
      PROVE  \A p \in Query : InStep(p)'
  <2>1. LET r == [query[q] EXCEPT !.state = "DELETE"]
        IN  r.state = "DELETE" /\ r.data = query[q].data
    BY <1>0 DEF QueryFields
  <2>2. query'[q].state = "DELETE" /\ query'[q].data = query[q].data
    BY <1>0, <1>5, <2>1 DEF DeleteQuery, StoreTypeOK
  <2>3. query[q].state = "COMPLETED" /\ UNCHANGED <<client, todo>>
    BY <1>5 DEF DeleteQuery
  <2>4. InStep(q)'
    BY <1>0, <2>2, <2>3 DEF InStep
  <2> QED
    BY <1>0, <1>5, <2>3, <2>4, InStepFrame, PutOther DEF DeleteQuery, Put
<1>6. ASSUME NEW q \in Query, Answer(q)
      PROVE  \A p \in Query : InStep(p)'
  <2>1. PICK b : client' = [client EXCEPT ![q].st = "answered", ![q].body = b]
    BY <1>6 DEF Answer
  <2>2. /\ client'[q].st = "answered" /\ client'[q].url = client[q].url
        /\ \A p \in Query \ {q} : client'[p] = client[p]
    BY <1>0, <2>1 DEF StoreTypeOK, Request
  <2>3. client[q].st = "active" /\ UNCHANGED <<query, todo>>
    BY <1>6 DEF Answer
  <2>4. InStep(q)'
    BY <1>0, <2>2, <2>3 DEF InStep
  <2> QED
    BY <1>0, <2>2, <2>3, <2>4, InStepFrame
<1>7. ASSUME NEW q \in Query, UpdateQuery(q)
      PROVE  \A p \in Query : InStep(p)'
  <2>1. todo # <<>> /\ q = Head(todo) /\ todo' = Tail(todo)
    BY <1>7
       DEF UpdateQuery, UpdateInitCardmarketId, UpdateInitCardKey, UpdateInitSet,
           UpdateGetNextInSet, UpdateHttpGetKnownBad, UpdateHttpGetNoToken, UpdateHttpGet,
           UpdateWaiting, ParseSetCard, ParseSetNotFound, ParseCard, ParseFailed,
           SkipCompleted, RemoveDeleted, Visit
  <2>2. /\ ToSet(todo') \subseteq ToSet(todo)
        /\ q \in ToSet(todo) /\ q \notin ToSet(todo')
    BY <1>0, <2>1, PassGoesOn
  <2>3. client[q].st # "doomed"
    BY <1>0, <2>2 DEF InStep
  <2>4. ASSUME NEW r, Put(q, r), UNCHANGED client, query[q].state # "WAITING",
               r.state # "WAITING", r.data = NoBody
        PROVE  \A p \in Query : InStep(p)'
    <3>1. query'[q] = r /\ \A p \in Query \ {q} : query'[p] = query[p]
      BY <1>0, <2>4, PutOther
    <3>2. InStep(q)'
      BY <1>0, <2>3, <2>4, <3>1 DEF InStep
    <3> QED
      BY <1>0, <2>2, <2>4, <3>1, <3>2, InStepFrame
  <2>5. CASE UpdateHttpGet(q)
    <3> DEFINE r == [query[q] EXCEPT !.state = "WAITING"]
    <3>1. r.state = "WAITING" /\ r.url = query[q].url /\ r.data = query[q].data
      BY <1>0 DEF QueryFields
    <3>2. Put(q, r) /\ query[q].state = "HTTP_GET"
      BY <2>5 DEF UpdateHttpGet, Visit
    <3>3. /\ client'[q] = [st |-> "active", url |-> query[q].url, body |-> NoBody]
          /\ \A p \in Query \ {q} : client'[p] = client[p]
      BY <1>0, <2>5 DEF UpdateHttpGet, StoreTypeOK
    <3> HIDE DEF r
    <3>4. query'[q] = r /\ \A p \in Query \ {q} : query'[p] = query[p]
      BY <1>0, <3>2, PutOther
    <3>5. InStep(q)'
      BY <1>0, <3>1, <3>2, <3>3, <3>4 DEF InStep
    <3> QED
      BY <1>0, <2>2, <3>3, <3>4, <3>5, InStepFrame
  <2>6. CASE UpdateWaiting(q) /\ client[q].st = "completed"
    <3> DEFINE r == [query[q] EXCEPT !.state = "PARSE_RESULT", !.data = client[q].body,
                       !.result = IF client[q].body = NoBody THEN "HTTP_GET_FAILED" ELSE "OK"]
    <3>1. r.state = "PARSE_RESULT"
      BY <1>0 DEF QueryFields
    <3>2. /\ Put(q, r) /\ query[q].state = "WAITING"
          /\ client' = [client EXCEPT ![q] = Polled(client[q])]
      BY <2>6 DEF UpdateWaiting, Visit
    <3> HIDE DEF r
    <3>3. query'[q] = r /\ \A p \in Query \ {q} : query'[p] = query[p]
      BY <1>0, <3>2, PutOther
    <3>4. client'[q].st = "doomed" /\ \A p \in Query \ {q} : client'[p] = client[p]
      BY <1>0, <3>2 DEF Polled, StoreTypeOK, Request
    <3>5. InStep(q)'
      BY <2>2, <3>1, <3>3, <3>4 DEF InStep
    <3> QED
      BY <1>0, <2>2, <3>3, <3>4, <3>5, InStepFrame
  <2>7. CASE RemoveDeleted(q)
    BY <2>4, <2>7 DEF RemoveDeleted, Visit, FreeQuery
  <2>8. ASSUME UNCHANGED query, UNCHANGED client PROVE \A p \in Query : InStep(p)'
    BY <1>0, <2>2, <2>8 DEF InStep
  <2>9. CASE UpdateWaiting(q) /\ client[q].st # "completed"
    BY <2>8, <2>9 DEF UpdateWaiting
  <2>10. CASE ~UpdateHttpGet(q) /\ ~UpdateWaiting(q) /\ ~RemoveDeleted(q)
    <3>1. ASSUME NEW r, Put(q, r), Thinks(query[q], r), UNCHANGED client
          PROVE  \A p \in Query : InStep(p)'
      <4>1. /\ query[q].state # "WAITING" /\ r.state # "WAITING"
            /\ query[q].state # "PARSE_RESULT" => r.data = query[q].data
            /\ query[q].state = "PARSE_RESULT" => r.data = NoBody
        BY <3>1 DEF Thinks, Thinking
      <4>2. r.data = NoBody
        BY <1>0, <4>1 DEF InStep
      <4> QED
        BY <2>4, <3>1, <4>1, <4>2
    <3> QED
      BY <1>0, <1>7, <2>8, <2>10, <3>1, UpdateShape
  <2> QED
    BY <2>5, <2>6, <2>7, <2>9, <2>10
<1> QED
  BY <1>1, <1>2, <1>3, <1>4, <1>5, <1>6, <1>7
     DEF Next, vars, CreateCache, Clear, Refill

LEMMA StepStep == StepInv /\ [Next]_vars => StepInv'
  BY ListStep, InStepStep DEF StepInv

\* A request is under way exactly while its query waits for it, and one that was
\* polled outlives only the pass that polled it, in every reachable state.
THEOREM RequestsAreMatched == Spec => []RequestsMatchQueries
<1>1. Init => StepInv
  BY StepInit
<1>2. StepInv /\ [Next]_vars => StepInv'
  BY StepStep
<1>3. StepInv => RequestsMatchQueries
  BY DEF StepInv, InStep, RequestsMatchQueries
<1> QED
  BY <1>1, <1>2, <1>3, PTL DEF Spec

\* An application that destroys the cache only when its queries are completed
\* leaves no request in the HTTP context.
THEOREM TeardownsAreClean ==
  ASSUME Disciplined
  PROVE  Spec => []TeardownClean
<1>1. Init => StepInv
  BY StepInit
<1>2. StepInv /\ [Next]_vars => StepInv'
  BY StepStep
<1>3. StepInv => TeardownClean
  <2> SUFFICES ASSUME StepInv, MayDestroy, NEW q \in Query PROVE client[q].st = "none"
    BY DEF TeardownClean
  <2>1. query[q].state \notin Unfinished
    BY DEF MayDestroy
  <2>2. InStep(q) /\ client[q] \in Request
    BY DEF StepInv, ListInv, StoreTypeOK
  <2> QED
    BY <2>1, <2>2 DEF InStep, Request, Unfinished
<1> QED
  BY <1>1, <1>2, <1>3, PTL DEF Spec

-----------------------------------------------------------------------------
(* The loop over the card list. *)

\* f[i] is what the loop for set s has found in the first i cards of l.
Looped(f, l, s, n) ==
  f = [i \in 0..n |->
        IF i = 0 THEN <<>>
        ELSE IF l[i].key.set = s THEN Append(f[i - 1], l[i]) ELSE f[i - 1]]

LEMMA LoopedAt ==
  ASSUME NEW f, NEW l, NEW s, NEW n \in Nat, Looped(f, l, s, n), NEW i \in 0..n
  PROVE  f[i] = IF i = 0 THEN <<>>
                ELSE IF l[i].key.set = s THEN Append(f[i - 1], l[i]) ELSE f[i - 1]
<1> DEFINE b(k) == IF k = 0 THEN <<>>
                   ELSE IF l[k].key.set = s THEN Append(f[k - 1], l[k]) ELSE f[k - 1]
<1>1. f = [k \in 0..n |-> b(k)]
  BY DEF Looped
<1> HIDE DEF b
<1>2. f[i] = b(i)
  BY <1>1
<1> QED
  BY <1>2 DEF b

LEMMA LoopEnds ==
  ASSUME NEW l, NEW s
  PROVE  \A n \in Nat : \E f : Looped(f, l, s, n)
<1> DEFINE T == {n \in Nat : \E f : Looped(f, l, s, n)}
<1>1. 0 \in T
  <2>1. Looped([i \in 0..0 |-> <<>>], l, s, 0)
    BY DEF Looped
  <2> QED
    BY <2>1
<1>2. ASSUME NEW n \in Nat, n \in T PROVE n + 1 \in T
  <2>1. PICK f : Looped(f, l, s, n)
    BY <1>2
  <2> DEFINE last == IF l[n + 1].key.set = s THEN Append(f[n], l[n + 1]) ELSE f[n]
             g == [i \in 0..(n + 1) |-> IF i = n + 1 THEN last ELSE f[i]]
  <2>2. ASSUME NEW i \in 0..(n + 1)
        PROVE  g[i] = IF i = 0 THEN <<>>
                      ELSE IF l[i].key.set = s THEN Append(g[i - 1], l[i]) ELSE g[i - 1]
    <3>1. CASE i = n + 1
      <4>1. g[n + 1] = last /\ g[n] = f[n]
        OBVIOUS
      <4> HIDE DEF g
      <4> QED
        BY <3>1, <4>1
    <3>2. CASE i # n + 1
      <4>1. i \in 0..n /\ g[i] = f[i] /\ (i # 0 => g[i - 1] = f[i - 1])
        BY <3>2
      <4> HIDE DEF g
      <4>2. f[i] = IF i = 0 THEN <<>>
                   ELSE IF l[i].key.set = s THEN Append(f[i - 1], l[i]) ELSE f[i - 1]
        BY <2>1, <4>1, LoopedAt
      <4> QED
        BY <4>1, <4>2
    <3> QED
      BY <3>1, <3>2
  <2>3. Looped(g, l, s, n + 1)
    BY <2>2 DEF Looped
  <2> QED
    BY <2>3
<1>3. Nat \subseteq T
  <2> HIDE DEF T
  <2> QED
    BY <1>1, <1>2, InductionOnNat
<1> QED
  BY <1>3

\* Two cards of a sequence do not share their key.
Distinct(r) == \A i, j \in DOMAIN r : r[i].key = r[j].key => i = j

LEMMA AppendSet ==
  ASSUME NEW S, NEW r \in Seq(S), NEW c \in S
  PROVE  /\ Append(r, c) \in Seq(S)
         /\ ToSet(Append(r, c)) = ToSet(r) \cup {c}
         /\ DOMAIN Append(r, c) = 1..(Len(r) + 1) /\ DOMAIN r = 1..Len(r) /\ Len(r) \in Nat
         /\ \A i \in 1..Len(r) : Append(r, c)[i] = r[i]
         /\ Append(r, c)[Len(r) + 1] = c
<1>1. /\ Append(r, c) \in Seq(S)
      /\ DOMAIN Append(r, c) = 1..(Len(r) + 1) /\ DOMAIN r = 1..Len(r) /\ Len(r) \in Nat
      /\ \A i \in 1..Len(r) : Append(r, c)[i] = r[i]
      /\ Append(r, c)[Len(r) + 1] = c
  OBVIOUS
<1>2. ToSet(Append(r, c)) = ToSet(r) \cup {c}
  BY <1>1 DEF ToSet
<1> QED
  BY <1>1, <1>2

LEMMA AppendDistinct ==
  ASSUME NEW S, NEW r \in Seq(S), NEW c \in S, Distinct(r), \A d \in ToSet(r) : d.key # c.key
  PROVE  Distinct(Append(r, c))
<1> SUFFICES ASSUME NEW i \in 1..(Len(r) + 1), NEW j \in 1..(Len(r) + 1),
                    Append(r, c)[i].key = Append(r, c)[j].key
             PROVE  i = j
  BY AppendSet DEF Distinct
<1>1. /\ \A k \in 1..Len(r) : Append(r, c)[k] = r[k] /\ r[k].key # c.key
      /\ Append(r, c)[Len(r) + 1] = c /\ Len(r) \in Nat /\ DOMAIN r = 1..Len(r)
  BY AppendSet DEF ToSet
<1>2. CASE i \in 1..Len(r) /\ j \in 1..Len(r)
  BY <1>1, <1>2 DEF Distinct
<1> QED
  BY <1>1, <1>2

\* What the loop finds in the first n cards of l: each of them that is of the set, once.
Finds(r, l, s, n) ==
  /\ r \in Seq(Card)
  /\ ToSet(r) = {l[i] : i \in {j \in 1..n : l[j].key.set = s}}
  /\ Distinct(r)

LEMMA LoopFinds ==
  ASSUME NEW l \in Seq(Card), Distinct(l), NEW s, NEW f, Looped(f, l, s, Len(l))
  PROVE  \A n \in 0..Len(l) : Finds(f[n], l, s, n)
<1>0. Len(l) \in Nat /\ DOMAIN l = 1..Len(l) /\ \A i \in 1..Len(l) : l[i] \in Card
  OBVIOUS
<1> DEFINE T == {n \in 0..Len(l) : Finds(f[n], l, s, n)}
           of(n) == {l[i] : i \in {j \in 1..n : l[j].key.set = s}}
<1>1. 0 \in T
  <2>1. f[0] = <<>>
    BY <1>0, LoopedAt
  <2>2. <<>> \in Seq(Card) /\ ToSet(<<>>) = {} /\ Distinct(<<>>)
    BY DEF ToSet, Distinct
  <2>3. of(0) = {}
    OBVIOUS
  <2>4. Finds(f[0], l, s, 0)
    BY <2>1, <2>2, <2>3 DEF Finds
  <2> QED
    BY <1>0, <2>4
<1>2. ASSUME NEW n \in 0..(Len(l) - 1), n \in T PROVE n + 1 \in T
  <2>1. /\ n + 1 \in 1..Len(l) /\ n \in Nat
        /\ f[n + 1] = IF l[n + 1].key.set = s THEN Append(f[n], l[n + 1]) ELSE f[n]
    BY <1>0, LoopedAt
  <2>2. f[n] \in Seq(Card) /\ ToSet(f[n]) = of(n) /\ Distinct(f[n])
    BY <1>2 DEF Finds
  <2>3. CASE l[n + 1].key.set = s
    <3>1. of(n + 1) = of(n) \cup {l[n + 1]}
      BY <2>1, <2>3
    <3>2. \A d \in ToSet(f[n]) : d.key # l[n + 1].key
      BY <1>0, <2>1, <2>2 DEF Distinct
    <3>3. l[n + 1] \in Card
      BY <1>0, <2>1
    <3> HIDE DEF of
    <3>4. Finds(f[n + 1], l, s, n + 1)
      BY <2>1, <2>2, <2>3, <3>1, <3>2, <3>3, AppendSet, AppendDistinct DEF Finds, of
    <3> QED
      BY <2>1, <3>4
  <2>4. CASE l[n + 1].key.set # s
    <3>1. of(n + 1) = of(n)
      BY <2>1, <2>4
    <3> QED
      BY <2>1, <2>2, <2>4, <3>1 DEF Finds
  <2> QED
    BY <2>3, <2>4
<1>3. 0..Len(l) \subseteq T
  <2> HIDE DEF T
  <2> QED
    BY <1>0, <1>1, <1>2, InductionUpTo
<1> QED
  BY <1>3

\* The cards of a set, as the query that finds the set full collects them: every
\* card of it that the cache holds, each once.
LEMMA CardsOfSetRight ==
  ASSUME cards \in Seq(Card), Distinct(cards), NEW s
  PROVE  /\ CardsOfSet(s) \in Seq(Card)
         /\ ToSet(CardsOfSet(s)) = {c \in ToSet(cards) : c.key.set = s}
         /\ Distinct(CardsOfSet(s))
<1> DEFINE f == CHOOSE f : Looped(f, cards, s, Len(cards))
<1>1. Len(cards) \in Nat
  OBVIOUS
<1>2. Looped(f, cards, s, Len(cards))
  BY <1>1, LoopEnds
<1>3. CardsOfSet(s) = f[Len(cards)]
  BY DEF CardsOfSet, Looped
<1> HIDE DEF f
<1>4. Finds(CardsOfSet(s), cards, s, Len(cards))
  BY <1>1, <1>2, <1>3, LoopFinds
<1>5. {cards[i] : i \in {j \in 1..Len(cards) : cards[j].key.set = s}}
        = {c \in ToSet(cards) : c.key.set = s}
  BY DEF ToSet
<1> QED
  BY <1>4, <1>5 DEF Finds

-----------------------------------------------------------------------------
(* The card list and the cardmarket map. *)

LEMMA CardIsCard ==
  ASSUME NEW c \in Card
  PROVE  c # NoCard /\ c.key \in Key /\ c.by \in Query
<1>1. DOMAIN c = {"key", "by"} /\ DOMAIN NoCard = {"key"}
  BY DEF Card, NoCard
<1> QED
  BY <1>1 DEF Card

LEMMA CardOfIn ==
  ASSUME NEW k, Cached(k)
  PROVE  CardOf(k) \in ToSet(cards) /\ CardOf(k).key = k
  BY DEF Cached, CardOf

StoreInv == AnswerInv /\ StoreCoherent

LEMMA KeepCardCoherent ==
  ASSUME StoreTypeOK, CardsInCatalog, StoreCoherent,
         NEW q \in Query, NEW k \in Catalog, KeepCard(q, k)
  PROVE  StoreCoherent'
<1>0. k \in Key /\ IdOf(k) \in Ids \cup {0} /\ 0 \notin Ids
  BY CatalogAssumption, IdOfAssumption, IdsAssumption
<1>1. CASE Cached(k)
  <2>1. UNCHANGED cards /\ UNCHANGED idMap
    BY <1>1 DEF KeepCard
  <2> QED
    BY <2>1 DEF StoreCoherent
<1>2. CASE ~Cached(k)
  <2> DEFINE c == [key |-> k, by |-> q]
  <2>1. c \in Card /\ c.key = k /\ cards \in Seq(Card)
    BY <1>0 DEF Card, StoreTypeOK
  <2>2. /\ cards' = Append(cards, c)
        /\ idMap' = [i \in Ids |-> IF i = IdOf(c.key) THEN c ELSE idMap[i]]
    BY <1>2 DEF KeepCard, AddCard
  <2> HIDE DEF c
  <2>3. ToSet(cards') = ToSet(cards) \cup {c}
    BY <2>1, <2>2, AppendSet
  <2>4. Distinct(cards')
    BY <1>2, <2>1, <2>2, AppendDistinct DEF StoreCoherent, Distinct, Cached
  <2>5. ASSUME NEW i \in Ids, idMap'[i] # NoCard
        PROVE  idMap'[i] \in ToSet(cards') /\ IdOf(idMap'[i].key) = i
    BY <2>2, <2>3, <2>5 DEF StoreCoherent
  <2>6. ASSUME NEW d \in ToSet(cards'), IdOf(d.key) # 0
        PROVE  idMap'[IdOf(d.key)] # NoCard
    <3>1. d.key \in Catalog
      BY <2>1, <2>3 DEF CardsInCatalog
    <3>2. IdOf(d.key) \in Ids
      BY <2>6, <3>1, IdOfAssumption
    <3> QED
      BY <2>1, <2>2, <2>3, <2>6, <3>2, CardIsCard DEF StoreCoherent
  <2> QED
    BY <2>4, <2>5, <2>6 DEF StoreCoherent, Distinct
<1> QED
  BY <1>1, <1>2

\* What happens to the store: it is emptied, or a query keeps the card it parsed,
\* or nothing.
LEMMA StoreSteps ==
  ASSUME [Next]_vars
  PROVE  \/ Clear \/ Destroy
         \/ \E q \in Query : /\ ParseSetCard(q) \/ ParseCard(q)
                             /\ KeepCard(q, query[q].data.key)
                             /\ ParseJson(query[q].data) = "OK"
         \/ UNCHANGED cards /\ UNCHANGED idMap
<1>1. ASSUME NEW q \in Query, ParseSetCard(q) \/ ParseCard(q)
      PROVE  KeepCard(q, query[q].data.key) /\ ParseJson(query[q].data) = "OK"
  BY <1>1 DEF ParseSetCard, ParseCard
<1> QED
  BY <1>1
     DEF Next, vars, store, UpdateQuery, CreateCache, Refill, BeginUpdate,
         CreateQuery, DeleteQuery, Answer, UpdateInitCardmarketId, UpdateInitCardKey,
         UpdateInitSet, UpdateGetNextInSet, UpdateHttpGetKnownBad, UpdateHttpGetNoToken,
         UpdateHttpGet, UpdateWaiting, ParseSetNotFound, ParseFailed, SkipCompleted,
         RemoveDeleted

LEMMA CoherentStep == StoreInv /\ [Next]_vars => StoreCoherent'
<1> SUFFICES ASSUME StoreInv, [Next]_vars PROVE StoreCoherent'
  OBVIOUS
<1>0. StoreTypeOK /\ CardsInCatalog /\ StoreCoherent
  BY DEF StoreInv, AnswerInv
<1>1. CASE Clear \/ Destroy
  <2>1. cards' = <<>> /\ idMap' = [i \in Ids |-> NoCard]
    BY <1>1 DEF Clear, Destroy, EmptyStore
  <2> QED
    BY <2>1 DEF StoreCoherent, ToSet
<1>2. CASE UNCHANGED cards /\ UNCHANGED idMap
  BY <1>0, <1>2 DEF StoreCoherent
<1>3. ASSUME NEW q \in Query, KeepCard(q, query[q].data.key), ParseJson(query[q].data) = "OK"
      PROVE  StoreCoherent'
  <2>1. query[q].data \in Body
    BY <1>0 DEF StoreTypeOK, QueryFields
  <2>2. query[q].data.key \in Catalog
    BY <1>3, <2>1, ParseJsonTyped
  <2> QED
    BY <1>0, <1>3, <2>2, KeepCardCoherent
<1> QED
  BY <1>1, <1>2, <1>3, StoreSteps

LEMMA StoreInit == Init => StoreInv
<1> SUFFICES ASSUME Init PROVE StoreInv
  OBVIOUS
<1>1. StoreCoherent
  BY DEF Init, StoreCoherent, ToSet
<1> QED
  BY <1>1, AnswerInit DEF StoreInv

LEMMA StoreStep == StoreInv /\ [Next]_vars => StoreInv'
  BY AnswerStep, CoherentStep DEF StoreInv

\* The card list and the cardmarket map agree in every reachable state, however
\* queries for the same card race, whatever the server answers.
THEOREM StoresAreCoherent == Spec => []StoreCoherent
<1>1. Init => StoreInv
  BY StoreInit
<1>2. StoreInv /\ [Next]_vars => StoreInv'
  BY StoreStep
<1>3. StoreInv => StoreCoherent
  BY DEF StoreInv
<1> QED
  BY <1>1, <1>2, <1>3, PTL DEF Spec

-----------------------------------------------------------------------------
(* Results. *)

ResultsTyped == results \in [Query -> Seq(Card)]

LEMMA KeepCardResult ==
  ASSUME StoreTypeOK, NEW q \in Query, NEW k \in Key, KeepCard(q, k)
  PROVE  \E c \in ToSet(cards') : AddResult(q, c) /\ c.key = k
<1>1. CASE Cached(k)
  BY <1>1, CardOfIn DEF KeepCard
<1>2. CASE ~Cached(k)
  <2> DEFINE c == [key |-> k, by |-> q]
  <2>1. c \in Card /\ c.key = k /\ cards \in Seq(Card)
    BY DEF Card, StoreTypeOK
  <2>2. cards' = Append(cards, c) /\ AddResult(q, c)
    BY <1>2 DEF KeepCard, AddCard
  <2> HIDE DEF c
  <2>3. ToSet(cards') = ToSet(cards) \cup {c}
    BY <2>1, <2>2, AppendSet
  <2> QED
    BY <2>1, <2>2, <2>3
<1> QED
  BY <1>1, <1>2

\* A step of a pass adds a card that the cache holds to its query's results, or
\* collects a full set, or frees the query, or leaves the results alone.
LEMMA ResultSteps ==
  ASSUME StoreTypeOK, GetNextOnSets, StoreCoherent, NEW q \in Query, UpdateQuery(q)
  PROVE  \/ UNCHANGED results
         \/ \E c \in ToSet(cards') : AddResult(q, c)
         \/ \E s : results' = [results EXCEPT ![q] = CardsOfSet(s)] /\ UNCHANGED cards
         \/ results' = [results EXCEPT ![q] = <<>>]
<1>0. query[q].data \in Body /\ query[q].target \in Target \cup {NoTarget}
  BY DEF StoreTypeOK, QueryFields
<1>1. CASE UpdateInitCardmarketId(q)
  <2>1. query[q].target.id \in Ids /\ UNCHANGED cards
    BY <1>0, <1>1, TargetTyped DEF UpdateInitCardmarketId, store
  <2> QED
    BY <1>1, <2>1 DEF UpdateInitCardmarketId, StoreCoherent
<1>2. CASE UpdateInitCardKey(q)
  BY <1>2, CardOfIn DEF UpdateInitCardKey, store
<1>3. CASE UpdateInitSet(q)
  BY <1>3 DEF UpdateInitSet, store
<1>4. CASE UpdateGetNextInSet(q)
  BY <1>4, CardOfIn DEF UpdateGetNextInSet, store
<1>5. CASE ParseSetCard(q) \/ ParseCard(q)
  <2>1. KeepCard(q, query[q].data.key) /\ ParseJson(query[q].data) = "OK"
    BY <1>5 DEF ParseSetCard, ParseCard
  <2>2. query[q].data.key \in Key
    BY <1>0, <2>1, ParseJsonTyped
  <2> QED
    BY <2>1, <2>2, KeepCardResult
<1>6. CASE RemoveDeleted(q)
  BY <1>6 DEF RemoveDeleted
<1> QED
  BY <1>1, <1>2, <1>3, <1>4, <1>5, <1>6
     DEF UpdateQuery, UpdateHttpGetKnownBad, UpdateHttpGetNoToken, UpdateHttpGet,
         UpdateWaiting, ParseSetNotFound, ParseFailed, SkipCompleted

\* A step of a pass changes its own query only, and frees it only when it was deleted.
LEMMA UpdateOthers ==
  ASSUME StoreTypeOK, GetNextOnSets, StoreCoherent, ResultsTyped,
         NEW q \in Query, UpdateQuery(q)
  PROVE  /\ \A p \in Query \ {q} : query'[p] = query[p] /\ results'[p] = results[p]
         /\ query'[q].state = "FREE" => RemoveDeleted(q)
         /\ query[q].state # "FREE"
<1>0. query[q] \in QueryFields
  BY DEF StoreTypeOK
<1>1. \A p \in Query \ {q} : results'[p] = results[p]
  BY ResultSteps DEF ResultsTyped, AddResult
<1>2. CASE UpdateHttpGet(q)
  <2>1. [query[q] EXCEPT !.state = "WAITING"].state = "WAITING"
    BY <1>0 DEF QueryFields
  <2> QED
    BY <1>1, <1>2, <2>1, PutOther DEF UpdateHttpGet, Visit
<1>3. CASE UpdateWaiting(q)
  <2> DEFINE r == [query[q] EXCEPT !.state = "PARSE_RESULT", !.data = client[q].body,
                     !.result = IF client[q].body = NoBody THEN "HTTP_GET_FAILED" ELSE "OK"]
  <2>1. r.state = "PARSE_RESULT"
    BY <1>0 DEF QueryFields
  <2>2. query[q].state = "WAITING" /\ (UNCHANGED query \/ Put(q, r))
    BY <1>3 DEF UpdateWaiting, Visit
  <2> HIDE DEF r
  <2> QED
    BY <1>1, <2>1, <2>2, PutOther
<1>4. CASE RemoveDeleted(q)
  BY <1>1, <1>4, PutOther DEF RemoveDeleted, Visit
<1>5. CASE ~UpdateHttpGet(q) /\ ~UpdateWaiting(q) /\ ~RemoveDeleted(q)
  <2>1. CASE UNCHANGED query /\ query[q].state # "FREE"
    BY <1>1, <2>1
  <2>2. ASSUME NEW r, Put(q, r), Thinks(query[q], r)
        PROVE  /\ \A p \in Query \ {q} : query'[p] = query[p]
               /\ query'[q].state # "FREE" /\ query[q].state # "FREE"
    BY <2>2, PutOther DEF Thinks, Thinking
  <2> QED
    BY <1>1, <1>5, <2>1, <2>2, UpdateShape
<1> QED
  BY <1>2, <1>3, <1>4, <1>5

\* ResultsLive needs that a query that does not exist has no results: Clear and
\* Destroy take the cards from under the queries there are.
LiveInv ==
  /\ StoreInv
  /\ ResultsTyped
  /\ ResultsLive
  /\ \A q \in Query : query[q].state = "FREE" => results[q] = <<>>

LEMMA LiveInit == Init => LiveInv
<1> SUFFICES ASSUME Init PROVE LiveInv
  OBVIOUS
<1>1. \A S : <<>> \in Seq(S)
  OBVIOUS
<1>2. ResultsTyped /\ ResultsLive /\ \A q \in Query : results[q] = <<>>
  BY <1>1 DEF Init, ResultsTyped, ResultsLive
<1> QED
  BY <1>2, StoreInit DEF LiveInv

\* No card object goes while the application does not clear the cache.
LEMMA CardsStay ==
  ASSUME StoreTypeOK, [Next]_vars, ~Clear, ~Destroy
  PROVE  ToSet(cards) \subseteq ToSet(cards')
<1>1. ASSUME NEW q \in Query, KeepCard(q, query[q].data.key), ParseJson(query[q].data) = "OK"
      PROVE  ToSet(cards) \subseteq ToSet(cards')
  <2>1. query[q].data \in Body
    BY DEF StoreTypeOK, QueryFields
  <2>2. query[q].data.key \in Key
    BY <1>1, <2>1, ParseJsonTyped
  <2> QED
    BY <1>1, <2>2, KeepCardKeys
<1> QED
  BY <1>1, StoreSteps

LEMMA LiveStep ==
  ASSUME Disciplined, LiveInv, [Next]_vars
  PROVE  LiveInv'
<1>0. /\ StoreTypeOK /\ GetNextOnSets /\ StoreCoherent /\ StoreInv' /\ cards \in Seq(Card)
      /\ ResultsTyped /\ ResultsLive
      /\ \A q \in Query : query[q].state = "FREE" => results[q] = <<>>
  BY StoreStep DEF LiveInv, StoreInv, AnswerInv, StoreTypeOK
<1>1. \A S : <<>> \in Seq(S)
  OBVIOUS
<1>2. ASSUME \A q \in Query : results'[q] = <<>>, DOMAIN results' = Query,
             results' = [q \in Query |-> results'[q]]
      PROVE  LiveInv'
  BY <1>0, <1>1, <1>2 DEF LiveInv, ResultsTyped, ResultsLive
<1>3. CASE Clear
  <2>1. \A q \in Query : results'[q] = <<>>
    BY <1>0, <1>3 DEF Clear
  <2> QED
    BY <1>0, <1>2, <1>3, <2>1 DEF Clear, ResultsTyped
<1>4. CASE Destroy
  BY <1>2, <1>4 DEF Destroy
<1>5. ASSUME ~Clear, ~Destroy PROVE LiveInv'
  <2>1. ToSet(cards) \subseteq ToSet(cards')
    BY <1>0, <1>5, CardsStay
  <2>2. ASSUME NEW r \in Seq(ToSet(cards)) PROVE r \in Seq(ToSet(cards'))
    BY <2>1, SeqMonotonic
  <2>3. \A q \in Query : results[q] \in Seq(ToSet(cards'))
    BY <1>0, <2>2 DEF ResultsLive
  <2>4. ToSet(cards') \subseteq Card
    <3>1. cards' \in Seq(Card)
      BY <1>0 DEF StoreInv, AnswerInv, StoreTypeOK
    <3> QED
      BY <3>1 DEF ToSet
  <2>5. ASSUME NEW r \in Seq(ToSet(cards')) PROVE r \in Seq(Card)
    BY <2>4, SeqMonotonic
  <2>6. ASSUME UNCHANGED results, \A q \in Query : query'[q].state = "FREE"
                 => query[q].state = "FREE"
        PROVE  LiveInv'
    BY <1>0, <2>3, <2>6 DEF LiveInv, ResultsTyped, ResultsLive
  <2>7. ASSUME NEW q \in Query, NEW t \in Targets, CreateQuery(q, t)
        PROVE  LiveInv'
    <3>1. \A p \in Query \ {q} : query'[p] = query[p]
      BY <1>0, <2>7, PutOther DEF CreateQuery, Put
    <3>2. query[q].state = "FREE" /\ UNCHANGED results
      BY <2>7 DEF CreateQuery
    <3> QED
      BY <2>6, <3>1, <3>2
  <2>8. ASSUME NEW q \in Query, DeleteQuery(q)
        PROVE  LiveInv'
    <3>1. [query[q] EXCEPT !.state = "DELETE"].state = "DELETE"
      BY <1>0 DEF StoreTypeOK, QueryFields
    <3>2. query'[q].state = "DELETE" /\ \A p \in Query \ {q} : query'[p] = query[p]
      BY <1>0, <2>8, <3>1, PutOther DEF DeleteQuery, Put
    <3> QED
      BY <2>6, <2>8, <3>2 DEF DeleteQuery
  <2>9. ASSUME NEW q \in Query, UpdateQuery(q)
        PROVE  LiveInv'
    <3> DEFINE Live == /\ results'[q] \in Seq(ToSet(cards'))
                       /\ DOMAIN results' = Query /\ results' = [p \in Query |-> results'[p]]
    <3>1. /\ \A p \in Query \ {q} : query'[p] = query[p] /\ results'[p] = results[p]
          /\ query'[q].state = "FREE" => RemoveDeleted(q)
      BY <1>0, <2>9, UpdateOthers
    <3>2. Live
      <4>1. CASE UNCHANGED results
        BY <1>0, <2>3, <4>1 DEF ResultsTyped
      <4>2. ASSUME NEW c \in ToSet(cards'), AddResult(q, c)
            PROVE  Live
        <5>1. results'[q] = Append(results[q], c)
          BY <1>0, <4>2 DEF AddResult, ResultsTyped
        <5>2. results[q] \in Seq(ToSet(cards'))
          BY <2>3
        <5>3. Append(results[q], c) \in Seq(ToSet(cards'))
          BY <4>2, <5>2, AppendProperties
        <5> QED
          BY <1>0, <4>2, <5>1, <5>3 DEF AddResult, ResultsTyped
      <4>3. ASSUME NEW s, results' = [results EXCEPT ![q] = CardsOfSet(s)], UNCHANGED cards
            PROVE  Live
        <5>1. /\ CardsOfSet(s) \in Seq(Card)
              /\ ToSet(CardsOfSet(s)) \subseteq ToSet(cards')
          BY <1>0, <4>3, CardsOfSetRight DEF StoreCoherent, Distinct
        <5>2. CardsOfSet(s) \in Seq(ToSet(CardsOfSet(s)))
          <6>1. ToSet(CardsOfSet(s)) = {CardsOfSet(s)[i] : i \in 1..Len(CardsOfSet(s))}
            BY <5>1 DEF ToSet
          <6> QED
            BY <5>1, <6>1
        <5>3. CardsOfSet(s) \in Seq(ToSet(cards'))
          BY <5>1, <5>2, SeqMonotonic
        <5> QED
          BY <1>0, <4>3, <5>3 DEF ResultsTyped
      <4>4. CASE results' = [results EXCEPT ![q] = <<>>]
        BY <1>0, <1>1, <4>4 DEF ResultsTyped
      <4> QED
        BY <1>0, <2>9, <4>1, <4>2, <4>3, <4>4, ResultSteps
    <3>3. RemoveDeleted(q) => results'[q] = <<>>
      BY <1>0 DEF RemoveDeleted, ResultsTyped
    <3>4. \A p \in Query : results'[p] \in Seq(ToSet(cards'))
      BY <2>3, <3>1, <3>2
    <3>5. \A p \in Query : results'[p] \in Seq(Card)
      BY <2>5, <3>4
    <3>6. ResultsTyped'
      BY <3>2, <3>5 DEF ResultsTyped
    <3>7. \A p \in Query : query'[p].state = "FREE" => results'[p] = <<>>
      BY <1>0, <3>1, <3>3
    <3> QED
      BY <1>0, <3>4, <3>6, <3>7 DEF LiveInv, ResultsLive
  <2> QED
    BY <1>5, <2>6, <2>7, <2>8, <2>9
       DEF Next, vars, CreateCache, Refill, BeginUpdate, Answer
<1> QED
  BY <1>3, <1>4, <1>5

\* The pointers a query hands out point to cards the cache holds, however many
\* queries parse the same card, as long as the application does not clear the
\* cache under a query.
THEOREM ResultsAreLive ==
  ASSUME Disciplined
  PROVE  Spec => []ResultsLive
<1>1. Init => LiveInv
  BY LiveInit
<1>2. LiveInv /\ [Next]_vars => LiveInv'
  BY LiveStep
<1>3. LiveInv => ResultsLive
  BY DEF LiveInv
<1> QED
  BY <1>1, <1>2, <1>3, PTL DEF Spec

-----------------------------------------------------------------------------
(* What a query has collected.  A walk at (n, v) has, in its own results,    *)
(* each card of its set before that position once; a query for a card has    *)
(* none until it is answered, and its URL asks for the card it was asked.    *)

KeysOf(r) == {c.key : c \in ToSet(r)}

AskUrl(t) == IF t.type = "CARD_KEY" THEN KeyUrl(t.key) ELSE IdUrl(t.id)

Collected(f, r) ==
  /\ Distinct(r)
  /\ Walked(KeysOf(r), f.target.set, f.num, f.ver)
  /\ \A k \in KeysOf(r) : k \in Catalog /\ k.set = f.target.set /\ Before(k, f.num, f.ver)

PromiseOK(f, r) ==
  /\ f.state # "FREE" => f.target \in Targets
  /\ f.state \in {"FREE", "INIT"} => r = <<>>
  /\ f.state \in Walking =>
       IF f.target.type = "SET" THEN Collected(f, r) ELSE r = <<>> /\ f.url = AskUrl(f.target)

PromiseInv ==
  /\ LiveInv
  /\ WalkInv
  /\ \A q \in Query : PromiseOK(query[q], results[q])

LEMMA AppendKeys ==
  ASSUME NEW r \in Seq(Card), NEW c \in Card
  PROVE  /\ Append(r, c) \in Seq(Card)
         /\ KeysOf(Append(r, c)) = KeysOf(r) \cup {c.key}
         /\ c.key \notin KeysOf(r) /\ Distinct(r) => Distinct(Append(r, c))
<1>1. Append(r, c) \in Seq(Card) /\ ToSet(Append(r, c)) = ToSet(r) \cup {c}
  BY AppendSet
<1> QED
  BY <1>1, AppendDistinct DEF KeysOf

LEMMA NoKeys == <<>> \in Seq(Card) /\ KeysOf(<<>>) = {} /\ Distinct(<<>>)
  BY DEF KeysOf, ToSet, Distinct

\* Where a walk goes from fields f.
LEMMA Positions ==
  ASSUME NEW f \in QueryFields, NEW p \in {PastFound(f), PastNotFound(f)}
  PROVE  LET g == [p EXCEPT !.state = "GET_NEXT_IN_SET"]
         IN  /\ f.ver \in Nat /\ f.num \in Nat
             /\ g.state = "GET_NEXT_IN_SET" /\ g.target = f.target
             /\ p = PastFound(f) /\ f.ver = 0 => g.num = f.num + 1 /\ g.ver = 0
             /\ p = PastFound(f) /\ f.ver > 0 => g.num = f.num /\ g.ver = f.ver + 1
             /\ p = PastNotFound(f) /\ f.ver = 0 => g.num = f.num /\ g.ver = 1
             /\ p = PastNotFound(f) /\ f.ver > 0 => g.num = f.num + 1 /\ g.ver = 0
<1>1. /\ f.ver \in Nat /\ f.num \in Nat
      /\ DOMAIN f = {"state", "target", "result", "num", "ver", "url", "data"}
  BY DEF QueryFields
<1>2. /\ [p EXCEPT !.state = "GET_NEXT_IN_SET"].state = "GET_NEXT_IN_SET"
      /\ [p EXCEPT !.state = "GET_NEXT_IN_SET"].target = f.target
      /\ [p EXCEPT !.state = "GET_NEXT_IN_SET"].num = p.num
      /\ [p EXCEPT !.state = "GET_NEXT_IN_SET"].ver = p.ver
  BY WalkThinks
<1>3. /\ p = PastFound(f) /\ f.ver = 0 => p.num = f.num + 1 /\ p.ver = 0
      /\ p = PastFound(f) /\ f.ver > 0 => p.num = f.num /\ p.ver = f.ver + 1
  BY <1>1 DEF PastFound
<1>4. p = PastNotFound(f) /\ f.ver = 0 => p.num = f.num /\ p.ver = 1
  BY <1>1 DEF PastNotFound
<1>5. p = PastNotFound(f) /\ f.ver > 0 => p.num = f.num + 1 /\ p.ver = 0
  BY <1>1 DEF PastNotFound
<1> QED
  BY <1>1, <1>2, <1>3, <1>4, <1>5

LEMMA CollectFound ==
  ASSUME Enumerable, NEW f \in QueryFields, NEW r \in Seq(Card), NEW c \in Card,
         Collected(f, r), c.key = PlainKey(f.target.set, f.num, f.ver), c.key \in Catalog
  PROVE  Collected([PastFound(f) EXCEPT !.state = "GET_NEXT_IN_SET"], Append(r, c))
<1> DEFINE g == [PastFound(f) EXCEPT !.state = "GET_NEXT_IN_SET"]
           k == c.key
           s == f.target.set
<1>0. /\ f.ver \in Nat /\ f.num \in Nat
      /\ g.target = f.target
      /\ f.ver = 0 => g.num = f.num + 1 /\ g.ver = 0
      /\ f.ver > 0 => g.num = f.num /\ g.ver = f.ver + 1
  BY Positions
<1> HIDE DEF g
<1>1. k.set = s /\ k.num = f.num /\ k.ver = f.ver
  BY DEF PlainKey
<1>2. KeysOf(Append(r, c)) = KeysOf(r) \cup {k}
  BY AppendKeys
<1>3. ~Before(k, f.num, f.ver)
  BY <1>0, <1>1 DEF Before
<1>4. Distinct(Append(r, c))
  BY <1>3, AppendKeys DEF Collected
<1>5. Walked(KeysOf(Append(r, c)), s, f.num, f.ver)
  BY <1>2, WalkedMore DEF Collected
<1>6. Walked(KeysOf(Append(r, c)), s, g.num, g.ver)
  BY <1>0, <1>2, <1>5, WalkedFound
<1>7. ASSUME NEW j \in KeysOf(Append(r, c))
      PROVE  j \in Catalog /\ j.set = s /\ Before(j, g.num, g.ver)
  <2>1. j \in Catalog /\ j.set = s /\ (Before(j, f.num, f.ver) \/ j = k)
    BY <1>1, <1>2, <1>7 DEF Collected
  <2>2. j.num \in Nat /\ j.ver \in Nat
    BY <2>1, KeyFields
  <2>3. Before(j, f.num, f.ver) \/ (j.num = f.num /\ j.ver = f.ver)
    BY <1>1, <2>1
  <2> QED
    BY <1>0, <2>1, <2>2, <2>3 DEF Before
<1>8. Collected(g, Append(r, c))
  BY <1>0, <1>4, <1>6, <1>7 DEF Collected
<1> QED
  BY <1>8 DEF g

LEMMA CollectNotFound ==
  ASSUME Enumerable, NEW f \in QueryFields, NEW r \in Seq(Card),
         Collected(f, r), PlainKey(f.target.set, f.num, f.ver) \notin Catalog
  PROVE  /\ f.ver # 1 => Collected([PastNotFound(f) EXCEPT !.state = "GET_NEXT_IN_SET"], r)
         /\ f.ver = 1 => KeysOf(r) = {k \in Catalog : k.set = f.target.set}
<1> DEFINE g == [PastNotFound(f) EXCEPT !.state = "GET_NEXT_IN_SET"]
           s == f.target.set
<1>0. /\ f.ver \in Nat /\ f.num \in Nat
      /\ g.target = f.target
      /\ f.ver = 0 => g.num = f.num /\ g.ver = 1
      /\ f.ver > 0 => g.num = f.num + 1 /\ g.ver = 0
  BY Positions
<1> HIDE DEF g
<1>1. /\ Distinct(r) /\ Walked(KeysOf(r), s, f.num, f.ver)
      /\ \A k \in KeysOf(r) : k \in Catalog /\ k.set = s /\ Before(k, f.num, f.ver)
  BY DEF Collected
<1>2. CASE f.ver = 1
  <2>1. Full(KeysOf(r), s)
    BY <1>1, <1>2, WalkedNotFound
  <2> QED
    BY <1>1, <1>2, <2>1 DEF Full
<1>3. CASE f.ver # 1
  <2>1. Walked(KeysOf(r), s, g.num, g.ver)
    BY <1>0, <1>1, <1>3, WalkedNotFound
  <2>2. ASSUME NEW j \in KeysOf(r) PROVE Before(j, g.num, g.ver)
    <3>1. j.num \in Nat /\ j.ver \in Nat /\ Before(j, f.num, f.ver)
      BY <1>1, KeyFields
    <3> QED
      BY <1>0, <1>3, <3>1 DEF Before
  <2>3. Collected(g, r)
    BY <1>0, <1>1, <2>1, <2>2 DEF Collected
  <2> QED
    BY <1>3, <2>3 DEF g
<1> QED
  BY <1>2, <1>3

-----------------------------------------------------------------------------
(* Right answers. *)

AnswerOf(f, r) == [code |-> f.result, keys |-> [i \in DOMAIN r |-> r[i].key]]

LEMMA WantedCards ==
  /\ \A i : Service!Wanted(IdTarget(i)) = {k \in Catalog : IdOf(k) = i}
  /\ \A k : Service!Wanted(KeyTarget(k)) = {k} \cap Catalog
  /\ \A s : Service!Wanted(SetTarget(s)) = {k \in Catalog : k.set = s}
  BY DEF Service!Wanted, IdTarget, KeyTarget, SetTarget

LEMMA RightAnswer ==
  ASSUME NEW t, NEW f \in QueryFields, NEW r \in Seq(Card), Distinct(r),
         KeysOf(r) \subseteq Service!Wanted(t),
         f.result = "OK" => IF t.type = "SET" THEN KeysOf(r) = Service!Wanted(t) ELSE Len(r) = 1,
         f.result = "NOT_FOUND" => Service!Wanted(t) = {} /\ t.type # "SET"
  PROVE  Service!Right(t, AnswerOf(f, r))
<1> DEFINE keys == [i \in DOMAIN r |-> r[i].key]
<1>1. DOMAIN r = 1..Len(r) /\ Len(r) \in Nat
  OBVIOUS
<1>2. DOMAIN keys = 1..Len(r) /\ Len(keys) = Len(r) /\ \A i \in 1..Len(r) : keys[i] = r[i].key
  BY <1>1
<1>3. Service!Range(keys) = KeysOf(r)
  BY <1>1, <1>2 DEF Service!Range, KeysOf, ToSet
<1>4. Service!IsInjective(keys)
  BY <1>1, <1>2 DEF Service!IsInjective, Distinct
<1>5. AnswerOf(f, r).code = f.result /\ AnswerOf(f, r).keys = keys
  BY DEF AnswerOf
<1>6. f.result # "NONE"
  BY DEF QueryFields, Result
<1> HIDE DEF keys
<1> QED
  BY <1>2, <1>3, <1>4, <1>5, <1>6 DEF Service!Right

\* A card is the right answer of a query that wants it, and no card is when the
\* query ends otherwise.
LEMMA RightCard ==
  ASSUME NEW t, NEW f \in QueryFields, f.result = "OK", NEW c \in Card,
         c.key \in Service!Wanted(t), t.type # "SET"
  PROVE  Service!Right(t, AnswerOf(f, Append(<<>>, c)))
<1> DEFINE none == <<>>
<1>1. none \in Seq(Card) /\ KeysOf(none) = {} /\ Distinct(none) /\ Len(Append(none, c)) = 1
  BY NoKeys
<1> HIDE DEF none
<1>2. /\ Append(none, c) \in Seq(Card) /\ KeysOf(Append(none, c)) = {c.key}
      /\ Distinct(Append(none, c))
  BY <1>1, AppendKeys
<1>3. Service!Right(t, AnswerOf(f, Append(none, c)))
  BY <1>1, <1>2, RightAnswer
<1> QED
  BY <1>3 DEF none

LEMMA RightNothing ==
  ASSUME NEW t, NEW f \in QueryFields, f.result # "OK",
         f.result = "NOT_FOUND" => Service!Wanted(t) = {} /\ t.type # "SET"
  PROVE  Service!Right(t, AnswerOf(f, <<>>))
  BY NoKeys, RightAnswer

\* What a walk has collected is right when it ends: all of the set at the end
\* of the walk, some of it after a failure.
LEMMA RightWalk ==
  ASSUME NEW t, t.type = "SET", NEW f \in QueryFields, NEW r \in Seq(Card),
         Distinct(r), KeysOf(r) \subseteq {k \in Catalog : k.set = t.set},
         f.result = "OK" => KeysOf(r) = {k \in Catalog : k.set = t.set},
         f.result # "NOT_FOUND"
  PROVE  Service!Right(t, AnswerOf(f, r))
<1>1. Service!Wanted(t) = {k \in Catalog : k.set = t.set}
  BY DEF Service!Wanted
<1> QED
  BY <1>1, RightAnswer

\* What a step takes a query from fields f and results r to, fields g and
\* results s, as QueryService sees it.
Fulfils(f, r, g, s) ==
  /\ PromiseOK(g, s)
  /\ \/ f.state \in Unfinished /\ g.state \in Unfinished /\ g.target = f.target
     \/ /\ f.state \in Unfinished /\ g.state = "COMPLETED" /\ g.target = f.target
        /\ Service!Right(g.target, AnswerOf(g, s))
     \/ f.state = "DELETE" /\ g.state = "FREE"
     \/ g = f /\ s = r

\* What the query asked for, by the kind of its target.
LEMMA WantedFor ==
  ASSUME NEW t \in Target
  PROVE  /\ t.type \in {"CARDMARKET_ID", "CARD_KEY", "SET"}
         /\ t.type = "CARDMARKET_ID" => t.id \in Ids
              /\ Service!Wanted(t) = {k \in Catalog : IdOf(k) = t.id}
         /\ t.type = "CARD_KEY" => t.key \in Key /\ Service!Wanted(t) = {t.key} \cap Catalog
         /\ t.type = "SET" => t.set \in Sets /\ Service!Wanted(t) = {k \in Catalog : k.set = t.set}
  BY DEF Target, Service!Wanted

\* The server answers a query for a card with what it wants.
LEMMA AskedIsWanted ==
  ASSUME ServerHonest, NEW t \in Target, t.type # "SET"
  PROVE  /\ CardsAt(AskUrl(t)) \subseteq Service!Wanted(t)
         /\ CardsAt(AskUrl(t)) = {} => Service!Wanted(t) = {}
<1>1. CASE t.type = "CARD_KEY"
  BY <1>1, WantedFor DEF ServerHonest, HonestAbout, AskUrl
<1>2. CASE t.type = "CARDMARKET_ID"
  BY <1>2, WantedFor DEF ServerHonest, HonestAbout, AskUrl
<1> QED
  BY <1>1, <1>2, WantedFor

-----------------------------------------------------------------------------
(* Every handler fulfils the promise. *)

LEMMA PromiseFacts ==
  ASSUME PromiseInv, NEW q \in Query
  PROVE  /\ StoreTypeOK /\ GetNextOnSets /\ CardsInCatalog /\ NegativeCacheSound
         /\ RequestOK(q) /\ WalkOK(CachedKeys, query[q])
         /\ FullSetSound /\ StoreCoherent /\ ResultsTyped
         /\ query[q] \in QueryFields /\ query[q].data \in Body
         /\ results[q] \in Seq(Card)
         /\ query[q].state # "FREE" => query[q].target \in Targets /\ query[q].target \in Target
         /\ PromiseOK(query[q], results[q])
<1>1. /\ StoreTypeOK /\ GetNextOnSets /\ CardsInCatalog /\ NegativeCacheSound
      /\ RequestOK(q) /\ WalkOK(CachedKeys, query[q])
      /\ FullSetSound /\ StoreCoherent /\ ResultsTyped
      /\ PromiseOK(query[q], results[q])
  BY DEF PromiseInv, LiveInv, StoreInv, WalkInv, AnswerInv
<1>2. query[q] \in QueryFields /\ results[q] \in Seq(Card)
  BY <1>1 DEF StoreTypeOK, ResultsTyped
<1>3. query[q].state # "FREE" => query[q].target \in Targets /\ query[q].target \in Target
  BY <1>1, TargetsAssumption DEF PromiseOK
<1> QED
  BY <1>1, <1>2, <1>3 DEF QueryFields

LEMMA ResultAdded ==
  ASSUME ResultsTyped, NEW q \in Query, NEW c, AddResult(q, c)
  PROVE  results'[q] = Append(results[q], c)
  BY DEF ResultsTyped, AddResult

\* A query ends with an answer ...
LEMMA EndsRight ==
  ASSUME PromiseInv, NEW q \in Query, query[q].state \in Unfinished,
         NEW r \in QueryFields, Put(q, r), r.state = "COMPLETED", r.target = query[q].target,
         Service!Right(r.target, AnswerOf(r, results'[q]))
  PROVE  Fulfils(query[q], results[q], query'[q], results'[q])
<1>1. query'[q] = r /\ query[q].target \in Targets
  BY PromiseFacts, PutOther DEF Unfinished
<1> QED
  BY <1>1 DEF Fulfils, PromiseOK, Walking

\* ... or goes on with what it has collected.
LEMMA GoesOn ==
  ASSUME PromiseInv, NEW q \in Query, query[q].state \in Unfinished,
         NEW r, Put(q, r), r.state \in Walking, r.target = query[q].target,
         IF r.target.type = "SET" THEN Collected(r, results'[q])
                                  ELSE results'[q] = <<>> /\ r.url = AskUrl(r.target)
  PROVE  Fulfils(query[q], results[q], query'[q], results'[q])
<1>1. query'[q] = r /\ query[q].target \in Targets
  BY PromiseFacts, PutOther DEF Unfinished
<1>2. r.state \in Unfinished /\ r.state \notin {"FREE", "INIT"}
  BY DEF Unfinished, Walking
<1> QED
  BY <1>1, <1>2 DEF Fulfils, PromiseOK

LEMMA InitCardmarketIdFulfils ==
  ASSUME PromiseInv, NEW q \in Query, UpdateInitCardmarketId(q)
  PROVE  Fulfils(query[q], results[q], query'[q], results'[q])
<1> DEFINE f == query[q]
           t == f.target
           c == idMap[t.id]
<1>0. /\ f \in QueryFields /\ f.state = "INIT" /\ f.state \in Unfinished
      /\ t \in Target /\ t.type = "CARDMARKET_ID" /\ t.id \in Ids
      /\ results[q] = <<>> /\ Service!Wanted(t) = {k \in Catalog : IdOf(k) = t.id}
  BY PromiseFacts, WantedFor DEF UpdateInitCardmarketId, Visit, PromiseOK, Unfinished
<1>1. CASE c # NoCard /\ AddResult(q, c) /\ Put(q, Completed(f, "OK"))
  <2>1. c \in ToSet(cards) /\ IdOf(c.key) = t.id
    BY <1>0, <1>1, PromiseFacts DEF StoreCoherent
  <2>2. c \in Card /\ c.key \in Service!Wanted(t)
    BY <1>0, <1>1, <2>1, PromiseFacts DEF StoreTypeOK, CardsInCatalog
  <2>3. results'[q] = Append(<<>>, c)
    BY <1>0, <1>1, PromiseFacts, ResultAdded
  <2> HIDE DEF c
  <2>4. /\ Completed(f, "OK") \in QueryFields /\ Completed(f, "OK").result = "OK"
        /\ Completed(f, "OK").target = t /\ Completed(f, "OK").state = "COMPLETED"
    BY <1>0, CompletedThinks DEF Result
  <2> QED
    BY <1>0, <1>1, <2>2, <2>3, <2>4, RightCard, EndsRight
<1>2. CASE UNCHANGED results /\ Put(q, Fetching(f, IdUrl(t.id)))
  <2>1. /\ Fetching(f, IdUrl(t.id)).state \in Walking /\ Fetching(f, IdUrl(t.id)).target = t
        /\ Fetching(f, IdUrl(t.id)).url = AskUrl(t)
    BY <1>0, FetchingFields DEF Walking, AskUrl
  <2> QED
    BY <1>0, <1>2, <2>1, GoesOn
<1> QED
  BY <1>1, <1>2 DEF UpdateInitCardmarketId

LEMMA InitCardKeyFulfils ==
  ASSUME PromiseInv, NEW q \in Query, UpdateInitCardKey(q)
  PROVE  Fulfils(query[q], results[q], query'[q], results'[q])
<1> DEFINE f == query[q]
           t == f.target
           c == CardOf(t.key)
<1>0. /\ f \in QueryFields /\ f.state = "INIT" /\ f.state \in Unfinished
      /\ t \in Target /\ t.type = "CARD_KEY" /\ t.key \in Key
      /\ results[q] = <<>> /\ Service!Wanted(t) = {t.key} \cap Catalog
  BY PromiseFacts, WantedFor DEF UpdateInitCardKey, Visit, PromiseOK, Unfinished
<1>00. ASSUME NEW r \in Result
       PROVE  /\ Completed(f, r) \in QueryFields /\ Completed(f, r).result = r
              /\ Completed(f, r).target = t /\ Completed(f, r).state = "COMPLETED"
  BY <1>0, CompletedThinks
<1>1. CASE Cached(t.key) /\ AddResult(q, c) /\ Put(q, Completed(f, "OK"))
  <2>1. c \in ToSet(cards) /\ c.key = t.key
    BY <1>1, CardOfIn
  <2>2. c \in Card /\ c.key \in Service!Wanted(t)
    <3>1. ToSet(cards) \subseteq Card
      BY PromiseFacts DEF StoreTypeOK, ToSet
    <3> QED
      BY <1>0, <2>1, <3>1, PromiseFacts DEF CardsInCatalog
  <2>3. results'[q] = Append(<<>>, c)
    BY <1>0, <1>1, PromiseFacts, ResultAdded
  <2> HIDE DEF c
  <2> QED
    BY <1>0, <1>00, <1>1, <2>2, <2>3, RightCard, EndsRight DEF Result
<1>2. CASE UNCHANGED results /\ Put(q, Completed(f, "INVALID_COLLECTOR_NUMBER"))
  BY <1>0, <1>00, <1>2, RightNothing, EndsRight DEF Result
<1>3. CASE UNCHANGED results /\ Put(q, Fetching(f, KeyUrl(t.key)))
  <2>1. /\ Fetching(f, KeyUrl(t.key)).state \in Walking /\ Fetching(f, KeyUrl(t.key)).target = t
        /\ Fetching(f, KeyUrl(t.key)).url = AskUrl(t)
    BY <1>0, FetchingFields DEF Walking, AskUrl
  <2> QED
    BY <1>0, <1>3, <2>1, GoesOn
<1> QED
  BY <1>1, <1>2, <1>3 DEF UpdateInitCardKey

LEMMA InitSetFulfils ==
  ASSUME Enumerable, PromiseInv, NEW q \in Query, UpdateInitSet(q)
  PROVE  Fulfils(query[q], results[q], query'[q], results'[q])
<1> DEFINE f == query[q]
           t == f.target
           g == [f EXCEPT !.state = "GET_NEXT_IN_SET", !.num = 1, !.ver = 0]
<1>0. /\ f \in QueryFields /\ f.state = "INIT" /\ f.state \in Unfinished
      /\ t.type = "SET" /\ results[q] = <<>>
  BY PromiseFacts DEF UpdateInitSet, Visit, PromiseOK, Unfinished
<1>1. CASE t.set \in fullSets /\ results' = [results EXCEPT ![q] = CardsOfSet(t.set)]
             /\ Put(q, Completed(f, "OK"))
  <2> DEFINE found == CardsOfSet(t.set)
  <2>1. /\ found \in Seq(Card) /\ Distinct(found)
        /\ ToSet(found) = {c \in ToSet(cards) : c.key.set = t.set}
    BY PromiseFacts, CardsOfSetRight DEF StoreTypeOK, StoreCoherent, Distinct
  <2>2. KeysOf(found) = {k \in Catalog : k.set = t.set}
    <3>1. ASSUME NEW k \in Catalog, k.set = t.set PROVE k \in KeysOf(found)
      BY <1>1, <2>1, <3>1, PromiseFacts DEF FullSetSound, Cached, KeysOf
    <3>2. \A k \in KeysOf(found) : k \in Catalog /\ k.set = t.set
      BY <2>1, PromiseFacts DEF CardsInCatalog, KeysOf
    <3> QED
      BY <3>1, <3>2
  <2>3. results'[q] = found
    BY <1>1, PromiseFacts DEF ResultsTyped
  <2> HIDE DEF found
  <2>4. /\ Completed(f, "OK") \in QueryFields /\ Completed(f, "OK").result = "OK"
        /\ Completed(f, "OK").target = t /\ Completed(f, "OK").state = "COMPLETED"
    BY <1>0, CompletedThinks DEF Result
  <2> QED
    BY <1>0, <1>1, <2>1, <2>2, <2>3, <2>4, RightWalk, EndsRight
<1>2. CASE UNCHANGED results /\ Put(q, g)
  <2>1. g.state = "GET_NEXT_IN_SET" /\ g.num = 1 /\ g.ver = 0 /\ g.target = t
    BY <1>0 DEF QueryFields
  <2> HIDE DEF g
  <2>2. Collected(g, results'[q])
    BY <1>0, <1>2, <2>1, NoKeys, WalkedStart DEF Collected
  <2> QED
    BY <1>0, <1>2, <2>1, <2>2, GoesOn DEF Walking
<1> QED
  BY <1>1, <1>2 DEF UpdateInitSet

\* A walk that meets a card of its set takes it.
LEMMA FoundFulfils ==
  ASSUME Enumerable, PromiseInv, NEW q \in Query, query[q].state \in Walking,
         query[q].target.type = "SET",
         NEW f \in QueryFields, f.target = query[q].target, f.num = query[q].num,
           f.ver = query[q].ver,
         NEW c \in Card, c.key = NextKey(q), c.key \in Catalog, AddResult(q, c),
         Put(q, [PastFound(f) EXCEPT !.state = "GET_NEXT_IN_SET"])
  PROVE  Fulfils(query[q], results[q], query'[q], results'[q])
<1> DEFINE g == [PastFound(f) EXCEPT !.state = "GET_NEXT_IN_SET"]
<1>1. Collected(f, results[q]) /\ results[q] \in Seq(Card)
  BY PromiseFacts DEF PromiseOK, Collected
<1>2. Collected(g, Append(results[q], c))
  BY <1>1, CollectFound DEF NextKey
<1>3. g.state = "GET_NEXT_IN_SET" /\ g.target = f.target
  BY Positions
<1>4. results'[q] = Append(results[q], c)
  BY PromiseFacts, ResultAdded
<1> HIDE DEF g
<1>5. Put(q, g) /\ query[q].state \in Unfinished
  BY DEF g, Walking, Unfinished
<1> QED
  BY <1>2, <1>3, <1>4, <1>5, GoesOn DEF Walking

\* A walk that meets none goes on, or is over with the whole set.
LEMMA NotFoundFulfils ==
  ASSUME Enumerable, PromiseInv, NEW q \in Query, query[q].state \in Walking,
         query[q].target.type = "SET", NextKey(q) \notin Catalog,
         NEW f \in QueryFields, f.target = query[q].target, f.num = query[q].num,
           f.ver = query[q].ver,
         SetCardNotFound(q, f), UNCHANGED results
  PROVE  Fulfils(query[q], results[q], query'[q], results'[q])
<1>0. query[q].state \in Unfinished
  BY DEF Walking, Unfinished
<1>1. /\ Collected(f, results[q]) /\ results[q] \in Seq(Card)
      /\ PlainKey(f.target.set, f.num, f.ver) \notin Catalog
  BY PromiseFacts DEF PromiseOK, Collected, NextKey
<1>2. CASE f.ver = 1 /\ Put(q, Completed(f, "OK"))
  <2> DEFINE g == Completed(f, "OK")
  <2>1. g \in QueryFields /\ g.result = "OK" /\ g.target = query[q].target /\ g.state = "COMPLETED"
    BY CompletedThinks DEF Result
  <2>2. KeysOf(results[q]) = {k \in Catalog : k.set = f.target.set} /\ Distinct(results[q])
    BY <1>1, <1>2, CollectNotFound DEF Collected
  <2>3. Put(q, g)
    BY <1>2
  <2> HIDE DEF g
  <2> QED
    BY <1>0, <1>1, <2>1, <2>2, <2>3, RightWalk, EndsRight
<1>3. CASE f.ver # 1 /\ Put(q, [PastNotFound(f) EXCEPT !.state = "GET_NEXT_IN_SET"])
  <2> DEFINE g == [PastNotFound(f) EXCEPT !.state = "GET_NEXT_IN_SET"]
  <2>1. g.state = "GET_NEXT_IN_SET" /\ g.target = query[q].target
    BY Positions
  <2>2. Collected(g, results[q]) /\ Put(q, g)
    BY <1>1, <1>3, CollectNotFound
  <2> HIDE DEF g
  <2> QED
    BY <1>0, <2>1, <2>2, GoesOn DEF Walking
<1> QED
  BY <1>2, <1>3 DEF SetCardNotFound

LEMMA GetNextFulfils ==
  ASSUME Enumerable, PromiseInv, NEW q \in Query, UpdateGetNextInSet(q)
  PROVE  Fulfils(query[q], results[q], query'[q], results'[q])
<1> DEFINE f == query[q]
           g == Fetching(f, KeyUrl(NextKey(q)))
<1>0. /\ f \in QueryFields /\ f.state = "GET_NEXT_IN_SET" /\ f.target.type = "SET"
      /\ f.state \in Unfinished /\ f.state \in Walking
  BY PromiseFacts DEF UpdateGetNextInSet, Visit, GetNextOnSets, Unfinished, Walking
<1>1. ASSUME Cached(NextKey(q)), AddResult(q, CardOf(NextKey(q))), Put(q, PastFound(f))
      PROVE  Fulfils(query[q], results[q], query'[q], results'[q])
  <2>1. CardOf(NextKey(q)) \in ToSet(cards) /\ CardOf(NextKey(q)).key = NextKey(q)
    BY <1>1, CardOfIn
  <2>2. ToSet(cards) \subseteq Card
    BY PromiseFacts DEF StoreTypeOK, ToSet
  <2>3. CardOf(NextKey(q)) \in Card /\ CardOf(NextKey(q)).key \in Catalog
    BY <2>1, <2>2, PromiseFacts DEF CardsInCatalog
  <2>4. PastFound(f) = [PastFound(f) EXCEPT !.state = "GET_NEXT_IN_SET"]
    <3>1. PastFound(f) \in QueryFields /\ PastFound(f).state = "GET_NEXT_IN_SET"
      BY <1>0, WalkThinks
    <3> QED
      BY <3>1 DEF QueryFields
  <2> QED
    BY <1>0, <1>1, <2>1, <2>3, <2>4, FoundFulfils
<1>2. ASSUME UNCHANGED results, Put(q, g)
      PROVE  Fulfils(query[q], results[q], query'[q], results'[q])
  <2>1. /\ g.state = "HTTP_GET" /\ g.target = f.target /\ g.num = f.num /\ g.ver = f.ver
    BY <1>0, FetchingFields
  <2> HIDE DEF g
  <2>2. Collected(g, results'[q])
    BY <1>0, <1>2, <2>1, PromiseFacts DEF PromiseOK, Collected
  <2> QED
    BY <1>0, <1>2, <2>1, <2>2, GoesOn DEF Walking
<1> QED
  BY <1>1, <1>2 DEF UpdateGetNextInSet

\* The URL of a query leads to what it wants next.
LEMMA UrlLeads ==
  ASSUME ServerHonest, PromiseInv, NEW q \in Query,
         query[q].state \in {"HTTP_GET", "WAITING", "PARSE_RESULT"}
  PROVE  LET t == query[q].target
             at == CardsAt(query[q].url)
         IN  /\ t.type = "SET" => at = {NextKey(q)} \cap Catalog
             /\ t.type # "SET" => /\ at \subseteq Service!Wanted(t)
                                  /\ at = {} => Service!Wanted(t) = {}
                                  /\ query[q].url = AskUrl(t) /\ results[q] = <<>>
<1>1. query[q].state \in Walking /\ query[q].target \in Target
  BY PromiseFacts DEF Walking
<1>2. CASE query[q].target.type = "SET"
  BY <1>1, <1>2, PromiseFacts, WalkUrl DEF WalkOK
<1>3. CASE query[q].target.type # "SET"
  BY <1>1, <1>3, PromiseFacts, AskedIsWanted DEF PromiseOK
<1> QED
  BY <1>2, <1>3

LEMMA KnownBadFulfils ==
  ASSUME ServerHonest, Enumerable, PromiseInv, NEW q \in Query, UpdateHttpGetKnownBad(q)
  PROVE  Fulfils(query[q], results[q], query'[q], results'[q])
<1> DEFINE f == query[q]
           g == Completed(f, "NOT_FOUND")
<1>0. /\ f \in QueryFields /\ f.state = "HTTP_GET" /\ f.state \in Unfinished
      /\ f.state \in Walking /\ UNCHANGED results /\ CardsAt(f.url) = {}
  BY PromiseFacts DEF UpdateHttpGetKnownBad, Visit, Unfinished, Walking, NegativeCacheSound
<1>1. CASE f.target.type = "SET" /\ SetCardNotFound(q, f)
  <2>1. NextKey(q) \notin Catalog
    BY <1>0, <1>1, UrlLeads
  <2> QED
    BY <1>0, <1>1, <2>1, NotFoundFulfils
<1>2. CASE f.target.type # "SET" /\ Put(q, g)
  <2>1. g \in QueryFields /\ g.result = "NOT_FOUND" /\ g.target = f.target /\ g.state = "COMPLETED"
    BY <1>0, CompletedThinks DEF Result
  <2>2. Service!Wanted(f.target) = {} /\ results'[q] = <<>>
    BY <1>0, <1>2, UrlLeads
  <2> HIDE DEF g
  <2> QED
    BY <1>0, <1>2, <2>1, <2>2, RightNothing, EndsRight
<1> QED
  BY <1>1, <1>2 DEF UpdateHttpGetKnownBad, KnownBad

\* A query that begins its request or polls it keeps all that is promised of.
LEMMA RequestFulfils ==
  ASSUME PromiseInv, NEW q \in Query, UNCHANGED results,
         query[q].state \in {"HTTP_GET", "WAITING"},
         NEW r \in QueryFields, Put(q, r), r.state \in {"WAITING", "PARSE_RESULT"},
         r.target = query[q].target, r.url = query[q].url,
         r.num = query[q].num, r.ver = query[q].ver
  PROVE  Fulfils(query[q], results[q], query'[q], results'[q])
<1>1. /\ query[q].state \in Walking /\ r.state \in Walking /\ query[q].state \in Unfinished
  BY DEF Walking, Unfinished
<1>2. IF r.target.type = "SET" THEN Collected(r, results'[q])
                               ELSE results'[q] = <<>> /\ r.url = AskUrl(r.target)
  BY <1>1, PromiseFacts DEF PromiseOK, Collected
<1> QED
  BY <1>1, <1>2, GoesOn

LEMMA HttpGetFulfils ==
  ASSUME PromiseInv, NEW q \in Query, UpdateHttpGet(q)
  PROVE  Fulfils(query[q], results[q], query'[q], results'[q])
<1> DEFINE g == [query[q] EXCEPT !.state = "WAITING"]
<1>1. query[q] \in QueryFields /\ query[q].state = "HTTP_GET" /\ Put(q, g) /\ UNCHANGED results
  BY PromiseFacts DEF UpdateHttpGet, Visit
<1>2. /\ g \in QueryFields /\ g.state = "WAITING" /\ g.target = query[q].target
      /\ g.url = query[q].url /\ g.num = query[q].num /\ g.ver = query[q].ver
  BY <1>1 DEF QueryFields, QueryState
<1> HIDE DEF g
<1> QED
  BY <1>1, <1>2, RequestFulfils

LEMMA WaitingFulfils ==
  ASSUME PromiseInv, NEW q \in Query, UpdateWaiting(q)
  PROVE  Fulfils(query[q], results[q], query'[q], results'[q])
<1> DEFINE f == query[q]
           g == [f EXCEPT !.state = "PARSE_RESULT", !.data = client[q].body,
                   !.result = IF client[q].body = NoBody THEN "HTTP_GET_FAILED" ELSE "OK"]
<1>0. f \in QueryFields /\ f.state = "WAITING" /\ UNCHANGED results
  BY PromiseFacts DEF UpdateWaiting, Visit
<1>1. CASE UNCHANGED query
  BY <1>0, <1>1, PromiseFacts DEF Fulfils
<1>2. CASE Put(q, g)
  <2>1. client[q].body \in Body
    BY PromiseFacts DEF StoreTypeOK, Request
  <2>2. /\ g \in QueryFields /\ g.state = "PARSE_RESULT" /\ g.target = f.target
        /\ g.url = f.url /\ g.num = f.num /\ g.ver = f.ver
    BY <1>0, <2>1 DEF QueryFields, QueryState, Result
  <2> HIDE DEF g
  <2> QED
    BY <1>0, <1>2, <2>2, RequestFulfils
<1> QED
  BY <1>1, <1>2 DEF UpdateWaiting

\* What was parsed is what the server has for the query's URL.
LEMMA ParsedIsThere ==
  ASSUME PromiseInv, NEW q \in Query, query[q].state = "PARSE_RESULT"
  PROVE  LET outcome == ParseJson(query[q].data)
             k == query[q].data.key
         IN  /\ outcome \in Result
             /\ outcome = "OK" => k \in Key /\ k \in Catalog /\ k \in CardsAt(query[q].url)
             /\ outcome = "NOT_FOUND" => CardsAt(query[q].url) = {}
<1>1. query[q].data \in Body /\ Truthful(query[q].url, query[q].data)
  BY PromiseFacts DEF RequestOK
<1>2. /\ ParseJson(query[q].data) = "OK" => query[q].data.kind = "card"
      /\ ParseJson(query[q].data) = "NOT_FOUND" => query[q].data.kind = "not_found"
  BY DEF ParseJson
<1> QED
  BY <1>1, <1>2, ParseJsonTyped DEF Truthful

LEMMA ParseSetCardFulfils ==
  ASSUME ServerHonest, Enumerable, PromiseInv, NEW q \in Query, ParseSetCard(q)
  PROVE  Fulfils(query[q], results[q], query'[q], results'[q])
<1>1. /\ query[q].state = "PARSE_RESULT" /\ query[q].target.type = "SET"
      /\ query[q].state \in Walking /\ ParseJson(query[q].data) = "OK"
      /\ KeepCard(q, query[q].data.key)
      /\ Put(q, [PastFound(Parsed(q)) EXCEPT !.state = "GET_NEXT_IN_SET"])
  BY DEF ParseSetCard, Visit, Walking
<1>2. query[q].data.key = NextKey(q) /\ NextKey(q) \in Catalog /\ NextKey(q) \in Key
  BY <1>1, ParsedIsThere, UrlLeads
<1>3. /\ Parsed(q) \in QueryFields /\ Parsed(q).target = query[q].target
      /\ Parsed(q).num = query[q].num /\ Parsed(q).ver = query[q].ver
  BY PromiseFacts, ParsedFields
<1>4. PICK c \in ToSet(cards') : AddResult(q, c) /\ c.key = NextKey(q)
  BY <1>1, <1>2, PromiseFacts, KeepCardResult
<1>5. c \in Card
  <2>1. cards' \in Seq(Card)
    BY <1>1, <1>2, PromiseFacts, KeepCardTyped DEF StoreTypeOK
  <2> QED
    BY <2>1 DEF ToSet
<1> QED
  BY <1>1, <1>2, <1>3, <1>4, <1>5, FoundFulfils

LEMMA ParseSetNotFoundFulfils ==
  ASSUME ServerHonest, Enumerable, PromiseInv, NEW q \in Query, ParseSetNotFound(q)
  PROVE  Fulfils(query[q], results[q], query'[q], results'[q])
<1>1. /\ query[q].state = "PARSE_RESULT" /\ query[q].target.type = "SET"
      /\ query[q].state \in Walking /\ ParseJson(query[q].data) = "NOT_FOUND"
      /\ SetCardNotFound(q, Parsed(q)) /\ UNCHANGED results
  BY DEF ParseSetNotFound, Visit, Walking
<1>2. NextKey(q) \notin Catalog
  BY <1>1, ParsedIsThere, UrlLeads
<1>3. /\ Parsed(q) \in QueryFields /\ Parsed(q).target = query[q].target
      /\ Parsed(q).num = query[q].num /\ Parsed(q).ver = query[q].ver
  BY PromiseFacts, ParsedFields
<1> QED
  BY <1>1, <1>2, <1>3, NotFoundFulfils

\* A key query is never sent another version than it asked for.
LEMMA ParseCardFulfils ==
  ASSUME ServerHonest, PromiseInv, NEW q \in Query, ParseCard(q)
  PROVE  Fulfils(query[q], results[q], query'[q], results'[q])
<1> DEFINE t == query[q].target
           k == query[q].data.key
           g == Completed(Parsed(q), "OK")
<1>1. /\ query[q].state = "PARSE_RESULT" /\ t.type # "SET" /\ query[q].state \in Unfinished
      /\ ParseJson(query[q].data) = "OK" /\ KeepCard(q, k) /\ t \in Target
  BY PromiseFacts DEF ParseCard, Visit, Unfinished
<1>2. k \in Key /\ k \in Service!Wanted(t) /\ results[q] = <<>>
  BY <1>1, ParsedIsThere, UrlLeads
<1>3. ~OtherVersion(t, k)
  BY <1>1, <1>2, WantedFor DEF OtherVersion
<1>4. Put(q, g)
  BY <1>3 DEF ParseCard
<1>5. /\ g \in QueryFields /\ g.result = "OK" /\ g.target = t /\ g.state = "COMPLETED"
  <2>1. Parsed(q) \in QueryFields /\ Parsed(q).target = t
    BY PromiseFacts, ParsedFields
  <2> QED
    BY <2>1, CompletedThinks DEF Result
<1>6. PICK c \in ToSet(cards') : AddResult(q, c) /\ c.key = k
  BY <1>1, <1>2, PromiseFacts, KeepCardResult
<1>7. c \in Card
  <2>1. cards' \in Seq(Card)
    BY <1>1, <1>2, PromiseFacts, KeepCardTyped DEF StoreTypeOK
  <2> QED
    BY <2>1 DEF ToSet
<1>8. results'[q] = Append(<<>>, c)
  BY <1>2, <1>6, PromiseFacts, ResultAdded
<1> HIDE DEF g
<1> QED
  BY <1>1, <1>2, <1>4, <1>5, <1>6, <1>7, <1>8, RightCard, EndsRight

LEMMA ParseFailedFulfils ==
  ASSUME ServerHonest, PromiseInv, NEW q \in Query, ParseFailed(q)
  PROVE  Fulfils(query[q], results[q], query'[q], results'[q])
<1> DEFINE t == query[q].target
           outcome == ParseJson(query[q].data)
           g == Completed(Parsed(q), outcome)
<1>1. /\ query[q].state = "PARSE_RESULT" /\ query[q].state \in Unfinished
      /\ query[q].state \in Walking /\ Put(q, g) /\ UNCHANGED results
      /\ outcome # "OK" /\ (t.type = "SET" => outcome # "NOT_FOUND") /\ t \in Target
  BY PromiseFacts DEF ParseFailed, Visit, Unfinished, Walking
<1>2. outcome \in Result /\ (outcome = "NOT_FOUND" => CardsAt(query[q].url) = {})
  BY <1>1, ParsedIsThere
<1> HIDE DEF outcome
<1>3. /\ g \in QueryFields /\ g.result = outcome /\ g.target = t /\ g.state = "COMPLETED"
  <2>1. Parsed(q) \in QueryFields /\ Parsed(q).target = t
    BY PromiseFacts, ParsedFields
  <2> QED
    BY <1>2, <2>1, CompletedThinks
<1> HIDE DEF g
<1>4. CASE t.type = "SET"
  <2>1. Collected(query[q], results[q]) /\ results[q] \in Seq(Card)
    BY <1>1, <1>4, PromiseFacts DEF PromiseOK
  <2>2. Service!Right(t, AnswerOf(g, results[q]))
    BY <1>1, <1>3, <1>4, <2>1, RightWalk DEF Collected
  <2> QED
    BY <1>1, <1>3, <2>2, EndsRight
<1>5. CASE t.type # "SET"
  <2>1. results[q] = <<>> /\ (outcome = "NOT_FOUND" => Service!Wanted(t) = {})
    BY <1>1, <1>2, <1>5, UrlLeads
  <2> QED
    BY <1>1, <1>3, <1>5, <2>1, RightNothing, EndsRight
<1> QED
  BY <1>4, <1>5

LEMMA UpdateFulfils ==
  ASSUME ServerHonest, Enumerable, PromiseInv, NEW q \in Query, UpdateQuery(q)
  PROVE  Fulfils(query[q], results[q], query'[q], results'[q])
<1>1. ASSUME RemoveDeleted(q) PROVE Fulfils(query[q], results[q], query'[q], results'[q])
  <2>1. query[q].state = "DELETE" /\ query'[q] = FreeQuery /\ results'[q] = <<>>
    BY <1>1, PromiseFacts, PutOther DEF RemoveDeleted, Visit, ResultsTyped
  <2> QED
    BY <2>1 DEF Fulfils, PromiseOK, FreeQuery, Walking
<1>2. ASSUME UpdateHttpGetNoToken(q) \/ SkipCompleted(q)
      PROVE  Fulfils(query[q], results[q], query'[q], results'[q])
  BY <1>2, PromiseFacts DEF UpdateHttpGetNoToken, SkipCompleted, Fulfils
<1> QED
  BY <1>1, <1>2, InitCardmarketIdFulfils, InitCardKeyFulfils, InitSetFulfils, GetNextFulfils,
     KnownBadFulfils, HttpGetFulfils, WaitingFulfils, ParseSetCardFulfils,
     ParseSetNotFoundFulfils, ParseCardFulfils, ParseFailedFulfils
     DEF UpdateQuery

LEMMA PromiseInit == Init => PromiseInv
<1> SUFFICES ASSUME Init PROVE PromiseInv
  OBVIOUS
<1>1. \A q \in Query : PromiseOK(query[q], results[q])
  BY DEF Init, PromiseOK, FreeQuery, Walking
<1> QED
  BY <1>1, LiveInit, WalkInit DEF PromiseInv

\* Steps of the application and of its surroundings, as a query sees them.
LEMMA OtherSteps ==
  ASSUME Disciplined, PromiseInv, [Next]_vars
  PROVE  \/ UNCHANGED <<query, results>>
         \/ Destroy
         \/ \E q \in Query : \E t \in Targets : CreateQuery(q, t)
         \/ \E q \in Query : DeleteQuery(q)
         \/ \E q \in Query : UpdateQuery(q)
  BY DEF Next, vars, CreateCache, Clear, Refill, BeginUpdate, Answer

LEMMA CreateFields ==
  ASSUME PromiseInv, NEW q \in Query, NEW t \in Targets, CreateQuery(q, t)
  PROVE  /\ query[q].state = "FREE" /\ query'[q].state = "INIT" /\ query'[q].target = t
         /\ \A p \in Query \ {q} : query'[p] = query[p]
         /\ UNCHANGED results /\ results[q] = <<>>
<1>1. /\ [FreeQuery EXCEPT !.state = "INIT", !.target = t].state = "INIT"
      /\ [FreeQuery EXCEPT !.state = "INIT", !.target = t].target = t
  BY DEF FreeQuery
<1>2. Put(q, [FreeQuery EXCEPT !.state = "INIT", !.target = t])
  BY DEF CreateQuery, Put
<1>3. query[q].state = "FREE" /\ UNCHANGED results
  BY DEF CreateQuery
<1> QED
  BY <1>1, <1>2, <1>3, PromiseFacts, PutOther DEF PromiseOK

LEMMA DeleteFields ==
  ASSUME PromiseInv, NEW q \in Query, DeleteQuery(q)
  PROVE  /\ query[q].state = "COMPLETED" /\ query'[q].state = "DELETE"
         /\ query'[q].target = query[q].target
         /\ \A p \in Query \ {q} : query'[p] = query[p]
         /\ UNCHANGED results
<1> DEFINE g == [query[q] EXCEPT !.state = "DELETE"]
<1>1. g.state = "DELETE" /\ g.target = query[q].target
  BY PromiseFacts DEF QueryFields
<1>2. Put(q, g) /\ query[q].state = "COMPLETED" /\ UNCHANGED results
  BY DEF DeleteQuery, Put
<1> HIDE DEF g
<1> QED
  BY <1>1, <1>2, PromiseFacts, PutOther

LEMMA PromiseStep ==
  ASSUME ServerHonest, Enumerable, Disciplined, PromiseInv, [Next]_vars
  PROVE  PromiseInv'
<1>1. LiveInv'
  BY LiveStep DEF PromiseInv
<1>2. WalkInv'
  BY AnswerStep, WalkStep DEF PromiseInv, WalkInv
<1>3. ASSUME NEW p \in Query PROVE PromiseOK(query'[p], results'[p])
  <2>0. PromiseOK(query[p], results[p])
    BY PromiseFacts
  <2>1. CASE Destroy
    BY <2>1 DEF Destroy, PromiseOK, FreeQuery, Walking
  <2>2. ASSUME NEW q \in Query, NEW t \in Targets, CreateQuery(q, t)
        PROVE  PromiseOK(query'[p], results'[p])
    BY <2>0, <2>2, CreateFields DEF PromiseOK, Walking
  <2>3. ASSUME NEW q \in Query, DeleteQuery(q)
        PROVE  PromiseOK(query'[p], results'[p])
    BY <2>0, <2>3, DeleteFields DEF PromiseOK, Walking
  <2>4. ASSUME NEW q \in Query, UpdateQuery(q)
        PROVE  PromiseOK(query'[p], results'[p])
    <3>1. CASE p = q
      BY <2>4, <3>1, UpdateFulfils DEF Fulfils
    <3>2. CASE p # q
      BY <2>0, <2>4, <3>2, PromiseFacts, UpdateOthers
    <3> QED
      BY <3>1, <3>2
  <2> QED
    BY <2>0, <2>1, <2>2, <2>3, <2>4, OtherSteps
<1> QED
  BY <1>1, <1>2, <1>3 DEF PromiseInv

-----------------------------------------------------------------------------
(* The refinement.  QueryService sees of a query its phase, what it asks for *)
(* and its answer.                                                           *)

PhaseOf(f) == IF f.state = "COMPLETED" THEN "answered"
              ELSE IF f.state \in Unfinished THEN "pending" ELSE "none"

LEMMA ServiceInit == Init => Service!Init
<1> SUFFICES ASSUME Init PROVE Service!Init
  OBVIOUS
<1>1. \A q \in Query : query[q].state = "FREE"
  BY DEF Init, FreeQuery
<1> QED
  BY <1>1 DEF Service!Init, Service!NoTarget, Service!NoAnswer, NoTarget, Answered, Promised,
         Unfinished

\* A step that leaves a query as QueryService sees it.
Unseen(f, r, g, s) ==
  /\ PhaseOf(g) = PhaseOf(f)
  /\ PhaseOf(f) # "none" => g.target = f.target
  /\ PhaseOf(f) = "answered" => g = f /\ s = r

LEMMA UnseenStep ==
  ASSUME \A q \in Query : Unseen(query[q], results[q], query'[q], results'[q])
  PROVE  UNCHANGED Service!vars
<1>1. ASSUME NEW q \in Query
      PROVE  /\ Answered(q)' = Answered(q) /\ Promised(q)' = Promised(q)
             /\ Promised(q) => query'[q].target = query[q].target
             /\ Answered(q) => query'[q] = query[q] /\ results'[q] = results[q]
  BY DEF Unseen, PhaseOf, Answered, Promised, Unfinished
<1> QED
  BY <1>1 DEF Service!vars

\* CreateQuery asks ...
LEMMA AskStep ==
  ASSUME NEW q \in Query, NEW t \in Targets,
         PhaseOf(query[q]) = "none", PhaseOf(query'[q]) = "pending", query'[q].target = t,
         \A p \in Query \ {q} : Unseen(query[p], results[p], query'[p], results'[p])
  PROVE  Service!Ask(q)
<1>1. /\ ~Answered(q) /\ ~Promised(q) /\ ~Answered(q)' /\ Promised(q)'
      /\ query'[q].target = t
  BY DEF PhaseOf, Answered, Promised, Unfinished
<1>2. ASSUME NEW p \in Query \ {q}
      PROVE  /\ Answered(p)' = Answered(p) /\ Promised(p)' = Promised(p)
             /\ Promised(p) => query'[p].target = query[p].target
             /\ Answered(p) => query'[p] = query[p] /\ results'[p] = results[p]
  BY DEF Unseen, PhaseOf, Answered, Promised, Unfinished
<1> QED
  BY <1>1, <1>2 DEF Service!Ask

\* ... the step that completes a query answers ...
LEMMA ServiceAnswerStep ==
  ASSUME NEW q \in Query,
         PhaseOf(query[q]) = "pending", PhaseOf(query'[q]) = "answered",
         query'[q].target = query[q].target,
         Service!Right(query'[q].target, AnswerOf(query'[q], results'[q])),
         \A p \in Query \ {q} : Unseen(query[p], results[p], query'[p], results'[p])
  PROVE  Service!Answer(q)
<1>1. /\ ~Answered(q) /\ Promised(q) /\ Answered(q)' /\ Promised(q)'
      /\ query'[q].target = query[q].target
  BY DEF PhaseOf, Answered, Promised, Unfinished
<1>2. ASSUME NEW p \in Query \ {q}
      PROVE  /\ Answered(p)' = Answered(p) /\ Promised(p)' = Promised(p)
             /\ Promised(p) => query'[p].target = query[p].target
             /\ Answered(p) => query'[p] = query[p] /\ results'[p] = results[p]
  BY DEF Unseen, PhaseOf, Answered, Promised, Unfinished
<1>3. Service!Right(query[q].target,
        [code |-> query'[q].result, keys |-> [i \in DOMAIN results'[q] |-> results'[q][i].key]])
  BY <1>1 DEF AnswerOf
<1> QED
  BY <1>1, <1>2, <1>3 DEF Service!Answer

\* ... and DeleteQuery lets go.
LEMMA ReleaseStep ==
  ASSUME NEW q \in Query,
         PhaseOf(query[q]) = "answered", PhaseOf(query'[q]) = "none",
         \A p \in Query \ {q} : Unseen(query[p], results[p], query'[p], results'[p])
  PROVE  Service!Release(q)
<1>1. Answered(q) /\ Promised(q) /\ ~Answered(q)' /\ ~Promised(q)'
  BY DEF PhaseOf, Answered, Promised, Unfinished
<1>2. ASSUME NEW p \in Query \ {q}
      PROVE  /\ Answered(p)' = Answered(p) /\ Promised(p)' = Promised(p)
             /\ Promised(p) => query'[p].target = query[p].target
             /\ Answered(p) => query'[p] = query[p] /\ results'[p] = results[p]
  BY DEF Unseen, PhaseOf, Answered, Promised, Unfinished
<1> QED
  BY <1>1, <1>2 DEF Service!Release, Service!NoTarget, Service!NoAnswer, NoTarget

LEMMA ReleaseAllStep ==
  ASSUME \A q \in Query : PhaseOf(query[q]) # "pending" /\ PhaseOf(query'[q]) = "none"
  PROVE  Service!ReleaseAll
<1>1. \A q \in Query : (Promised(q) => Answered(q)) /\ ~Answered(q)' /\ ~Promised(q)'
  BY DEF PhaseOf, Answered, Promised, Unfinished
<1> QED
  BY <1>1 DEF Service!ReleaseAll, Service!NoTarget, Service!NoAnswer, NoTarget

LEMMA ServiceStep ==
  ASSUME ServerHonest, Enumerable, Disciplined, PromiseInv, [Next]_vars
  PROVE  [Service!Next]_(Service!vars)
<1> USE DEF PhaseOf
<1>1. CASE UNCHANGED <<query, results>>
  <2>1. \A q \in Query : Unseen(query[q], results[q], query'[q], results'[q])
    BY <1>1 DEF Unseen
  <2> QED
    BY <2>1, UnseenStep
<1>2. CASE Destroy
  <2>1. \A q \in Query : query[q].state \notin Unfinished /\ query'[q].state = "FREE"
    BY <1>2 DEF Destroy, MayDestroy, FreeQuery
  <2>2. \A q \in Query : PhaseOf(query[q]) # "pending" /\ PhaseOf(query'[q]) = "none"
    BY <2>1 DEF Unfinished
  <2> QED
    BY <2>2, ReleaseAllStep DEF Service!Next
<1>3. ASSUME NEW q \in Query, NEW t \in Targets, CreateQuery(q, t)
      PROVE  Service!Next
  <2>1. \A p \in Query \ {q} : Unseen(query[p], results[p], query'[p], results'[p])
    BY <1>3, CreateFields DEF Unseen
  <2>2. PhaseOf(query[q]) = "none" /\ PhaseOf(query'[q]) = "pending" /\ query'[q].target = t
    BY <1>3, CreateFields DEF Unfinished
  <2> QED
    BY <2>1, <2>2, AskStep DEF Service!Next
<1>4. ASSUME NEW q \in Query, DeleteQuery(q)
      PROVE  Service!Next
  <2>1. \A p \in Query \ {q} : Unseen(query[p], results[p], query'[p], results'[p])
    BY <1>4, DeleteFields DEF Unseen
  <2>2. PhaseOf(query[q]) = "answered" /\ PhaseOf(query'[q]) = "none"
    BY <1>4, DeleteFields DEF Unfinished
  <2> QED
    BY <2>1, <2>2, ReleaseStep DEF Service!Next
<1>5. ASSUME NEW q \in Query, UpdateQuery(q)
      PROVE  [Service!Next]_(Service!vars)
  <2>1. \A p \in Query \ {q} : Unseen(query[p], results[p], query'[p], results'[p])
    BY <1>5, PromiseFacts, UpdateOthers DEF Unseen
  <2> DEFINE f == query[q]
             g == query'[q]
  <2>2. CASE /\ f.state \in Unfinished /\ g.state = "COMPLETED" /\ g.target = f.target
             /\ Service!Right(g.target, AnswerOf(g, results'[q]))
    <3>1. PhaseOf(f) = "pending" /\ PhaseOf(g) = "answered"
      BY <2>2 DEF Unfinished
    <3> QED
      BY <2>1, <2>2, <3>1, ServiceAnswerStep DEF Service!Next
  <2>3. CASE \/ f.state \in Unfinished /\ g.state \in Unfinished /\ g.target = f.target
             \/ f.state = "DELETE" /\ g.state = "FREE"
             \/ g = f /\ results'[q] = results[q]
    <3>1. Unseen(f, results[q], g, results'[q])
      BY <2>3 DEF Unseen, Unfinished
    <3>2. \A p \in Query : Unseen(query[p], results[p], query'[p], results'[p])
      BY <2>1, <3>1
    <3> QED
      BY <3>2, UnseenStep
  <2> QED
    BY <1>5, <2>2, <2>3, UpdateFulfils DEF Fulfils
<1> QED
  BY <1>1, <1>2, <1>3, <1>4, <1>5, OtherSteps

\* The cache implements QueryService, for any number of queries and any catalog
\* the walk can enumerate: every query is answered at most once, its answer
\* stays, and it is right about Scryfall's catalog, whatever the network loses
\* and however queries for the same cards interleave.
THEOREM CacheKeepsPromise ==
  ASSUME ServerHonest, Enumerable, Disciplined
  PROVE  Spec => KeepsPromise
<1>1. Init => PromiseInv /\ Service!Init
  BY PromiseInit, ServiceInit
<1>2. PromiseInv /\ [Next]_vars => PromiseInv'
  BY PromiseStep
<1>3. PromiseInv /\ [Next]_vars => [Service!Next]_(Service!vars)
  BY ServiceStep
<1> QED
  BY <1>1, <1>2, <1>3, PTL DEF Spec, KeepsPromise, Service!Spec

-----------------------------------------------------------------------------
(* Versions.  This needs neither an honest server nor a disciplined          *)
(* application.                                                              *)

Served(f, r) ==
  f.state = "COMPLETED" /\ f.result = "OK" /\ f.target.type = "CARD_KEY"
    => Last(r).key.ver = f.target.key.ver

VersionInv == StoreInv /\ ResultsTyped /\ \A q \in Query : Served(query[q], results[q])

LEMMA VersionFacts ==
  ASSUME VersionInv, NEW q \in Query
  PROVE  /\ StoreTypeOK /\ GetNextOnSets /\ StoreCoherent /\ ResultsTyped
         /\ query[q] \in QueryFields /\ query[q].data \in Body
         /\ results[q] \in Seq(Card) /\ Served(query[q], results[q])
  BY DEF VersionInv, StoreInv, AnswerInv, StoreTypeOK, ResultsTyped, QueryFields

LEMMA ResultsTypedStep ==
  ASSUME VersionInv, [Next]_vars
  PROVE  ResultsTyped'
<1>0. /\ StoreTypeOK /\ GetNextOnSets /\ StoreCoherent /\ StoreInv' /\ cards \in Seq(Card)
      /\ ResultsTyped
  BY StoreStep DEF VersionInv, StoreInv, AnswerInv, StoreTypeOK
<1>1. <<>> \in Seq(Card)
  OBVIOUS
<1>2. ToSet(cards') \subseteq Card
  <2>1. cards' \in Seq(Card)
    BY <1>0 DEF StoreInv, AnswerInv, StoreTypeOK
  <2> QED
    BY <2>1 DEF ToSet
<1>3. ASSUME NEW q \in Query, UpdateQuery(q)
      PROVE  ResultsTyped'
  <2>1. ASSUME NEW c \in ToSet(cards'), AddResult(q, c) PROVE ResultsTyped'
    <3>1. Append(results[q], c) \in Seq(Card)
      BY <1>0, <1>2, <2>1, AppendProperties DEF ResultsTyped
    <3> QED
      BY <1>0, <2>1, <3>1 DEF AddResult, ResultsTyped
  <2>2. ASSUME NEW s, results' = [results EXCEPT ![q] = CardsOfSet(s)] PROVE ResultsTyped'
    <3>1. CardsOfSet(s) \in Seq(Card)
      BY <1>0, CardsOfSetRight DEF StoreCoherent, Distinct
    <3> QED
      BY <1>0, <2>2, <3>1 DEF ResultsTyped
  <2> QED
    BY <1>0, <1>1, <1>3, <2>1, <2>2, ResultSteps DEF ResultsTyped
<1> QED
  BY <1>0, <1>1, <1>3
     DEF Next, vars, CreateCache, Clear, Destroy, Refill, BeginUpdate, CreateQuery,
         DeleteQuery, Answer, ResultsTyped

\* A query is completed well with the card it was asked for, or one of the
\* version it was asked for.
LEMMA ServedUpdate ==
  ASSUME VersionInv, NEW q \in Query, UpdateQuery(q)
  PROVE  Served(query'[q], results'[q])
<1> DEFINE f == query[q]
           t == f.target
<1>0. /\ f \in QueryFields /\ f.data \in Body /\ results[q] \in Seq(Card)
      /\ StoreTypeOK /\ GetNextOnSets /\ ResultsTyped /\ Served(f, results[q])
      /\ Parsed(q) \in QueryFields /\ Parsed(q).target = t
  BY VersionFacts, ParsedFields
<1>1. ASSUME NEW r, Put(q, r), r.state # "COMPLETED" \/ r.result # "OK"
               \/ r.target.type # "CARD_KEY"
      PROVE  Served(query'[q], results'[q])
  BY <1>0, <1>1, PutOther DEF Served
<1>2. ASSUME NEW r, Put(q, r), r.target = t, NEW c \in Card, AddResult(q, c),
             t.type = "CARD_KEY" => c.key.ver = t.key.ver
      PROVE  Served(query'[q], results'[q])
  <2>1. Last(results'[q]) = c
    BY <1>0, <1>2, ResultAdded, AppendProperties DEF Last
  <2> QED
    BY <1>0, <1>2, <2>1, PutOther DEF Served
<1>3. ASSUME NEW g \in {f, Parsed(q)}, NEW c \in Result
      PROVE  Completed(g, c).result = c /\ Completed(g, c).target = t
  BY <1>0, <1>3, CompletedThinks
<1>4. ASSUME NEW g \in {f, Parsed(q)}, NEW u PROVE Fetching(g, u).state # "COMPLETED"
  BY <1>0, <1>4, FetchingFields
<1>5. ASSUME NEW g \in {f, Parsed(q)}, SetCardNotFound(q, g), t.type = "SET"
      PROVE  Served(query'[q], results'[q])
  BY <1>0, <1>1, <1>5, NotFoundThinks
<1>6. CASE UpdateInitCardmarketId(q) \/ UpdateInitSet(q)
  <2>1. [f EXCEPT !.state = "GET_NEXT_IN_SET", !.num = 1, !.ver = 0].state # "COMPLETED"
    BY <1>0 DEF QueryFields
  <2>2. t.type # "CARD_KEY"
    BY <1>6 DEF UpdateInitCardmarketId, UpdateInitSet
  <2> QED
    BY <1>1, <1>3, <1>4, <1>6, <2>1, <2>2 DEF UpdateInitCardmarketId, UpdateInitSet, Result
<1>7. CASE UpdateInitCardKey(q)
  <2>1. CASE Cached(t.key) /\ AddResult(q, CardOf(t.key)) /\ Put(q, Completed(f, "OK"))
    <3>1. CardOf(t.key) \in Card /\ CardOf(t.key).key = t.key
      BY <1>0, <2>1, CardOfTyped DEF StoreTypeOK
    <3> QED
      BY <1>2, <1>3, <2>1, <3>1 DEF Result
  <2>2. CASE Put(q, Completed(f, "INVALID_COLLECTOR_NUMBER"))
    BY <1>1, <1>3, <2>2 DEF Result
  <2>3. CASE Put(q, Fetching(f, KeyUrl(t.key)))
    BY <1>1, <1>4, <2>3
  <2> QED
    BY <1>7, <2>1, <2>2, <2>3 DEF UpdateInitCardKey
<1>8. CASE UpdateGetNextInSet(q)
  <2>1. f.state = "GET_NEXT_IN_SET" /\ PastFound(f).state = "GET_NEXT_IN_SET"
    BY <1>0, <1>8, WalkThinks DEF UpdateGetNextInSet, Visit
  <2> QED
    BY <1>1, <1>4, <1>8, <2>1 DEF UpdateGetNextInSet
<1>9. CASE UpdateHttpGetKnownBad(q)
  BY <1>1, <1>3, <1>5, <1>9 DEF UpdateHttpGetKnownBad, KnownBad, Result
<1>10. CASE UpdateHttpGet(q)
  <2>1. [f EXCEPT !.state = "WAITING"].state = "WAITING"
    BY <1>0 DEF QueryFields
  <2> QED
    BY <1>1, <1>10, <2>1 DEF UpdateHttpGet
<1>11. CASE UpdateWaiting(q)
  <2> DEFINE g == [f EXCEPT !.state = "PARSE_RESULT", !.data = client[q].body,
                     !.result = IF client[q].body = NoBody THEN "HTTP_GET_FAILED" ELSE "OK"]
  <2>1. g.state = "PARSE_RESULT"
    BY <1>0 DEF QueryFields
  <2>2. UNCHANGED results /\ (UNCHANGED query \/ Put(q, g))
    BY <1>11 DEF UpdateWaiting
  <2> HIDE DEF g
  <2> QED
    BY <1>0, <1>1, <2>1, <2>2
<1>12. CASE ParseSetCard(q)
  <2>1. [PastFound(Parsed(q)) EXCEPT !.state = "GET_NEXT_IN_SET"].state = "GET_NEXT_IN_SET"
    BY <1>0, WalkThinks
  <2> QED
    BY <1>1, <1>12, <2>1 DEF ParseSetCard
<1>13. CASE ParseSetNotFound(q)
  BY <1>5, <1>13 DEF ParseSetNotFound
<1>14. CASE ParseCard(q)
  <2>1. KeepCard(q, f.data.key) /\ ParseJson(f.data) = "OK"
    BY <1>14 DEF ParseCard
  <2>2. f.data.key \in Key
    BY <1>0, <2>1, ParseJsonTyped
  <2>3. PICK c \in ToSet(cards') : AddResult(q, c) /\ c.key = f.data.key
    BY <1>0, <2>1, <2>2, KeepCardResult
  <2>4. c \in Card
    <3>1. cards' \in Seq(Card)
      BY <1>0, <2>1, <2>2, KeepCardTyped DEF StoreTypeOK
    <3> QED
      BY <3>1 DEF ToSet
  <2>5. CASE ~OtherVersion(t, f.data.key) /\ Put(q, Completed(Parsed(q), "OK"))
    BY <1>2, <1>3, <2>3, <2>4, <2>5 DEF OtherVersion, Result
  <2>6. CASE Put(q, Completed(Parsed(q), "REQUEST_NEEDS_VERSION"))
    BY <1>1, <1>3, <2>6 DEF Result
  <2>7. ASSUME NEW u, Put(q, Fetching(Parsed(q), u)) PROVE Served(query'[q], results'[q])
    BY <1>1, <1>4, <2>7
  <2> QED
    BY <1>14, <2>5, <2>6, <2>7 DEF ParseCard
<1>15. CASE ParseFailed(q)
  <2>1. ParseJson(f.data) \in Result /\ ParseJson(f.data) # "OK"
    BY <1>0, <1>15, ParseJsonTyped DEF ParseFailed
  <2> QED
    BY <1>1, <1>3, <1>15, <2>1 DEF ParseFailed
<1>16. CASE RemoveDeleted(q)
  BY <1>1, <1>16 DEF RemoveDeleted, FreeQuery
<1>17. CASE UpdateHttpGetNoToken(q) \/ SkipCompleted(q)
  BY <1>0, <1>17 DEF UpdateHttpGetNoToken, SkipCompleted
<1> QED
  BY <1>6, <1>7, <1>8, <1>9, <1>10, <1>11, <1>12, <1>13, <1>14, <1>15, <1>16, <1>17
     DEF UpdateQuery

LEMMA VersionStep == VersionInv /\ [Next]_vars => VersionInv'
<1> SUFFICES ASSUME VersionInv, [Next]_vars PROVE VersionInv'
  OBVIOUS
<1>1. StoreInv' /\ ResultsTyped'
  BY StoreStep, ResultsTypedStep DEF VersionInv
<1>2. ASSUME NEW p \in Query PROVE Served(query'[p], results'[p])
  <2>0. Served(query[p], results[p])
    BY VersionFacts
  <2>1. ASSUME NEW q \in Query, UpdateQuery(q) PROVE Served(query'[p], results'[p])
    <3>1. CASE p = q
      BY <2>1, <3>1, ServedUpdate
    <3>2. CASE p # q
      BY <2>0, <2>1, <3>2, VersionFacts, UpdateOthers
    <3> QED
      BY <3>1, <3>2
  <2>2. CASE Destroy
    BY <2>2 DEF Destroy, FreeQuery, Served
  <2>3. ASSUME NEW q \in Query, NEW t \in Targets, CreateQuery(q, t)
        PROVE  Served(query'[p], results'[p])
    <3>1. [FreeQuery EXCEPT !.state = "INIT", !.target = t].state = "INIT"
      BY DEF FreeQuery
    <3>2. Put(q, [FreeQuery EXCEPT !.state = "INIT", !.target = t]) /\ UNCHANGED results
      BY <2>3 DEF CreateQuery, Put
    <3> QED
      BY <2>0, <3>1, <3>2, VersionFacts, PutOther DEF Served
  <2>4. ASSUME NEW q \in Query, DeleteQuery(q)
        PROVE  Served(query'[p], results'[p])
    <3>1. [query[q] EXCEPT !.state = "DELETE"].state = "DELETE"
      BY VersionFacts DEF QueryFields
    <3>2. Put(q, [query[q] EXCEPT !.state = "DELETE"]) /\ UNCHANGED results
      BY <2>4 DEF DeleteQuery, Put
    <3> QED
      BY <2>0, <3>1, <3>2, VersionFacts, PutOther DEF Served
  <2> QED
    BY <2>0, <2>1, <2>2, <2>3, <2>4
       DEF Next, vars, CreateCache, Clear, Refill, BeginUpdate, Answer
<1> QED
  BY <1>1, <1>2 DEF VersionInv

\* A key query that ends well ends with a card of the version it asked for,
\* whatever the server answers it with and whatever the application does.
THEOREM VersionsAreServed == Spec => []VersionServed
<1>1. Init => VersionInv
  <2> SUFFICES ASSUME Init PROVE VersionInv
    OBVIOUS
  <2>1. ResultsTyped /\ \A q \in Query : Served(query[q], results[q])
    BY NoKeys DEF Init, ResultsTyped, Served, FreeQuery
  <2> QED
    BY <2>1, StoreInit DEF VersionInv
<1>2. VersionInv /\ [Next]_vars => VersionInv'
  BY VersionStep
<1>3. VersionInv => VersionServed
  BY DEF VersionInv, VersionServed, Served
<1> QED
  BY <1>1, <1>2, <1>3, PTL DEF Spec
=============================================================================
