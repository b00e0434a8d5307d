------------------------------ MODULE SfcCache ------------------------------
(***************************************************************************)
(* The cache of scryfallcache (sfc_cache.c), its queries (sfc_query.c) and *)
(* the life of their HTTP requests (sfc_curl.c), used from one thread.     *)
(*                                                                         *)
(* The application calls create, query, delete, clear, destroy and update. *)
(* One sfc_cache_update is a pass: BeginUpdate updates the HTTP context    *)
(* and puts the query list into todo; the steps UpdateXxx then run one     *)
(* handler each, for the queries of todo in list order, and the            *)
(* application is called again when todo is empty.  The clock (Refill) and *)
(* the network (Answer) act in between.                                    *)
(***************************************************************************)
EXTENDS Scryfall, Sequences, FiniteSets, SequencesExt

CONSTANTS
  Query,        \* query objects that may exist at once
  Targets,      \* what the application may ask for
  BucketSize,   \* max_http_requests_per_second, size and rate of the bucket
  NetworkFails, \* whether a transfer may fail or bring garbage
  Disciplined   \* whether the application clears only with no query left
                \* and destroys only with every query completed, as test.c does

ASSUME BucketAssumption == BucketSize \in Nat
ASSUME FlagsAssumption  == NetworkFails \in BOOLEAN /\ Disciplined \in BOOLEAN

VARIABLES
  alive,      \* the sfc_cache object exists
  query,      \* the fields of each sfc_query
  results,    \* query->results, the array of card pointers of each query
  queryList,  \* first_query .. last_query
  todo,       \* queries the current sfc_cache_update has still to visit
  client,     \* the HTTP request of each query in the HTTP context
  cards,      \* the card objects, first_card .. last_card and card_set
  idMap,      \* cardmarket_id_map
  fullSets,   \* full_sets
  badUrls,    \* bad_urls
  tokens      \* http_request_rate_limiter->tokens

vars == <<alive, query, results, queryList, todo, client, cards, idMap,
          fullSets, badUrls, tokens>>

store == <<cards, idMap, fullSets>>

-----------------------------------------------------------------------------
(* State. *)

IdTarget(i)  == [type |-> "CARDMARKET_ID", id |-> i]
KeyTarget(k) == [type |-> "CARD_KEY", key |-> k]
SetTarget(s) == [type |-> "SET", set |-> s]
NoTarget     == [type |-> "NONE"]

Target == [type: {"CARDMARKET_ID"}, id: Ids] \cup [type: {"CARD_KEY"}, key: Key]
            \cup [type: {"SET"}, set: Sets]

ASSUME TargetsAssumption == Targets \subseteq Target

\* A card object: its key and the query whose parse created it, which tells
\* apart two objects with one key.
Card   == [key: Key, by: Query]
NoCard == [key |-> NoUrl]

QueryState == {"FREE", "INIT", "GET_NEXT_IN_SET", "HTTP_GET", "WAITING",
               "PARSE_RESULT", "COMPLETED", "DELETE"}
Unfinished == {"INIT", "GET_NEXT_IN_SET", "HTTP_GET", "WAITING", "PARSE_RESULT"}

Result == {"OK", "NOT_FOUND", "JSON_PARSE_ERROR", "JSON_RESPONSE_ERROR",
           "HTTP_GET_FAILED", "REQUEST_NEEDS_VERSION", "INVALID_COLLECTOR_NUMBER"}

QueryFields == [state: QueryState, target: Target \cup {NoTarget}, result: Result,
                num: Nat, ver: Nat, url: Url \cup {NoUrl}, data: Body]

FreeQuery == [state |-> "FREE", target |-> NoTarget, result |-> "OK",
              num |-> 0, ver |-> 0, url |-> NoUrl, data |-> NoBody]

\* A request is active from http_get on, answered once the transfer is over,
\* completed when sfc_curl_update has seen that, and doomed
\* (should_be_deleted) when sfc_curl_poll has handed over its data.
NoRequest == [st |-> "none", url |-> NoUrl, body |-> NoBody]
Request   == [st: {"none", "active", "answered", "completed", "doomed"},
              url: Url \cup {NoUrl}, body: Body]

Cached(k)  == \E c \in ToSet(cards) : c.key = k
CardOf(k)  == CHOOSE c \in ToSet(cards) : c.key = k
NextKey(q) == PlainKey(query[q].target.set, query[q].num, query[q].ver)

-----------------------------------------------------------------------------
(* Application calls. *)

Init ==
  /\ alive     = FALSE
  /\ query     = [q \in Query |-> FreeQuery]
  /\ results   = [q \in Query |-> <<>>]
  /\ queryList = <<>>
  /\ todo      = <<>>
  /\ client    = [q \in Query |-> NoRequest]
  /\ cards     = <<>>
  /\ idMap     = [i \in Ids |-> NoCard]
  /\ fullSets  = {}
  /\ badUrls   = {}
  /\ tokens    = 0

CreateCache ==
  /\ ~alive
  /\ alive' = TRUE
  /\ UNCHANGED <<query, results, queryList, todo, client, store, badUrls, tokens>>

\* The application runs only between two passes.
AppCall == alive /\ todo = <<>>

\* sfc_cache_create_query links the new query in at the end of the list.
\* (Mutant: at the front.)
LinkFront(q) == queryList' = <<q>> \o queryList
Link(q)      == queryList' = Append(queryList, q)

CreateQuery(q, t) ==
  /\ AppCall
  /\ query[q].state = "FREE"
  /\ query' = [query EXCEPT ![q] = [FreeQuery EXCEPT !.state = "INIT", !.target = t]]
  /\ Link(q)
  /\ UNCHANGED <<alive, results, todo, client, store, badUrls, tokens>>

DeleteQuery(q) ==
  /\ AppCall
  /\ query[q].state = "COMPLETED"
  /\ query' = [query EXCEPT ![q].state = "DELETE"]
  /\ UNCHANGED <<alive, results, queryList, todo, client, store, badUrls, tokens>>

\* (Mutant: the cardmarket map survives.)
EmptyStoreKeepMap == cards' = <<>> /\ fullSets' = {} /\ UNCHANGED idMap
EmptyStore ==
  /\ cards'    = <<>>
  /\ idMap'    = [i \in Ids |-> NoCard]
  /\ fullSets' = {}

Clear ==
  /\ AppCall
  /\ Disciplined => \A q \in Query : query[q].state = "FREE"
  /\ EmptyStore
  /\ UNCHANGED <<alive, query, results, queryList, todo, client, badUrls, tokens>>

MayDestroy ==
  AppCall /\ (Disciplined => \A q \in Query : query[q].state \notin Unfinished)

Destroy ==
  /\ MayDestroy
  /\ EmptyStore
  /\ alive'     = FALSE
  /\ query'     = [q \in Query |-> FreeQuery]
  /\ results'   = [q \in Query |-> <<>>]
  /\ queryList' = <<>>
  /\ client'    = [q \in Query |-> NoRequest]
  /\ badUrls'   = {}
  /\ tokens'    = 0
  /\ UNCHANGED todo

-----------------------------------------------------------------------------
(* Clock and network. *)

\* The clock has advanced far enough for the next acquire_token to find more
\* tokens, at most a full bucket.
\* (Mutant: the cap at the bucket's size is missing.)
RefilledUncapped == (tokens + 1)..(tokens + BucketSize)
Refilled         == (tokens + 1)..BucketSize

Refill ==
  /\ alive
  /\ tokens' \in Refilled
  /\ UNCHANGED <<alive, query, results, queryList, todo, client, store, badUrls>>

\* A transfer ends; curl notices in its next update.
Answer(q) ==
  /\ client[q].st = "active"
  /\ \E b \in ServerBodies(client[q].url)
                \cup (IF NetworkFails THEN {GarbageBody, NoBody} ELSE {}) :
       client' = [client EXCEPT ![q].st = "answered", ![q].body = b]
  /\ UNCHANGED <<alive, query, results, queryList, todo, store, badUrls, tokens>>

-----------------------------------------------------------------------------
(* sfc_cache_update. *)

\* sfc_curl_update: a doomed request is destroyed, an answered one completed.
\* (Mutant: the clean-up loop is missing.)
UpdatedRequestNoCleanUp(r) ==
  IF r.st = "answered" THEN [r EXCEPT !.st = "completed"] ELSE r

UpdatedRequest(r) ==
  CASE r.st = "doomed"   -> NoRequest
    [] r.st = "answered" -> [r EXCEPT !.st = "completed"]
    [] OTHER             -> r

\* When curl itself fails the call returns at once, which changes nothing.
BeginUpdate ==
  /\ AppCall
  /\ client' = [q \in Query |-> UpdatedRequest(client[q])]
  /\ todo'   = queryList
  /\ UNCHANGED <<alive, query, results, queryList, store, badUrls, tokens>>

\* The pass is at query q, whose state is s.
Visit(q, s) ==
  /\ todo # <<>>
  /\ q = Head(todo)
  /\ query[q].state = s
  /\ todo' = Tail(todo)
  /\ UNCHANGED alive

Put(q, r)       == query' = [query EXCEPT ![q] = r]
Completed(r, c) == [r EXCEPT !.state = "COMPLETED", !.result = c]
Fetching(r, u)  == [r EXCEPT !.state = "HTTP_GET", !.url = u]
AddResult(q, c) == results' = [results EXCEPT ![q] = Append(@, c)]

UpdateInitCardmarketId(q) ==
  /\ Visit(q, "INIT")
  /\ query[q].target.type = "CARDMARKET_ID"
  /\ LET id   == query[q].target.id
         card == idMap[id]
     IN  \/ /\ card # NoCard
            /\ AddResult(q, card)
            /\ Put(q, Completed(query[q], "OK"))
         \/ /\ card = NoCard
            /\ Put(q, Fetching(query[q], IdUrl(id)))
            /\ UNCHANGED results
  /\ UNCHANGED <<queryList, client, store, badUrls, tokens>>

UpdateInitCardKey(q) ==
  /\ Visit(q, "INIT")
  /\ query[q].target.type = "CARD_KEY"
  /\ LET key == query[q].target.key
     IN  \/ /\ Cached(key)
            /\ AddResult(q, CardOf(key))
            /\ Put(q, Completed(query[q], "OK"))
         \/ /\ ~Cached(key) /\ ~Printable(key)
            /\ Put(q, Completed(query[q], "INVALID_COLLECTOR_NUMBER"))
            /\ UNCHANGED results
         \/ /\ ~Cached(key) /\ Printable(key)
            /\ Put(q, Fetching(query[q], KeyUrl(key)))
            /\ UNCHANGED results
  /\ UNCHANGED <<queryList, client, store, badUrls, tokens>>

\* The cards of a set, as the loop over the card list finds them.
CardsOfSet(set) ==
  LET found[i \in 0..Len(cards)] ==
        IF i = 0 THEN <<>>
        ELSE IF cards[i].key.set = set THEN Append(found[i - 1], cards[i])
                                       ELSE found[i - 1]
  IN  found[Len(cards)]

UpdateInitSet(q) ==
  /\ Visit(q, "INIT")
  /\ query[q].target.type = "SET"
  /\ LET set == query[q].target.set
     IN  \/ /\ set \in fullSets
            /\ results' = [results EXCEPT ![q] = CardsOfSet(set)]
            /\ Put(q, Completed(query[q], "OK"))
         \/ /\ set \notin fullSets
            /\ Put(q, [query[q] EXCEPT !.state = "GET_NEXT_IN_SET", !.num = 1, !.ver = 0])
            /\ UNCHANGED results
  /\ UNCHANGED <<queryList, client, store, badUrls, tokens>>

\* The walk's position after a card was found at it, and after none was.
PastFound(r) ==
  IF r.ver > 0 THEN [r EXCEPT !.ver = @ + 1] ELSE [r EXCEPT !.num = @ + 1]

PastNotFound(r) ==
  IF r.ver > 0 THEN [r EXCEPT !.ver = 0, !.num = @ + 1] ELSE [r EXCEPT !.ver = 1]

UpdateGetNextInSet(q) ==
  /\ Visit(q, "GET_NEXT_IN_SET")
  /\ \/ /\ Cached(NextKey(q))
        /\ AddResult(q, CardOf(NextKey(q)))
        /\ Put(q, PastFound(query[q]))
     \/ /\ ~Cached(NextKey(q))
        /\ Put(q, Fetching(query[q], KeyUrl(NextKey(q))))
        /\ UNCHANGED results
  /\ UNCHANGED <<queryList, client, store, badUrls, tokens>>

\* sfc_query_handle_set_card_not_found, on the fields r of query q: neither
\* "12" nor "12a" exists, or the walk goes on.
\* (Mutant: any version that does not exist ends the walk.)
SetCardNotFoundEndsWalk(q, r) ==
  IF r.ver > 0 THEN Put(q, Completed(r, "OK")) /\ fullSets' = fullSets \cup {r.target.set}
               ELSE Put(q, [PastNotFound(r) EXCEPT !.state = "GET_NEXT_IN_SET"]) /\ UNCHANGED fullSets

SetCardNotFound(q, r) ==
  \/ /\ r.ver = 1
     /\ Put(q, Completed(r, "OK"))
     /\ fullSets' = fullSets \cup {r.target.set}
  \/ /\ r.ver # 1
     /\ Put(q, [PastNotFound(r) EXCEPT !.state = "GET_NEXT_IN_SET"])
     /\ UNCHANGED fullSets

\* (Mutant: a known bad URL ends a set query too.)
KnownBadEnds(q) == Put(q, Completed(query[q], "NOT_FOUND")) /\ UNCHANGED fullSets
KnownBad(q) ==
  \/ query[q].target.type = "SET" /\ SetCardNotFound(q, query[q])
  \/ /\ query[q].target.type # "SET"
     /\ Put(q, Completed(query[q], "NOT_FOUND"))
     /\ UNCHANGED fullSets

UpdateHttpGetKnownBad(q) ==
  /\ Visit(q, "HTTP_GET")
  /\ query[q].url \in badUrls
  /\ KnownBad(q)
  /\ UNCHANGED <<results, queryList, client, cards, idMap, badUrls, tokens>>

UpdateHttpGetNoToken(q) ==
  /\ Visit(q, "HTTP_GET")
  /\ query[q].url \notin badUrls
  /\ tokens = 0
  /\ UNCHANGED <<query, results, queryList, client, store, badUrls, tokens>>

UpdateHttpGet(q) ==
  /\ Visit(q, "HTTP_GET")
  /\ query[q].url \notin badUrls
  /\ tokens > 0
  /\ tokens' = tokens - 1
  /\ client' = [client EXCEPT ![q] = [st |-> "active", url |-> query[q].url, body |-> NoBody]]
  /\ Put(q, [query[q] EXCEPT !.state = "WAITING"])
  /\ UNCHANGED <<results, queryList, store, badUrls>>

\* sfc_curl_poll on a completed request hands over its data and dooms it.
\* (Mutant: should_be_deleted is not set.)
PolledStays(r) == [r EXCEPT !.body = NoBody]
Polled(r)      == [r EXCEPT !.st = "doomed", !.body = NoBody]

UpdateWaiting(q) ==
  /\ Visit(q, "WAITING")
  /\ \/ client[q].st # "completed" /\ UNCHANGED <<query, client>>
     \/ /\ client[q].st = "completed"
        /\ Put(q, [query[q] EXCEPT !.state = "PARSE_RESULT", !.data = client[q].body,
                     !.result = IF client[q].body = NoBody THEN "HTTP_GET_FAILED" ELSE "OK"])
        /\ client' = [client EXCEPT ![q] = Polled(client[q])]
  /\ UNCHANGED <<results, queryList, store, badUrls, tokens>>

\* sfc_cache_add_card.
AddCard(card) ==
  /\ cards' = Append(cards, card)
  /\ idMap' = [i \in Ids |-> IF i = IdOf(card.key) THEN card ELSE idMap[i]]

\* The parsed card of query q becomes a result: the cached object with its key
\* if another query was faster, and then the new object is destroyed.
\* (Mutants: the cache is not asked; the destroyed object becomes the result.)
KeepCardUnasked(q, key) ==
  AddCard([key |-> key, by |-> q]) /\ AddResult(q, [key |-> key, by |-> q])
KeepCardDestroyed(q, key) ==
  /\ AddResult(q, [key |-> key, by |-> q])
  /\ IF Cached(key) THEN UNCHANGED <<cards, idMap>> ELSE AddCard([key |-> key, by |-> q])

KeepCard(q, key) ==
  \/ /\ Cached(key)
     /\ AddResult(q, CardOf(key))
     /\ UNCHANGED <<cards, idMap>>
  \/ /\ ~Cached(key)
     /\ AddCard([key |-> key, by |-> q])
     /\ AddResult(q, [key |-> key, by |-> q])

\* The fields of q with the response taken out of them.
Parsed(q) == [query[q] EXCEPT !.data = NoBody]

ParseSetCard(q) ==
  /\ Visit(q, "PARSE_RESULT")
  /\ query[q].target.type = "SET"
  /\ ParseJson(query[q].data) = "OK"
  /\ KeepCard(q, query[q].data.key)
  /\ Put(q, [PastFound(Parsed(q)) EXCEPT !.state = "GET_NEXT_IN_SET"])
  /\ UNCHANGED <<queryList, client, fullSets, badUrls, tokens>>

ParseSetNotFound(q) ==
  /\ Visit(q, "PARSE_RESULT")
  /\ query[q].target.type = "SET"
  /\ ParseJson(query[q].data) = "NOT_FOUND"
  /\ badUrls' = badUrls \cup {query[q].url}
  /\ SetCardNotFound(q, Parsed(q))
  /\ UNCHANGED <<results, queryList, client, cards, idMap, tokens>>

\* The target asks for another version than the card has.  (Mutant: never.)
OtherVersionNever(target, key) == FALSE
OtherVersion(target, key) ==
  target.type = "CARD_KEY" /\ target.key.ver # key.ver

\* A card query got a card.  When a key query got another version than it asked
\* for, it gives up or asks again, by the number of the card it got.
ParseCard(q) ==
  /\ Visit(q, "PARSE_RESULT")
  /\ query[q].target.type # "SET"
  /\ ParseJson(query[q].data) = "OK"
  /\ KeepCard(q, query[q].data.key)
  /\ LET target == query[q].target
         key    == query[q].data.key
         other  == OtherVersion(target, key)
     IN  \/ ~other /\ Put(q, Completed(Parsed(q), "OK"))
         \/ /\ other /\ target.key.ver = 0
            /\ Put(q, Completed(Parsed(q), "REQUEST_NEEDS_VERSION"))
         \/ /\ other /\ target.key.ver # 0
            /\ Put(q, Fetching(Parsed(q),
                 KeyUrl([key EXCEPT !.set = target.key.set, !.ver = target.key.ver])))
  /\ UNCHANGED <<queryList, client, fullSets, badUrls, tokens>>

\* What a card query that failed adds to bad_urls.  (Mutant: after any failure.)
BadUrlAlways(q, outcome) == {query[q].url}
BadUrl(q, outcome) == IF outcome = "NOT_FOUND" THEN {query[q].url} ELSE {}

\* The query ends with what sfc_card_parse_json returned.
ParseFailed(q) ==
  LET outcome == ParseJson(query[q].data)
  IN  /\ Visit(q, "PARSE_RESULT")
      /\ outcome # "OK"
      /\ query[q].target.type = "SET" => outcome # "NOT_FOUND"
      /\ badUrls' = badUrls \cup BadUrl(q, outcome)
      /\ Put(q, Completed(Parsed(q), outcome))
      /\ UNCHANGED <<results, queryList, client, store, tokens>>

\* A completed query is passed over.
SkipCompleted(q) ==
  /\ Visit(q, "COMPLETED")
  /\ UNCHANGED <<query, results, queryList, client, store, badUrls, tokens>>

\* sfc_cache_update unlinks and frees a deleted query.  (Mutant: the query after
\* it is unlinked with it.)
UnlinkTooMuch(q) ==
  \E i \in DOMAIN queryList :
    /\ queryList[i] = q
    /\ queryList' = SubSeq(queryList, 1, i - 1) \o SubSeq(queryList, i + 2, Len(queryList))
Unlink(q)        ==
  \E i \in DOMAIN queryList : queryList[i] = q /\ queryList' = RemoveAt(queryList, i)

RemoveDeleted(q) ==
  /\ Visit(q, "DELETE")
  /\ Put(q, FreeQuery)
  /\ results' = [results EXCEPT ![q] = <<>>]
  /\ Unlink(q)
  /\ UNCHANGED <<client, store, badUrls, tokens>>

UpdateQuery(q) ==
  \/ UpdateInitCardmarketId(q) \/ UpdateInitCardKey(q) \/ UpdateInitSet(q)
  \/ UpdateGetNextInSet(q)
  \/ UpdateHttpGetKnownBad(q) \/ UpdateHttpGetNoToken(q) \/ UpdateHttpGet(q)
  \/ UpdateWaiting(q)
  \/ ParseSetCard(q) \/ ParseSetNotFound(q) \/ ParseCard(q) \/ ParseFailed(q)
  \/ SkipCompleted(q) \/ RemoveDeleted(q)

-----------------------------------------------------------------------------
Next ==
  \/ CreateCache \/ Clear \/ Destroy \/ Refill \/ BeginUpdate
  \/ \E q \in Query : \/ \E t \in Targets : CreateQuery(q, t)
                      \/ DeleteQuery(q)
                      \/ Answer(q)
                      \/ UpdateQuery(q)

Spec == Init /\ [][Next]_vars

-----------------------------------------------------------------------------
(* Properties. *)

\* Every variable has its type; ResultsLive types the results.
StoreTypeOK ==
  /\ alive \in BOOLEAN
  /\ query \in [Query -> QueryFields]
  /\ client \in [Query -> Request]
  /\ cards \in Seq(Card)
  /\ idMap \in [Ids -> Card \cup {NoCard}]
  /\ fullSets \subseteq Sets
  /\ badUrls \subseteq Url \cup {NoUrl}
  /\ tokens \in 0..BucketSize

ListTypeOK == queryList \in Seq(Query) /\ todo \in Seq(Query)

TypeOK == StoreTypeOK /\ ListTypeOK

\* "We're now sure to have the full set" (sfc_query.c:30): a set in full_sets
\* has every card Scryfall has of it in the cache.
FullSetSound ==
  \A s \in fullSets : \A k \in Catalog : k.set = s => Cached(k)

\* bad_urls holds only URLs the server has nothing for; an answer cut short or
\* garbled on the way is never remembered as "not found".
NegativeCacheSound == \A u \in badUrls : CardsAt(u) = {}

\* The card list and the cardmarket map agree: one object per key, the map
\* names only listed objects, under their own id, and every listed card that
\* has an id is found under it or was replaced by another with the same id.
StoreCoherent ==
  /\ \A i, j \in DOMAIN cards : cards[i].key = cards[j].key => i = j
  /\ \A i \in Ids : idMap[i] # NoCard =>
       idMap[i] \in ToSet(cards) /\ IdOf(idMap[i].key) = i
  /\ \A c \in ToSet(cards) : IdOf(c.key) # 0 => idMap[IdOf(c.key)] # NoCard

\* A query hands out pointers to cards the cache holds, never to a card object
\* that lost the race with another query and was destroyed (sfc_query.c:325).
ResultsLive == \A q \in Query : results[q] \in Seq(ToSet(cards))

\* A request is under way exactly while its query waits for it, and one that
\* was polled outlives only the pass that polled it: what the assertions of
\* sfc_query_update_http_get and sfc_curl_update rely on.
RequestsMatchQueries ==
  \A q \in Query :
    /\ client[q].st \in {"active", "answered", "completed"} <=> query[q].state = "WAITING"
    /\ client[q].st = "doomed" => query[q].state = "PARSE_RESULT"
    /\ query[q].state = "WAITING" => client[q].url = query[q].url
    /\ query[q].data # NoBody => query[q].state = "PARSE_RESULT"

\* Whenever the application may destroy the cache, the HTTP context holds no
\* request (sfc_curl.c:132, test.c:254).
TeardownClean == MayDestroy => \A q \in Query : client[q].st = "none"

\* There is a response when sfc_query_update_parse_result runs (sfc_query.c:306).
ParseHasData == \A q \in Query : query[q].state = "PARSE_RESULT" => query[q].data # NoBody

\* A key query that ends well ends with a card of the version it asked for, even
\* when the server first answers with another (sfc_query.c:376).
VersionServed ==
  \A q \in Query :
    query[q].state = "COMPLETED" /\ query[q].result = "OK" /\ query[q].target.type = "CARD_KEY"
      => Last(results[q]).key.ver = query[q].target.key.ver

\* The queries in todo are the tail of the query list, so that a pass visits
\* each query once, oldest first, and none that has been freed.
PassInOrder ==
  /\ IsSuffix(todo, queryList)
  /\ IsInjective(queryList)
  /\ ToSet(queryList) = {q \in Query : query[q].state # "FREE"}

(***************************************************************************)
(* The cache keeps the promise of QueryService: a query is pending while   *)
(* it is unfinished, and its answer is its result code and result cards.   *)
(***************************************************************************)
Answered(q) == query[q].state = "COMPLETED"
Promised(q) == query[q].state \in Unfinished \cup {"COMPLETED"}

Service == INSTANCE QueryService WITH
  phase  <- [q \in Query |-> IF Answered(q) THEN "answered"
                             ELSE IF Promised(q) THEN "pending" ELSE "none"],
  target <- [q \in Query |-> IF Promised(q) THEN query[q].target ELSE NoTarget],
  answer <- [q \in Query |->
               IF Answered(q)
               THEN [code |-> query[q].result,
                     keys |-> [i \in DOMAIN results[q] |-> results[q][i].key]]
               ELSE [code |-> "NONE", keys |-> <<>>]]

\* The cache implements QueryService.
KeepsPromise == Service!Spec
=============================================================================
