-------------------------- MODULE QueryWaitProofs --------------------------
(***************************************************************************)
(* Proofs about QueryWait, for every value of its constants: a cache that  *)
(* is used through sfc_query_wait is the cache of SfcCache, so that all    *)
(* that is proved of that holds in and between waits too, and the query a  *)
(* wait looks at stays with the cache as long as the wait runs.            *)
(***************************************************************************)
EXTENDS QueryWait, SfcCacheProofs

\* WaitTypeOK is not inductive: the cache must stay alive in a wait, and its
\* query list must be what SfcCache's passes make of it.
Watched(q) == query[q].state \in Unfinished \cup {"COMPLETED"}

WaitInv ==
  /\ ListInv
  /\ wait \in Waits \cup {NoWait}
  /\ stalled \in BOOLEAN
  /\ Waiting => alive /\ Watched(wait.query)

-----------------------------------------------------------------------------
(* Every step is one of the cache's, or none. *)

LEMMA CacheStep == WaitInv /\ [WaitNext]_waitVars => [Next]_vars
<1> SUFFICES ASSUME WaitInv, WaitNext PROVE [Next]_vars
  BY DEF waitVars, vars
<1>1. CASE AppStep
  BY <1>1 DEF AppStep, Next
<1>2. CASE AppUpdate \/ AppDestroy \/ TokensComeIn
  BY <1>2 DEF AppUpdate, AppDestroy, TokensComeIn, Next
<1>3. CASE Visits
  BY <1>3 DEF Visits, Next
<1>4. ASSUME NEW q \in Query, Transfer(q) PROVE Next
  BY <1>4 DEF Transfer, Next
<1>5. CASE WaitUpdates
  <2>1. AppCall
    BY <1>5 DEF WaitUpdates, LoopHead, AppCall, WaitInv
  <2>2. BeginUpdate
    BY <1>5, <2>1 DEF WaitUpdates, BeginUpdate
  <2> QED
    BY <2>2 DEF Next
<1>6. CASE WaitReturns \/ WaitTimesOut \/ WaitFails \/ Tick \/ Stall
  BY <1>6 DEF WaitReturns, WaitTimesOut, WaitFails, Tick, Stall
<1>7. ASSUME NEW q \in Query, NEW t \in Timeouts, StartWait(q, t) PROVE UNCHANGED vars
  BY <1>7 DEF StartWait
<1> QED
  BY <1>1, <1>2, <1>3, <1>4, <1>5, <1>6, <1>7 DEF WaitNext

-----------------------------------------------------------------------------
(* A pass takes no query away that is unfinished or completed. *)

LEMMA WatchedStays ==
  ASSUME ListInv, NEW p \in Query, Watched(p), NEW q \in Query, UpdateQuery(q)
  PROVE  Watched(p)'
<1>0. StoreTypeOK /\ GetNextOnSets /\ query[q] \in QueryFields
  BY DEF ListInv, StoreTypeOK
<1>1. ASSUME NEW r, Put(q, r), r.state \in Unfinished \cup {"COMPLETED"}
      PROVE  Watched(p)'
  <2>1. query'[q] = r /\ \A s \in Query \ {q} : query'[s] = query[s]
    BY <1>0, <1>1, PutOther
  <2> QED
    BY <1>1, <2>1 DEF Watched
<1>2. CASE query' = query
  BY <1>2 DEF Watched
<1>3. CASE RemoveDeleted(q)
  <2>1. query[q].state = "DELETE" /\ Put(q, FreeQuery)
    BY <1>3 DEF RemoveDeleted, Visit
  <2>2. p # q
    BY <2>1 DEF Watched, Unfinished
  <2> QED
    BY <1>0, <2>1, <2>2, PutOther DEF Watched
<1>4. CASE UpdateHttpGet(q)
  <2>1. [query[q] EXCEPT !.state = "WAITING"].state = "WAITING"
    BY <1>0 DEF QueryFields
  <2> QED
    BY <1>1, <1>4, <2>1 DEF UpdateHttpGet, Unfinished
<1>5. CASE UpdateWaiting(q)
  <2> DEFINE r == [query[q] EXCEPT !.state = "PARSE_RESULT", !.data = client[q].body,
                     !.result = IF client[q].body = NoBody THEN "HTTP_GET_FAILED" ELSE "OK"]
  <2>1. r.state = "PARSE_RESULT"
    BY <1>0 DEF QueryFields
  <2>2. query' = query \/ Put(q, r)
    BY <1>5 DEF UpdateWaiting
  <2> HIDE DEF r
  <2> QED
    BY <1>1, <1>2, <2>1, <2>2 DEF Unfinished
<1>6. CASE ~UpdateHttpGet(q) /\ ~UpdateWaiting(q) /\ ~RemoveDeleted(q)
  <2>1. query' = query \/ \E r : Put(q, r) /\ Thinks(query[q], r)
    BY <1>0, <1>6, UpdateShape
  <2> QED
    BY <1>1, <1>2, <2>1 DEF Thinks, Thinking, Unfinished
<1> QED
  BY <1>3, <1>4, <1>5, <1>6

LEMMA WaitInvInit == WaitInit => WaitInv
  BY ListInit DEF WaitInit, WaitInv, Waiting

LEMMA WaitInvStep == WaitInv /\ [WaitNext]_waitVars => WaitInv'
<1> SUFFICES ASSUME WaitInv, [WaitNext]_waitVars PROVE WaitInv'
  OBVIOUS
<1>0. /\ ListInv /\ ListInv'
      /\ wait \in Waits \cup {NoWait} /\ stalled \in BOOLEAN
      /\ Waiting => alive /\ Watched(wait.query)
  BY CacheStep, ListStep DEF WaitInv
<1>1. Waiting => /\ wait \in Waits /\ wait.query \in Query /\ wait.timeout \in Timeouts
                 /\ wait.elapsed \in Nat
  BY <1>0 DEF Waiting, Waits
<1>2. ~Waiting' /\ stalled' \in BOOLEAN => WaitInv'
  BY <1>0 DEF WaitInv, Waiting
<1>3. CASE AppStep \/ AppUpdate \/ AppDestroy
  BY <1>0, <1>2, <1>3 DEF AppStep, AppUpdate, AppDestroy, Waiting
<1>4. CASE WaitReturns \/ WaitTimesOut \/ WaitFails
  BY <1>0, <1>2, <1>4 DEF WaitReturns, WaitTimesOut, WaitFails, Waiting
<1>5. ASSUME NEW q \in Query, NEW t \in Timeouts, StartWait(q, t) PROVE WaitInv'
  <2>1. wait' \in Waits /\ wait'.query = q
    BY <1>5 DEF StartWait, Waits
  <2>2. alive /\ Watched(q) /\ UNCHANGED <<alive, query, stalled>>
    BY <1>5 DEF StartWait, AppCall, Watched, vars
  <2> QED
    BY <1>0, <2>1, <2>2 DEF WaitInv, Watched
<1>6. ASSUME UNCHANGED <<alive, query, wait>>, stalled' \in BOOLEAN PROVE WaitInv'
  BY <1>0, <1>6 DEF WaitInv, Waiting, Watched
<1>7. CASE Stall \/ TokensComeIn \/ UNCHANGED waitVars
  BY <1>0, <1>6, <1>7 DEF Stall, TokensComeIn, Refill, waitVars, vars
<1>8. ASSUME NEW q \in Query, Transfer(q) PROVE WaitInv'
  BY <1>0, <1>6, <1>8 DEF Transfer, Answer
<1>9. CASE Visits
  <2>1. PICK q \in Query : UpdateQuery(q) /\ UNCHANGED <<wait, stalled>>
    BY <1>9 DEF Visits
  <2>2. UNCHANGED alive
    BY <2>1 DEF UpdateQuery, UpdateInitCardmarketId, UpdateInitCardKey, UpdateInitSet,
         UpdateGetNextInSet, UpdateHttpGetKnownBad, UpdateHttpGetNoToken, UpdateHttpGet,
         UpdateWaiting, ParseSetCard, ParseSetNotFound, ParseCard, ParseFailed, SkipCompleted,
         RemoveDeleted, Visit
  <2>3. Waiting => Watched(wait.query)'
    BY <1>0, <1>1, <2>1, WatchedStays
  <2>4. Waiting' = Waiting
    BY <2>1 DEF Waiting
  <2> QED
    BY <1>0, <2>1, <2>2, <2>3, <2>4 DEF WaitInv, Watched
<1>10. ASSUME Waiting, NEW n \in Nat, wait' = [wait EXCEPT !.elapsed = n],
              UNCHANGED <<alive, query, stalled>>
       PROVE  WaitInv'
  <2>1. wait' \in Waits /\ wait'.query = wait.query
    BY <1>1, <1>10 DEF Waits
  <2> QED
    BY <1>0, <1>10, <2>1 DEF WaitInv, Watched
<1>11. CASE WaitUpdates
  BY <1>1, <1>10, <1>11 DEF WaitUpdates, LoopHead, Elapsed
<1>12. CASE Tick
  BY <1>1, <1>10, <1>12 DEF Tick, vars
<1> QED
  BY <1>3, <1>4, <1>5, <1>7, <1>8, <1>9, <1>11, <1>12 DEF WaitNext

-----------------------------------------------------------------------------

\* The query that a wait looks at is neither freed nor unlinked under it,
\* whatever the passes of the wait do to this and the other queries
\* (sfc_query.c:508).
THEOREM WaitTypesHold == WaitSpec => []WaitTypeOK
<1>1. WaitInv => WaitTypeOK
  <2> SUFFICES ASSUME WaitInv PROVE WaitTypeOK
    OBVIOUS
  <2>1. Waiting => wait.query \in Query
    BY DEF WaitInv, Waiting, Waits
  <2>2. Waiting => wait.query \in ToSet(queryList)
    BY <2>1 DEF WaitInv, ListInv, PassInOrder, Watched, Unfinished
  <2> QED
    BY <2>2 DEF WaitInv, WaitTypeOK, Watched
<1> QED
  BY <1>1, WaitInvInit, WaitInvStep, PTL DEF WaitSpec

\* The loop of a wait is a series of calls of sfc_cache_update: used through
\* sfc_query_wait, with any timeouts and over a connection that may stall, the
\* cache does nothing that SfcCache does not do (sfc_query.c:524).
THEOREM WaitingIsUpdating == WaitSpec => Spec
<1>1. WaitInit => Init
  BY DEF WaitInit
<1> QED
  BY <1>1, CacheStep, WaitInvInit, WaitInvStep, PTL DEF WaitSpec, Spec
=============================================================================
