----------------------------- MODULE QueryWait -----------------------------
(***************************************************************************)
(* The cache used through sfc_query_wait: the application blocks on one    *)
(* query with or without a timeout, and the loop of the wait updates the   *)
(* cache, with all its queries, until that query is completed.  Transfers  *)
(* may stall for good: the code limits the time to connect only, and all   *)
(* requests share one connection (sfc_curl.c:262).                         *)
(*                                                                         *)
(* Time in a wait is counted in steps of the clock, up to the first that   *)
(* is past the timeout.                                                    *)
(***************************************************************************)
EXTENDS SfcCache

CONSTANTS
  Timeouts,  \* the timeouts the application uses, in steps of the clock
  Forever    \* UINT32_MAX, no timeout

ASSUME TimeoutAssumption == Timeouts \subseteq Nat \cup {Forever} /\ Forever \notin Nat

VARIABLES
  wait,     \* the query of the sfc_query_wait that runs, its timeout, the time
            \* since its start, or NoWait
  stalled   \* the connection has stalled

waitVars == <<vars, wait, stalled>>

NoWait == [timeout |-> 0]
Waits  == [query: Query, timeout: Timeouts, elapsed: Nat]

Waiting == wait # NoWait
Late    == wait.timeout # Forever /\ wait.elapsed > wait.timeout

WaitInit == Init /\ wait = NoWait /\ stalled = FALSE

-----------------------------------------------------------------------------
(* sfc_query_wait. *)

StartWait(q, timeout) ==
  /\ AppCall /\ ~Waiting
  /\ query[q].state \in Unfinished \cup {"COMPLETED"}
  /\ wait' = [query |-> q, timeout |-> timeout, elapsed |-> 0]
  /\ UNCHANGED <<vars, stalled>>

\* The head of the loop, between two updates.
LoopHead == Waiting /\ todo = <<>>

\* sfc_query_poll.
Poll(q) == query[q].state = "COMPLETED"

WaitReturns ==
  /\ LoopHead
  /\ Poll(wait.query)
  /\ wait' = NoWait
  /\ UNCHANGED <<vars, stalled>>

WaitTimesOut ==
  /\ LoopHead
  /\ ~Poll(wait.query) /\ Late
  /\ wait' = NoWait
  /\ UNCHANGED <<vars, stalled>>

\* What is left of the time that has passed when the loop goes round: all of
\* it, start_time is taken once.  (Mutant: it is taken in each round.)
ElapsedAnew(w) == 0
Elapsed(w)     == w.elapsed

\* The loop goes on with a pass over all queries.
WaitUpdates ==
  /\ LoopHead
  /\ ~Poll(wait.query) /\ ~Late
  /\ client' = [q \in Query |-> UpdatedRequest(client[q])]
  /\ todo'   = queryList
  /\ wait'   = [wait EXCEPT !.elapsed = Elapsed(wait)]
  /\ UNCHANGED <<alive, query, results, queryList, store, badUrls, tokens, stalled>>

\* sfc_curl_update fails and the wait returns with its code, the query as it was.
WaitFails ==
  /\ LoopHead
  /\ ~Poll(wait.query) /\ ~Late
  /\ wait' = NoWait
  /\ UNCHANGED <<vars, stalled>>

-----------------------------------------------------------------------------
(* Clock and network. *)

Tick ==
  /\ Waiting /\ wait.timeout # Forever /\ ~Late
  /\ wait' = [wait EXCEPT !.elapsed = @ + 1]
  /\ UNCHANGED <<vars, stalled>>

\* Nothing more comes over the connection.
Stall ==
  /\ \E q \in Query : client[q].st = "active"
  /\ stalled' = TRUE
  /\ UNCHANGED <<vars, wait>>

Transfer(q) == ~stalled /\ Answer(q) /\ UNCHANGED <<wait, stalled>>

-----------------------------------------------------------------------------
\* The one thread is in the wait or in the application; a new cache has a new
\* connection.
AppUpdate == ~Waiting /\ BeginUpdate /\ UNCHANGED <<wait, stalled>>

AppStep ==
  /\ ~Waiting
  /\ \/ CreateCache
     \/ Clear
     \/ \E q \in Query : DeleteQuery(q) \/ \E t \in Targets : CreateQuery(q, t)
  /\ UNCHANGED <<wait, stalled>>

AppDestroy == ~Waiting /\ Destroy /\ stalled' = FALSE /\ UNCHANGED wait

Visits == (\E q \in Query : UpdateQuery(q)) /\ UNCHANGED <<wait, stalled>>

\* Tokens come in while no pass runs, or during one.
TokensComeIn == Refill /\ UNCHANGED <<wait, stalled>>

WaitNext ==
  \/ AppStep \/ AppUpdate \/ AppDestroy \/ Visits
  \/ \E q \in Query : Transfer(q) \/ \E t \in Timeouts : StartWait(q, t)
  \/ WaitReturns \/ WaitTimesOut \/ WaitUpdates \/ WaitFails
  \/ Tick \/ Stall \/ TokensComeIn

(***************************************************************************)
(* Fairness: a call runs to its end (Visits, the returns of the wait), the *)
(* application keeps updating the cache in a wait or by itself, even if    *)
(* many of its waits end before their first update, the clock advances,    *)
(* and it finds time to bring in tokens between two passes (a pass takes   *)
(* microseconds).  A transfer ends unless the connection has stalled.      *)
(***************************************************************************)
Fairness ==
  /\ WF_waitVars(Visits)
  /\ WF_waitVars(WaitReturns \/ WaitTimesOut)
  /\ SF_waitVars(WaitUpdates \/ AppUpdate)
  /\ WF_waitVars(Tick)
  /\ SF_waitVars(AppCall /\ TokensComeIn)
  /\ \A q \in Query : WF_waitVars(Transfer(q))

WaitSpec == WaitInit /\ [][WaitNext]_waitVars /\ Fairness

-----------------------------------------------------------------------------
(* Properties. *)

\* Every variable has its type, and the query that a running wait looks at
\* stays in the list the loop of the wait updates.
WaitTypeOK ==
  /\ wait \in Waits \cup {NoWait}
  /\ stalled \in BOOLEAN
  /\ Waiting => /\ query[wait.query].state \in Unfinished \cup {"COMPLETED"}
                /\ wait.query \in ToSet(queryList)

\* Every query ends, whatever the other queries and the network do, unless the
\* connection has stalled.
QueryCompletes ==
  \A q \in Query : query[q].state \in Unfinished ~> query[q].state = "COMPLETED" \/ stalled

\* A wait returns: one with a timeout in any case, also from a query whose
\* transfer has stalled, one without when its query has ended, well or not,
\* unless the connection has stalled (sfc_query.c:510).
WaitEnds == Waiting ~> ~Waiting \/ (stalled /\ wait.timeout = Forever)
=============================================================================
