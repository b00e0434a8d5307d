# A formal model of scryfallcache

scryfallcache is a C library that queries the Scryfall card API and caches what
it gets. This directory holds TLA+ modules that model the library, TLC
configurations that check them on small instances, and proofs, checked by the
TLA+ proof system, of what holds for every instance. Line numbers refer to the
files of the repository.

## The system

Everything runs in the application's thread. The application creates a cache,
asks queries of it, calls `sfc_cache_update` again and again (directly or
through `sfc_query_wait`), reads the results of completed queries and deletes
them. What happens at the same time is the clock, which fills the rate limiter,
and the network, where transfers end in any order, fail, or bring anything.

| component | state | operations | what makes it correct |
|---|---|---|---|
| cache (`sfc_cache.c`) | card list and card set, id map, `full_sets`, `bad_urls`, query list | create, destroy, create query, update, add card, clear, save, load | list, set and map agree; `full_sets` and `bad_urls` claim nothing false; a pass of update visits each query once |
| query (`sfc_query.c`) | state, target, position of a set walk, URL, response, results, result code | init, update (five states), poll, delete, wait | it ends; its answer is right about Scryfall; its results are cards the cache holds |
| HTTP context (`sfc_curl.c`) | list of requests, each active, completed, to be deleted | create, get, poll, update, destroy | a request lives exactly as long as a query needs it; none is left at the end |
| rate limiter (`sfc_leaky_bucket.c`) | tokens, time of last refill | acquire | bounded requests in any window; refusals are short |
| id map (`sfc_card_map_uint32.c`) | open-addressing table | set, get, clear, grow | a lookup finds what was last set |
| persistence (`sfc_cache_save`, `sfc_cache_load`, `sfc_file.c`) | the file, the temporary file | save, load | a save replaces the file in one step or not at all; loading brings back a true cache |
| collector number, card JSON, serializers, buffer, card/string sets | values | conversions | inverse to each other; limits respected |
| application callbacks (`sfc_app.c`), debug output | none | timer, sleep, allocation | monotonic timer |
| jsmn | vendored tokenizer | | |

How they interact: update of the cache first updates the HTTP context (which
destroys polled requests and completes answered ones), then updates the queries
in list order. A query reads the store, asks the rate limiter for a token, opens
a request, polls it in later updates, parses the response and adds cards, full
sets and bad URLs to the store, where other queries find them. Queries meet
only in the store, the bucket and the order of the list.

The behaviours that are hard to test: two queries racing for one card; a set
walk that spans hundreds of updates while other queries change the store under
it; a transfer that fails; clear, destroy and delete at any point between
updates; fairness between queries when tokens are scarce; a lazily filled bucket
with fractions of tokens; a hash table that grows, wraps and gives up; a crash or
a full disk at any step of a save; strings whose offsets are moved by the first
save and filtered by each load; a wait that gives up while its query goes on.
`PROJECT.json` lists each hazard at its line with the properties that would catch it,
or why none does yet.

## Modules

| module | models | composes |
|---|---|---|
| `Scryfall` | the vocabulary (keys, URLs, response bodies) and the server, which is external: a set of cards and what it may answer to a URL | |
| `SfcCache` | the cache, its queries and the requests, as one state machine | `Scryfall`; implements `QueryService` |
| `QueryService` | abstract: a query is asked, pending, answered rightly and once, released | `Scryfall` |
| `LeakyBucket` | the rate limiter with its clock | implements `TokenPool` |
| `TokenPool` | abstract: a pool of at most Size tokens that fills and is drawn from | |
| `CardMap` | the hash table, with the loops of set and grow as steps | implements `IdMap` |
| `IdMap` | abstract: a function from ids to cards | |
| `Persistence` | save, load and rename as steps, with failing calls and crashes | implements `DurableStore` |
| `DurableStore` | abstract: a save replaces the saved content at once or leaves it | |
| `QueryWait` | `sfc_query_wait`: an application that blocks on one query while the loop updates all, its clock, connections that stall | `SfcCache` |
| `Words`, `Codec` | words as sets of bits; serializer, deserializer and the frame of a record, as operators on sequences of bytes | |
| `CollectorNumber` | parsing, packing and printing a collector number | `Words` |
| `Buffer` | the growing buffer, its static part and its block on the heap, detaching | `Words` |
| `CardData` | one card and its data: JSON, strings and string filter, shrinking, saving, loading | `CollectorNumber`, `Codec`, `Buffer` |
| `MCSfcCache`, `MCQueryWait`, `MCCardMap`, `MCPersistence`, `MCCardData` | the instances TLC checks | |
| `SfcCacheProofs`, `LeakyBucketProofs`, `CardMapProofs`, `PersistenceProofs`, `QueryWaitProofs`, `DataProofs`, `CardDataProofs` | the theorems about the module of that name; `DataProofs` those about `Words`, `Codec`, `Buffer`, `CollectorNumber` and a card's record, which `CardDataProofs` rests on | |
| `Inductions` | induction over numbers, for the proofs about recursive functions | |

The modules are joined by their abstractions. `SfcCache` draws tokens from
a `TokenPool` (its `tokens`, `Refill` and `UpdateHttpGet` are the pool's variable,
Refill and Take), which `LeakyBucket` is proved to implement; it has the id map as
the function `idMap`, which `CardMap` is proved to implement as long as growing
succeeds; `Persistence` takes for the cache in use what `SfcCache` proves of it,
that a set is added to `full_sets` only when all its cards are there. `Scryfall`
has a response as the outcome of parsing it, `Persistence` a record as the card
in it; `CardData` goes into both, byte by byte, for one card.

### SfcCache and the code

One `sfc_cache_update` is a pass. `BeginUpdate` is `sfc_curl_update` and copies the
query list into `todo`; then one action per state handler of `sfc_query.c` runs
for the head of `todo` until it is empty, and the application may call again.
Several actions stand for one handler where it has several outcomes:
`sfc_query_update_init` is split by type of query,
`sfc_query_update_http_get` into `UpdateHttpGetKnownBad`, `UpdateHttpGetNoToken` and
`UpdateHttpGet`, `sfc_query_update_parse_result` into `ParseSetCard`,
`ParseSetNotFound`, `ParseCard` and `ParseFailed`; `RemoveDeleted` is the unlinking in
`sfc_cache_update`. `Refill` may happen within a pass, since each query reads the
clock for itself, and so may `Answer`, which curl notices only in the next
update.

The card list and the card set are one variable, `cards`: the code adds to and clears both
together, unless the id map fails in between (`sfc_cache.c:221`, a hazard without a property). A card object is its key and the query that created it, so that an object that
lost the race with another query can be told from the one the cache kept.
A packed collector number is the fields `num` and `ver` and a mark for its other
bits. A response is one of a card, "not found", something the parser rejects,
or nothing; `ParseJson` gives the result code of `sfc_card_parse_json`. URLs are
told apart by what was printed into them. Two switches describe the
surroundings: `NetworkFails`, whether a transfer may fail or be garbled, and
`Disciplined`, whether the application clears the cache only when no query
exists and destroys it only when all are completed, which is what `test.c` does.

### Persistence and the code

A file is a sequence of whole records; what follows them is read like the end of
the file. `fwrite` succeeds into the buffer of the C library, so a crash may
lose any tail of the temporary file (`Cut`); with `FlushFails` so may `fclose`, whose
result the code ignores. `renameReplaces` says of the platform, one of `Platforms`,
whether rename() replaces a file, as POSIX has it; where it does not the old
file is removed first, as `sfc_file_rename` does after EEXIST, and `DurableStore` may
`Lose` what was saved, and only there. Loading is one action:
nothing runs beside it and a crash in it is a crash before it. The path that is
too long for the temporary name returns before anything is touched and is left
out.

### CardMap and the code

`Slot`, `Open`, `Tries` are the loop of `try_insert`; its 52 probes, the ten doublings
of `grow` and 2^32 are the constants `MaxProbes`, `Attempts` and `Word`. `Grow`, `Move`,
`NextAttempt`, `GiveUp`, `Grown` are the loops of `grow`, `Abort` its assertion. The
slots that failed attempts leak are not modelled.

The doubling within a `grow` wraps (`sfc_card_map_uint32.c:165`). When the last attempt
does so and fails too, `grow` gives up and leaves a table of size 0 (`:196`). Such a table passes the
assertion at the next `grow`, doubles to 0, has nothing to move and is taken for grown, while
no slot is ever found: from then on a set never returns. `SetEnds` says that a set
ends as long as the size is not 0, `NoSlotsNoEnd` that it does not when it is.
Lookups find nothing then, of which `ProbesReach` and `IsIdMap` have nothing to say. With the ten
attempts and 32 bits of the code it takes a table of 2^22 slots at least (and an allocation of 0 bytes that gives a pointer, as
in glibc).

### QueryWait and the code

`WaitReturns`, `WaitTimesOut`, `WaitUpdates` and `WaitFails` are the turns of the loop of
`sfc_query_wait`; between two of them the handlers of `SfcCache` run for the pass
that `WaitUpdates` began, for all queries. While a wait runs the application does
nothing else; outside of one it calls the same functions as in `SfcCache`,
with the discipline of `Disciplined`. `Tick` is the timer, whose time since the
start of the wait is counted up to the first step beyond the timeout. The sleep
of 100 ms only lets time pass. `WaitFails` is a failing `curl_multi_perform`, after
which the query is as it was. `Stall` ends what `Transfer` may do: all requests share
one connection, and only connecting has a limit.

### CardData, CollectorNumber, Codec, Buffer and the code

A word is the set of its bits, so that `|` is union and a width is a bound on the
elements. A collector number is a text in the parts that
`sfc_collector_number_from_string` cuts it into and a word. Its digits are a sequence, read one by one
(`ReadDigits`, with the stop at the first value above 4095) and printed as `%u` does
(`PrintDigits`): "007" and "7" are one word and print as "7", and a text without
digits reads as 0 and prints with one. Each `Write` operator
of `Codec` gives the bytes that the function of `sfc_serializer.c` appends; each `Take`
reads from the front of the bytes that remain, with the checks and result
codes of `sfc_deserializer.c`. `SizeBytes` has the high byte of a record's length as
the code writes it, always 0 (`sfc_file.c:16`).

A response is a sequence of values with the object they are in, which is the
order of jsmn's tokens; `ParseValue` is the switch of `sfc_card_parse_json`, and its
clauses the branches under it. What the tokenizer may give of a value (`IsValue`) is an
assumption on `Responses`; for instance no string is an array, and texts hold no NUL. `string_data` points into the response: the text of the
values is kept, with a byte before and behind each for the punctuation, and a
string ends where the parser put its NUL. `Deserialize` is the chain of reads with its
early returns, one operator for each read (`ReadNumber` to `ReadTimestamp`). `block` counts the allocations `string_data` has pointed to, and
`kept`, `origin` remember what the properties speak about. Of the 61 strings, three
stand for those of the card itself and of two of its objects.

`Buffer` is the object with its `static_buffer` and the block it may have on the heap;
`SFC_BUFFER_STATIC_SIZE` and the page of 1024 are constants. A response goes through one, appended value by value
and detached, and so does a record, appended write by write. Who frees a block is
not modelled.

## Runs

| run | question | instance | states |
|---|---|---|---|
| `cache` | the whole of `SfcCache` with an honest server, a failing network and a disciplined application | 2 queries, cards 1a and 2 of one set, one id, bucket of 1 | 399,000 |
| `cache_live` | does every query end, does every wait return | 2 queries of a set, one card, bucket of 1, waits of one step and without timeout, failing and stalling transfers, fairness | 400,000 |
| `cache_alias` | the second request by collector number when the server answers with another version; clear and destroy at any moment | 3 cards, keys that are answered with other cards, an unprintable key | 1,282,000 |
| `cache_no_data` | violation: is there a response when it is parsed | | |
| `cache_clear_mid_walk` | violation: is a full set full when the application clears during a walk | | |
| `cache_gap` | violation: is a full set full when numbers have a gap | | |
| `bucket` | grants in every window, length of refusals, the token pool | rate 2, size 2, 5 ticks to the second, 13 ticks | 5,400 |
| `save` | failing and crashing saves, loads, both kinds of rename() | 2 cards of one set, one bad URL | 26,800 |
| `save_flush` | violation: is the file whole after a save that returned OK | | |
| `map` | probing, growing, retrying, giving up, the assertion, the size wrapping to 0 | 5 keys, 2 probes, 2 doublings, a word of 32 | 22,200 |
| `card` | does a card stay what the response said, through saves, loads and changes of the filter | some 840 responses, 3 strings, 4 filters | 95,900 |
| `collector_version` | violation: does an accepted number print back | | |

Why the bounds are enough. Queries interact in pairs: a race for a card, the
order of the list, a token one takes from another; a query that is deleted and
asked again gives the later ones. The catalog of `cache` makes a walk take each
of its turns: 1 is missing, 1a is found, 1b is missing after 1a (the walk goes on
with 2), 2 is found, 3 and 3a are missing (the end). One token makes tokens
scarce. In `bucket` the rate does not divide the second, so that fractions are
carried over, and the horizon is more than two full refills. In `map`
the hashes agree in their low bits, and collide again after each doubling; entries
wrap around the end of the table, which is what makes growing fail. Growing gives up at a size
that is left and at 0, and the word is small enough to meet the assertion. In `cache_live` a
timeout of one step lets a wait make none, one or more passes before it gives up. In
`card` the responses have each optional value present and absent, a string
empty, missing, or said outside of its object, all parts of a number at and
beyond their limits (prefixes of four and five letters, no digits, zeros in front, 04096, version letters g, h and z),
a set code at its limit, and every way of not being a card; a filter lets pass none,
all, two or one of the strings. The static part of a buffer holds 24 bytes and a
page 8, so that responses and records stay inside, leave it, and grow again. Numbers of a walk stay
below the limits of their fields in every instance (`KeysFit`); what happens beyond
them is listed as a hazard.

What the violation runs show:

* `cache_no_data`: a transfer that fails leaves no response, and
  `sfc_query_update_parse_result` asserts that there is one (`sfc_query.c:306`). In a
  build without assertions the query ends with JSON_RESPONSE_ERROR and the code
  of the failed transfer is lost.
* `cache_clear_mid_walk`: `sfc_cache_clear` does not touch walks under way; a walk
  that ends later marks a set as full that is no longer in the cache
  (`sfc_query.c:31`). `sfc_cache_load` clears as well.
* `cache_gap`: a number of which neither the plain card nor version "a" exists ends
  the walk (`sfc_query.c:26`), and the set is marked as full.
* `save_flush`: `fclose` is not checked (`sfc_cache.c:289`); the file cut short replaces the
  good one, and `sfc_cache_load` takes its end for the end of the cache
  (`sfc_cache.c:356`) after it has read the full sets.
* `collector_version`: the version letter is compared with the limit of the number
  (`sfc_collector_number.c:76`), so that 8 to 26 spill out of the three bits of the
  field; a number with the letter h prints as another number. A prefix of
  four letters spills likewise (`:32`).

## Properties

* `FullSetSound`, `NegativeCacheSound`: the two lists the cache keeps for ever claim
  nothing false.
* `StoreCoherent`, `ResultsLive`: one object per key, the map names only listed
  cards, results point to cards the cache holds.
* `RequestsMatchQueries`, `TeardownClean`: the life of requests against the states of
  queries, what the assertions of `sfc_query.c:275` and `sfc_curl.c:132` rely on.
* `PassInOrder`: unlinking in the middle of a pass skips and repeats nobody.
* `VersionServed`: the retry by collector number brings the version asked for.
* `KeepsPromise`: `SfcCache` implements `QueryService`: whatever the interleaving,
  a query is answered once, and an answer OK or NOT_FOUND is true of the
  catalog.
* `QueryCompletes`, `WaitEnds`: every query ends and every wait returns unless the
  connection has stalled; one with a timeout returns even then.
* `WindowBound`, `RefusalsAreShort`, `IsTokenPool`: see `LeakyBucket`. A window of one
  second may see almost twice `max_http_requests_per_second`: a full bucket and
  what comes in during the second.
* `ProbesReach`, `IsIdMap`, `SetEnds`, `NoSlotsNoEnd`: an entry is never found twice or missed;
  a set ends unless the table has no slots left, and then it never does.
* `SaveIsAtomic`, `SavedIsWhole`, `RemovedLast`: what is on disk.
* `StringsRight`, `CardRight`, `NumberKept`: a card says what its response said, in
  every string and value, wherever its data have been moved and however often it
  was saved and loaded, as far as the filters let it, and a number prints as it was
  written but for the zeros in front.
* `StringsMoveOnce`: once there is a file of a card, no save moves or changes its strings, nor a
  save after a load: a pointer to one is good from the first save on, as long as the card is.
* `LoadsBack`, `CutRejected`: a record that was saved is read, and no proper prefix of one is.
* `NotFoundSaid`: what a URL is remembered as bad for.

`TeardownClean` speaks of an application that destroys the cache when all its queries are
completed. Nothing keeps another one from the assertion of `sfc_curl_destroy`.

Fairness. `cache_live` assumes that a call runs to its end (weak fairness of `Visits`, the
handlers of a pass, and of the returns of a wait) and that the application
keeps updating, in waits or by itself (strong fairness of `WaitUpdates \/ AppUpdate`,
because waits with a short timeout may end before their first update). It
assumes that the timer advances (weak fairness of `Tick`), and that a transfer
ends as long as the connection has not stalled (weak fairness of `Transfer`); `Stall` itself may
happen at any time, and the properties say what is left then. It assumes that
tokens come in between two passes again and again (strong fairness of
`TokensComeIn` there): a pass takes microseconds and a token tenths of a second. With weak fairness of
`Refill` alone the property fails: a token that comes in after an older query was
refused and before a younger one asks, in every pass, starves the older. `map`
assumes that a call runs to its end.

## Proofs

Every safety property that a passing run checks is also a theorem, for every value
of the constants, under the named assumptions of the modules (`...Assumption`, which
TLC evaluates for each instance) and what is said below. All proofs are checked
to the last leaf. An invariant is proved by strengthening it to one that every step keeps; the
proof of that has a step for each action.

### The cache (`SfcCacheProofs`)

| theorem | states | inductive invariant: what it adds |
|---|---|---|
| `TypesHold` | `TypeOK` | only queries for a set are in the walk's state (`GetNextOnSets`) |
| `BadUrlsAreBad` | `NegativeCacheSound` | `AnswerInv`: the response a request or a query holds is one the server or the network may send for its URL |
| `FullSetsAreFull` | `FullSetSound` | `WalkInv`: all cards of the set before a walk's position are in the cache, and its response is the server's answer to that position; the step that ends the walk concludes with `Enumerable` that no card lies beyond |
| `PassesAreInOrder` | `PassInOrder` | `ListInv`: the types of the list, of `todo` and of the queries in them, with `GetNextOnSets` |
| `RequestsAreMatched`, `TeardownsAreClean` | `RequestsMatchQueries`, `TeardownClean` | `StepInv`: a request that is to be destroyed belongs to a query that the pass has behind it, and a query has a response only between the poll and the parse (`InStep`) |
| `StoresAreCoherent` | `StoreCoherent` | `StoreInv`: `AnswerInv`, for the types and origin of the cards that come in |
| `ResultsAreLive` | `ResultsLive` | `LiveInv`: a query that does not exist has no results, since clear and destroy take the cards away |
| `VersionsAreServed` | `VersionServed` | `VersionInv`: the same of the last of the results, with their types (`Served`) |
| `CacheKeepsPromise` | `KeepsPromise` | `PromiseInv`: a walk has each card of its set before its position once among its results; a query for a card has none until it is answered, and its URL asks for the card it was asked for |

`FullSetsAreFull` and `CacheKeepsPromise` assume an honest server (`ServerHonest`: it
answers a key with the card of that key), an enumerable catalog (`Enumerable` in `Scryfall`: no gaps, no
number with both a plain card and versions, no marked numbers) and a disciplined
application; `ResultsAreLive` and `TeardownsAreClean` only the last. The
violation runs `cache_clear_mid_walk` and `cache_gap` show that neither
assumption can go. The other theorems need none of them.

The refinement goes step by step: initial states map to initial states; each
handler leaves its query unfinished, which `QueryService` does not see (`Unseen`),
completes it with an answer that is right about the catalog, or frees it (`Fulfils`). A query that walks a set collects in its loop over the card
list what the recursive function of `CardsOfSet` does; `Looped` names that
function.

### The other components

* `LeakyBucketProofs`: `BucketTypesHold`, `WindowsAreBounded`, `RefusalsEnd`,
  `BucketIsTokenPool`: the type invariant, `WindowBound`, `RefusalsAreShort` and the
  refinement of `TokenPool`, for every rate, size and resolution of the timer.
  The invariant `WindowInv` counts tokens in units of ticks: granted, stored and
  accrued tokens together never exceed a full bucket plus what time has brought.
* `CardMapProofs`: `TypesHold`, `ProbesHold`, `TableIsIdMap`: `TypeOK`, `ProbesReach`
  and the refinement `IsIdMap`, for every hash, number of probes and word; `SetsHang`: `NoSlotsNoEnd`,
  so that a table that was given up at size 0 hangs whatever the hash. `MapInv` adds that
  at every step of a grow the new slots hold just what has been moved of the old ones (`Moved`).
* `PersistenceProofs`: `TypesHold` whatever fails, and, if flushing does not fail
  (`~FlushFails`), `FullSetsSurvive`, `SavesAreWhole`, `RemovalsAreLast` and the
  refinement `SavesAreAtomic`. `PartInv` says that the file and the temporary file each hold the
  beginning of the image of some cache, and the latter in a save of this one; `WholeInv` that
  the file holds all of it, of a cache whose full sets are full, and that the temporary file does from the
  rename on. The
  run `save_flush` shows what happens when flushing fails.
* `QueryWaitProofs`: `WaitTypesHold`, and `WaitingIsUpdating`: `WaitSpec` implies the
  specification of `SfcCache`, so that its safety theorems hold of
  an application that waits.

### Data (`DataProofs`)

For every value, without bounds but those said:

* `TakesVarSize`, `TakesWord`, `TakesString`, `TakesBuffer`: what is written is read
  back, and the bytes behind it are left.
* `FrameIsRead`, `CutFrameIsRefused`: a record of less than 16 MiB is read from the
  file as it was written, although the high byte of its length is not; no proper
  prefix of its frame is.
* `CollectedHolds`: a buffer holds what was appended to it, for every size of its
  static part and of a page.
* `FittingPrintsBack`: a collector number that fits the fields of its word prints back, digit by
  digit, without the zeros in front of it.
* `FittingPacksApart`: two numbers that fit share a word exactly when they print alike, so that a
  card set, which looks for the word, has a place for each and takes "7" and "007" for one.
* `RecordIsRead`: the record of any card that can be stored (`Storable`) is read to its
  end, and gives the card with its strings as far as the filter lets them pass (`Loaded`).

### The life of a card (`CardDataProofs`)

`CardTypes`, `StringsStayRight`, `CardStaysRight`, `SavedLoadsBack`, `CutStaysRejected`,
`NumberStays`, `NotFoundIsSaid` and `StringsMove` state all properties of the run
`card`, for all responses, tables of strings, filters and sizes of buffers. They
assume of the responses:

* All need `TextsFit(limit)` for some limit: no text is longer than limit, and limit and the
  number of strings are such that a record stays below 16 MiB. With the 61 strings
  of the code any limit up to 275,000 bytes will do. Beyond it the frame of a
  record loses bits (`sfc_file.c:16`).
* `NotFoundIsSaid` alone needs `ObjectFirst` besides: the response says first what kind of
  object it is, as the JSON of Scryfall does. A parser that met the error behind a
  value it rejects would report the value.

A response may say a thing twice: `CardRight` has the last value count for the set, the
number and the ids, and all of them for flags and colors, as the parser does.
TLC evaluates both on the responses of the run (`ResponsesAreRegular`).

The inductive invariant is `CardInv(limit)`. Its core is `Good(c, passed, limit)`: the
fields of c are what the response says (`FieldsSaid`), exactly those of its
strings are in use that have passed every filter, and each stands in the data at
its offset with its NUL (`StringsSaid`, `HoldsAt`); a card whose strings were moved
together has not more data than they need. The card is good, and the file, if
there is one, is the record of a card that was moved together and is good (`Saved`); `TypeOK` and `StringsRight`
alone say nothing about the file, which a later program loads. The steps:

* `ParseIsRight`, `ParsedIsGood`: after n values of a response, a card holds the last
  value of each name among them (`FieldsUpTo`, `StringsUpTo`), and no later NUL falls into a text.
* `ShrinkIsGood`: moving the strings together keeps each, since what is packed only
  grows at its end.
* `LoadedIsGood`, `RecordFits`, `GoodLoads`: its record fits a frame, is read back, and
  what is loaded is good for the strings that pass the filter.
* `SavedIsShrunk`, `MovesOnce`: a card with a file has the mark of one that was moved (`IsShrunk`),
  which its record carries through a load, so that no save moves it again.
* `DeserializesMore`: a read that succeeds gives the same when more bytes follow, and
  leaves those. A prefix of a record that was accepted would therefore leave the
  rest of it when the whole is read; but nothing is left then (`RecordIsRead`).

### Notes on form

Recursion is written as recursive functions, of which the proofs show by
induction that they unfold (`ReadOffsetsSteps`, `ParseSteps`, `FlattenSeqSums`, `DigitsAddUp`). `Inductions` states the
induction about a set of numbers instead of a predicate.

Only model-checked: liveness under fairness (`QueryCompletes`, `WaitEnds`, `SetEnds`),
which is out of the prover's reach.

## Not modelled

* The tokenizer `jsmn.h` (vendored): a response is what it finds, or does not parse.
  Its limit of 1024 tokens is one way not to parse.
* The counters of a walk at their limits, and set codes longer than four
  characters, which `sfc_query_init_set` cuts.
* Failing `curl_easy_init` and `curl_multi_add_handle`: the NULL they make `http_get`
  return is used by the next poll. Failing allocation (asserted).
* A loss of power before what was written is on the disk: a crash in `Persistence` is one of the
  process, after which what was flushed to the system is in the file.
* The pointers of the linked lists, which are sequences here, and the slots that
  growing the id map leaks.
* A cardmarket id that is 0 or null in a response, for the id map: `CardData` has such
  cards, but the map asserts it is not given 0 (`sfc_card_map_uint32.c:110`).
* Records of 16 MiB and more; `SizeBytes` is what the code writes for them, no
  instance has one.
* Wrapping of time times rate in 64 bits; the timer is monotonic.
* `sfc_debug.c` and the two `debug_print` functions of `sfc_card.c`: output only.

## Plan

1. Hazards without a property yet: the counters of a walk at their limits, a card
   whose id could not be set in the map, a NULL from `http_get`.
2. A theorem that joins the modules: the word of a key that `SfcCache` prints into a URL is the one
   `CollectorNumber` packs.
