---------------------------- MODULE LocationCache ----------------------------
(***************************************************************************)
(* Telegram file locations, chunkSource.location and chunkSource.Chunk in  *)
(* internal/reader/tg_multi_reader.go: the chunk requests of several       *)
(* readers of the same part share one cache key.  A location carries a     *)
(* file_reference, which Telegram makes expire and which another bot than  *)
(* the one that obtained it may be refused.  Misses of one reader are      *)
(* serialized by its gate; a request holding it keeps its own context.     *)
(* The model is that of stream.location-cache = true, the default.         *)
(***************************************************************************)
EXTENDS FiniteSets

CONSTANTS
  Chunks,     \* concurrent chunk requests
  Sources,    \* readers of the part, each with its chunkSource
  Bots,       \* clients
  SourceOf,   \* SourceOf[c]: the reader of chunk request c
  BotOf,      \* BotOf[s]: the client of reader s
  Refs,       \* names for the references in use at the same time
  NoRef,      \* no location
  Free,       \* nobody holds the gate
  Expiry      \* whether references expire and cache entries are evicted

ASSUME ConstantAssumption ==
  /\ SourceOf \in [Chunks -> Sources] /\ BotOf \in [Sources -> Bots]
  /\ Bots # {}
  /\ NoRef \notin Refs /\ Free \notin Chunks /\ Expiry \in BOOLEAN

VARIABLES
  cache,      \* the location under the shared key, or NoRef
  refs,       \* refs[n]: the bot that obtained n, whether it expired, and the
              \* requests of its reader that were running when it was obtained
  last,       \* last[s]: lastLocation; refs[last[s]].during stands for lastLocationAt
  gate,       \* gate[s]: the request that holds locationGate
  pc,         \* pc[c]: idle, look, gate, inside, resolve, fetch
  loc,        \* loc[c]: the location request c works with, the stale one when it retries
  fromCache,  \* fromCache[c]: depuisCache
  retry       \* retry[c]: second call of location, with stale # nil

vars == <<cache, refs, last, gate, pc, loc, fromCache, retry>>

Of(c)  == SourceOf[c]
Bot(c) == BotOf[Of(c)]

\* A name that nothing refers to.
Unnamed == [by |-> CHOOSE b \in Bots : TRUE, expired |-> FALSE, during |-> {}]

InUse(n) == n = cache \/ (\E s \in Sources : last[s] = n) \/ (\E c \in Chunks : loc[c] = n)

\* The references after a step that leaves them as r: those out of use are forgotten.
References(r) == refs' = [n \in Refs |-> IF InUse(n)' THEN r[n] ELSE Unnamed]

Init ==
  /\ cache = NoRef
  /\ refs = [n \in Refs |-> Unnamed]
  /\ last = [s \in Sources |-> NoRef]
  /\ gate = [s \in Sources |-> Free]
  /\ pc = [c \in Chunks |-> "idle"]
  /\ loc = [c \in Chunks |-> NoRef]
  /\ fromCache = [c \in Chunks |-> FALSE]
  /\ retry = [c \in Chunks |-> FALSE]

\* started := time.Now()
Start(c) ==
  /\ pc[c] = "idle"
  /\ pc' = [pc EXCEPT ![c] = "look"]
  /\ UNCHANGED <<cache, refs, last, gate, loc, fromCache, retry>>

\* Mutant: the gate stays taken when its holder returns early.
KeepGate(c) == gate' = gate

\* defer func() { <-c.locationGate }()
ReleaseGate(c) == gate' = [gate EXCEPT ![Of(c)] = IF @ = c THEN Free ELSE @]

\* Mutant: a location stays behind in the request that returns.
ReturnKeeping(c) ==
  /\ pc' = [pc EXCEPT ![c] = "idle"]
  /\ fromCache' = [fromCache EXCEPT ![c] = FALSE]
  /\ retry' = [retry EXCEPT ![c] = FALSE]
  /\ ReleaseGate(c)
  /\ UNCHANGED <<cache, last, loc>>
  /\ References([n \in Refs |-> [refs[n] EXCEPT !.during = @ \ {c}]])

\* Chunk returns to its caller.
Return(c) ==
  /\ pc' = [pc EXCEPT ![c] = "idle"]
  /\ loc' = [loc EXCEPT ![c] = NoRef]
  /\ fromCache' = [fromCache EXCEPT ![c] = FALSE]
  /\ retry' = [retry EXCEPT ![c] = FALSE]
  /\ ReleaseGate(c)
  /\ UNCHANGED <<cache, last>>
  /\ References([n \in Refs |-> [refs[n] EXCEPT !.during = @ \ {c}]])

\* location returns n: fetch the chunk with it.
UseLocation(c, n, cached) ==
  /\ loc' = [loc EXCEPT ![c] = n]
  /\ fromCache' = [fromCache EXCEPT ![c] = cached]
  /\ pc' = [pc EXCEPT ![c] = "fetch"]
  /\ retry' = retry
  /\ ReleaseGate(c)

Goto(c, where) ==
  pc' = [pc EXCEPT ![c] = where] /\ UNCHANGED <<last, loc, fromCache, retry>>

\* First look at the shared cache, without the gate.
CacheHit(c) ==
  /\ pc[c] = "look" /\ cache /= NoRef
  /\ UseLocation(c, cache, TRUE)
  /\ UNCHANGED <<cache, refs, last>>

CacheMiss(c) ==
  /\ pc[c] = "look" /\ cache = NoRef
  /\ Goto(c, "gate")
  /\ UNCHANGED <<cache, refs, gate>>

\* Mutant: misses are not serialized.
EnterGateAlways(c) ==
  /\ pc[c] = "gate"
  /\ gate' = [gate EXCEPT ![Of(c)] = c]
  /\ Goto(c, "inside")
  /\ UNCHANGED <<cache, refs>>

EnterGate(c) ==
  /\ pc[c] = "gate" /\ gate[Of(c)] = Free
  /\ gate' = [gate EXCEPT ![Of(c)] = c]
  /\ Goto(c, "inside")
  /\ UNCHANGED <<cache, refs>>

\* Mutant: on a retry, any location of this reader other than the stale one will do.
ReusableAnyAge(c) ==
  IF retry[c] THEN (IF last[Of(c)] /= loc[c] THEN last[Of(c)] ELSE NoRef) ELSE cache

\* Mutant: the cache is not looked at again once inside the gate.
ReusableOnRetry(c) ==
  LET n == last[Of(c)] IN
  IF retry[c] /\ n /= NoRef /\ n /= loc[c] /\ c \in refs[n].during THEN n ELSE NoRef

\* Inside the gate: what another request has obtained in the meantime.  On a
\* retry only a location of this reader's own bot, newer than the request.
Reusable(c) ==
  LET n == last[Of(c)] IN
  IF ~retry[c] THEN cache
  ELSE IF n /= NoRef /\ n /= loc[c] /\ c \in refs[n].during THEN n ELSE NoRef

Reuse(c) ==
  /\ pc[c] = "inside" /\ Reusable(c) /= NoRef
  /\ UseLocation(c, Reusable(c), TRUE)
  /\ UNCHANGED <<cache, last>>
  /\ References(refs)

\* GetLocation is called; on a retry the cache entry is deleted first.
BeginResolve(c) ==
  /\ pc[c] = "inside" /\ Reusable(c) = NoRef
  /\ cache' = IF retry[c] THEN NoRef ELSE cache
  /\ Goto(c, "resolve")
  /\ gate' = gate
  /\ References(refs)

\* GetLocation answers with a new location, remembered by the reader and cached.
Resolved(c) ==
  /\ pc[c] = "resolve"
  /\ \E n \in {m \in Refs : ~InUse(m)} :
       /\ last' = [last EXCEPT ![Of(c)] = n]
       /\ cache' = n
       /\ UseLocation(c, n, FALSE)
       /\ References([refs EXCEPT ![n] =
            [by |-> Bot(c), expired |-> FALSE,
             during |-> {d \in Chunks : Of(d) = Of(c) /\ pc[d] /= "idle"}]])

\* The network call fails or its context ends, in GetLocation or in GetChunk.
CallFails(c) == pc[c] \in {"resolve", "fetch"} /\ Return(c)

\* The context of the request ends elsewhere: lines 70, 92 and 96.
Canceled(c) == pc[c] \in {"look", "gate", "inside"} /\ Return(c)

ChunkOk(c) == pc[c] = "fetch" /\ ~refs[loc[c]].expired /\ Return(c)

\* Telegram may refuse a reference that has expired or that another bot obtained.
Refused(c) == refs[loc[c]].expired \/ refs[loc[c]].by /= Bot(c)

\* Mutant: a reference error is final.
RetriesNever(c) == FALSE

\* A FILE_REFERENCE error is retried once, and only for a cached location.
Retries(c) == fromCache[c] /\ ~retry[c]

ReferenceRetry(c) ==
  /\ pc[c] = "fetch" /\ Refused(c) /\ Retries(c)
  /\ pc' = [pc EXCEPT ![c] = "gate"]
  /\ retry' = [retry EXCEPT ![c] = TRUE]
  /\ UNCHANGED <<cache, refs, last, gate, loc, fromCache>>

ReferenceError(c) == pc[c] = "fetch" /\ Refused(c) /\ ~Retries(c) /\ Return(c)

\* The environment: references expire, cache entries are evicted.
Expire(n) ==
  /\ Expiry /\ InUse(n) /\ ~refs[n].expired
  /\ refs' = [refs EXCEPT ![n].expired = TRUE]
  /\ UNCHANGED <<cache, last, gate, pc, loc, fromCache, retry>>

Evict ==
  /\ Expiry /\ cache /= NoRef
  /\ cache' = NoRef
  /\ UNCHANGED <<last, gate, pc, loc, fromCache, retry>>
  /\ References(refs)

------------------------------------------------------------------------------
Calls(c) == Resolved(c) \/ CallFails(c) \/ ChunkOk(c) \/ ReferenceRetry(c) \/ ReferenceError(c)

Request(c) ==
  \/ Start(c) \/ CacheHit(c) \/ CacheMiss(c) \/ EnterGate(c)
  \/ Reuse(c) \/ BeginResolve(c) \/ Calls(c) \/ Canceled(c)

Next ==
  \/ \E c \in Chunks : Request(c)
  \/ \E n \in Refs : Expire(n)
  \/ Evict

\* Every call of a request ends, by an answer or by the timeout of its chunk;
\* Go serves the senders waiting on a channel in their order of arrival.  A
\* context need not end.
Fairness ==
  \A c \in Chunks :
    /\ WF_vars(CacheHit(c) \/ CacheMiss(c) \/ Reuse(c) \/ BeginResolve(c) \/ Calls(c))
    /\ SF_vars(EnterGate(c))

Spec == Init /\ [][Next]_vars /\ Fairness

------------------------------------------------------------------------------
TypeOK ==
  /\ cache \in Refs \cup {NoRef}
  /\ refs \in [Refs -> [by : Bots, expired : BOOLEAN, during : SUBSET Chunks]]
  /\ last \in [Sources -> Refs \cup {NoRef}]
  /\ gate \in [Sources -> Chunks \cup {Free}]
  /\ pc \in [Chunks -> {"idle", "look", "gate", "inside", "resolve", "fetch"}]
  /\ loc \in [Chunks -> Refs \cup {NoRef}]
  /\ fromCache \in [Chunks -> BOOLEAN] /\ retry \in [Chunks -> BOOLEAN]
  /\ \A c \in Chunks : pc[c] = "idle" => loc[c] = NoRef /\ ~retry[c]

\* The gate is held exactly while its holder is inside, however it leaves: a
\* canceled or failed request does not keep it, and misses do not overlap.
GateDiscipline ==
  \A c \in Chunks : pc[c] \in {"inside", "resolve"} <=> gate[Of(c)] = c

\* The comment of location (lines 104-106): once a reference has been refused,
\* or when it did not come from the cache, the reader uses a reference obtained
\* by its own bot since the chunk request started.
OwnFreshReference ==
  \A c \in Chunks : pc[c] = "fetch" /\ (retry[c] \/ ~fromCache[c]) =>
    refs[loc[c]].by = Bot(c) /\ c \in refs[loc[c]].during

\* A FILE_REFERENCE error reaches the reader only when Telegram let a reference
\* expire that its own bot had obtained for this very request; a stale or
\* foreign cache entry alone never fails a chunk.
ReferenceErrorMeansExpiry ==
  [][\A c \in Chunks : ReferenceError(c) =>
       refs[loc[c]].expired /\ refs[loc[c]].by = Bot(c) /\ c \in refs[loc[c]].during]_vars

\* Without expiry or eviction the requests of one reader resolve the location
\* once between them (FORK_NOTES.md:30, "coalesces overlapping resolutions").
ResolvedOnce == [][cache /= NoRef => cache' = cache]_cache

\* A request that waits for the gate is served or gives up, even when the
\* requests before it are canceled (comment of location, lines 66-68).
WaitersServed == \A c \in Chunks : pc[c] = "gate" ~> pc[c] /= "gate"
==============================================================================
