------------------------- MODULE LocationCacheProofs -------------------------
(***************************************************************************)
(* The safety of the shared location cache, for any number of readers,     *)
(* bots and chunk requests.                                                *)
(*                                                                         *)
(* OwnFreshReference speaks of the location a request fetches with; where  *)
(* that location comes from on a retry is lastLocation of its reader, so   *)
(* the invariant has to say who obtained what lastLocation names, and in   *)
(* which phases of a request a retry can be under way at all.              *)
(***************************************************************************)
EXTENDS LocationCache, TLAPS

\* A reference in use: the bot that obtained it, and for which requests.
Reference == [by : Bots, expired : BOOLEAN, during : SUBSET Chunks]

\* What lastLocation of a reader names was obtained by the bot of that reader.
LastIsOwn == \A s \in Sources : last[s] # NoRef => refs[last[s]].by = BotOf[s]

\* A request fetches with a location, and retries only behind its first look at
\* the cache.
PhaseInv ==
  \A c \in Chunks :
    /\ pc[c] = "fetch" => loc[c] # NoRef
    /\ pc[c] = "look" => ~retry[c]

IInv == TypeOK /\ GateDiscipline /\ OwnFreshReference /\ LastIsOwn /\ PhaseInv

-----------------------------------------------------------------------------
\* A step that rewrites the references as r: those that stay in use are r's, those
\* that are forgotten are references again (References).
LEMMA ReferencesKeep ==
  ASSUME ConstantAssumption, NEW r \in [Refs -> Reference], References(r)
  PROVE  /\ refs' \in [Refs -> Reference]
         /\ \A n \in Refs : InUse(n)' => refs'[n] = r[n]
<1>1. refs' = [n \in Refs |-> IF InUse(n)' THEN r[n] ELSE Unnamed]
  BY DEF References
<1>2. Unnamed \in Reference
  BY DEF ConstantAssumption, Unnamed, Reference
<1> QED
  BY <1>1, <1>2

\* The references without the requests that return are references still, obtained by
\* the same bots and for the same other requests (Return).
LEMMA ForgetRequest ==
  ASSUME NEW r \in [Refs -> Reference], NEW c
  PROVE  LET f == [n \in Refs |-> [r[n] EXCEPT !.during = @ \ {c}]]
         IN  /\ f \in [Refs -> Reference]
             /\ \A n \in Refs : f[n].by = r[n].by /\ f[n].during = r[n].during \ {c}
<1> DEFINE f == [n \in Refs |-> [r[n] EXCEPT !.during = @ \ {c}]]
<1>1. ASSUME NEW n \in Refs
      PROVE  /\ f[n] \in Reference
             /\ f[n].by = r[n].by /\ f[n].during = r[n].during \ {c}
  <2>1. r[n] \in Reference
    OBVIOUS
  <2>2. f[n] = [r[n] EXCEPT !.during = @ \ {c}]
    OBVIOUS
  <2> QED
    BY <2>1, <2>2 DEF Reference
<1>2. f \in [Refs -> Reference]
  BY <1>1
<1> QED
  BY <1>1, <1>2

\* The references, for the lemmas above (TypeOK).
LEMMA RefsTyped == TypeOK => refs \in [Refs -> Reference]
  BY DEF TypeOK, Reference

-----------------------------------------------------------------------------
\* A request that returns (Chunk): it leaves the gate to the others and takes nothing
\* from the references that they use.
LEMMA ReturnStep ==
  ASSUME ConstantAssumption, IInv, NEW c \in Chunks, Return(c)
  PROVE  IInv'
<1> DEFINE f == [n \in Refs |-> [refs[n] EXCEPT !.during = @ \ {c}]]
<1>1. refs \in [Refs -> Reference]
  BY RefsTyped DEF IInv
<1>2. /\ f \in [Refs -> Reference]
      /\ \A n \in Refs : f[n].by = refs[n].by /\ f[n].during = refs[n].during \ {c}
  BY <1>1, ForgetRequest
<1>3. References(f)
  BY DEF Return
<1> HIDE DEF f
<1>4. /\ refs' \in [Refs -> Reference]
      /\ \A n \in Refs : InUse(n)' => refs'[n] = f[n]
  BY <1>2, <1>3, ReferencesKeep
<1>5. /\ cache' = cache /\ last' = last
      /\ pc' = [pc EXCEPT ![c] = "idle"]
      /\ loc' = [loc EXCEPT ![c] = NoRef]
      /\ fromCache' = [fromCache EXCEPT ![c] = FALSE]
      /\ retry' = [retry EXCEPT ![c] = FALSE]
      /\ gate' = [gate EXCEPT ![Of(c)] = IF @ = c THEN Free ELSE @]
  BY DEF Return, ReleaseGate
<1>6. TypeOK'
  BY <1>4, <1>5, RefsTyped DEF IInv, TypeOK, Reference
<1>7. GateDiscipline'
  BY <1>5 DEF IInv, TypeOK, GateDiscipline, ConstantAssumption, Of
<1>8. OwnFreshReference'
  <2> SUFFICES ASSUME NEW d \in Chunks, pc'[d] = "fetch", retry'[d] \/ ~fromCache'[d]
               PROVE  refs'[loc'[d]].by = Bot(d) /\ d \in refs'[loc'[d]].during
    BY DEF OwnFreshReference, Bot, Of
  <2>1. d # c /\ pc[d] = "fetch" /\ loc'[d] = loc[d] /\ (retry[d] \/ ~fromCache[d])
    BY <1>5 DEF IInv, TypeOK
  <2>2. loc[d] \in Refs
    BY <2>1 DEF IInv, TypeOK, PhaseInv
  <2>3. InUse(loc[d])'
    BY <2>1 DEF InUse
  <2>4. refs[loc[d]].by = Bot(d) /\ d \in refs[loc[d]].during
    BY <2>1 DEF IInv, OwnFreshReference
  <2> QED
    BY <1>2, <1>4, <2>1, <2>2, <2>3, <2>4
<1>9. LastIsOwn'
  <2> SUFFICES ASSUME NEW s \in Sources, last'[s] # NoRef
               PROVE  refs'[last'[s]].by = BotOf[s]
    BY DEF LastIsOwn
  <2>1. last[s] \in Refs /\ last'[s] = last[s] /\ refs[last[s]].by = BotOf[s]
    BY <1>5 DEF IInv, TypeOK, LastIsOwn
  <2>2. InUse(last[s])'
    BY <2>1 DEF InUse
  <2> QED
    BY <1>2, <1>4, <2>1, <2>2
<1>10. PhaseInv'
  BY <1>5 DEF IInv, TypeOK, PhaseInv
<1> QED
  BY <1>6, <1>7, <1>8, <1>9, <1>10 DEF IInv

\* A step that moves requests without touching what they or the readers remember,
\* and keeps the references in use: what was said of the references stays true, if no
\* request starts to fetch.
LEMMA KeepReferences ==
  ASSUME IInv, TypeOK',
         \A n \in Refs : InUse(n)' => refs'[n].by = refs[n].by /\ refs'[n].during = refs[n].during,
         last' = last, loc' = loc, fromCache' = fromCache,
         \A d \in Chunks : pc'[d] = "fetch" => pc[d] = "fetch" /\ retry'[d] = retry[d]
  PROVE  OwnFreshReference' /\ LastIsOwn'
<1>1. OwnFreshReference'
  <2> SUFFICES ASSUME NEW d \in Chunks, pc'[d] = "fetch", retry'[d] \/ ~fromCache'[d]
               PROVE  refs'[loc'[d]].by = Bot(d) /\ d \in refs'[loc'[d]].during
    BY DEF OwnFreshReference, Bot, Of
  <2>1. pc[d] = "fetch" /\ (retry[d] \/ ~fromCache[d])
    OBVIOUS
  <2>2. loc[d] \in Refs
    BY <2>1 DEF IInv, TypeOK, PhaseInv
  <2>3. InUse(loc[d])'
    BY DEF InUse
  <2> QED
    BY <2>1, <2>2, <2>3 DEF IInv, OwnFreshReference
<1>2. LastIsOwn'
  <2> SUFFICES ASSUME NEW s \in Sources, last'[s] # NoRef
               PROVE  refs'[last'[s]].by = BotOf[s]
    BY DEF LastIsOwn
  <2>1. last[s] \in Refs /\ refs[last[s]].by = BotOf[s]
    BY DEF IInv, TypeOK, LastIsOwn
  <2>2. InUse(last[s])'
    BY DEF InUse
  <2> QED
    BY <2>1, <2>2
<1> QED
  BY <1>1, <1>2


\* A request gets a location (UseLocation): it may fetch with n if n came from the
\* cache on its first try, or was obtained by its reader's bot during the request.
LEMMA UseStep ==
  ASSUME ConstantAssumption, IInv, NEW c \in Chunks, NEW n \in Refs, NEW cached \in BOOLEAN,
         pc[c] \in {"look", "inside", "resolve"},
         UseLocation(c, n, cached),
         cache' \in Refs \cup {NoRef}, last' \in [Sources -> Refs \cup {NoRef}],
         refs' \in [Refs -> Reference],
         retry[c] \/ ~cached => refs'[n].by = Bot(c) /\ c \in refs'[n].during,
         \A d \in Chunks : d # c /\ pc[d] = "fetch" =>
           /\ refs'[loc[d]].by = refs[loc[d]].by
           /\ refs'[loc[d]].during = refs[loc[d]].during
  PROVE  TypeOK' /\ GateDiscipline' /\ OwnFreshReference' /\ PhaseInv'
<1>1. /\ pc' = [pc EXCEPT ![c] = "fetch"]
      /\ loc' = [loc EXCEPT ![c] = n]
      /\ fromCache' = [fromCache EXCEPT ![c] = cached]
      /\ retry' = retry
      /\ gate' = [gate EXCEPT ![Of(c)] = IF @ = c THEN Free ELSE @]
  BY DEF UseLocation, ReleaseGate
<1>2. TypeOK'
  BY <1>1 DEF IInv, TypeOK, Reference
<1>3. GateDiscipline'
  BY <1>1 DEF IInv, TypeOK, GateDiscipline, ConstantAssumption, Of
<1>4. OwnFreshReference'
  <2> SUFFICES ASSUME NEW d \in Chunks, pc'[d] = "fetch", retry'[d] \/ ~fromCache'[d]
               PROVE  refs'[loc'[d]].by = Bot(d) /\ d \in refs'[loc'[d]].during
    BY DEF OwnFreshReference, Bot, Of
  <2>1. CASE d = c
    BY <1>1, <2>1 DEF IInv, TypeOK
  <2>2. CASE d # c
    <3>1. pc[d] = "fetch" /\ loc'[d] = loc[d] /\ (retry[d] \/ ~fromCache[d])
      BY <1>1, <2>2 DEF IInv, TypeOK
    <3> QED
      BY <2>2, <3>1 DEF IInv, OwnFreshReference
  <2> QED
    BY <2>1, <2>2
<1>5. PhaseInv'
  BY <1>1 DEF IInv, TypeOK, PhaseInv, ConstantAssumption
<1> QED
  BY <1>2, <1>3, <1>4, <1>5

\* The first look finds a location (lines 84-89).
LEMMA CacheHitStep ==
  ASSUME ConstantAssumption, IInv, NEW c \in Chunks, CacheHit(c)
  PROVE  IInv'
<1>1. /\ pc[c] = "look" /\ cache \in Refs
      /\ UseLocation(c, cache, TRUE)
      /\ cache' = cache /\ refs' = refs /\ last' = last
  BY DEF CacheHit, IInv, TypeOK
<1>2. ~retry[c]
  BY <1>1 DEF IInv, PhaseInv
<1>3. TypeOK' /\ GateDiscipline' /\ OwnFreshReference' /\ PhaseInv'
  <2>1. refs' \in [Refs -> Reference]
    BY <1>1, RefsTyped DEF IInv
  <2>2. cache' \in Refs \cup {NoRef} /\ last' \in [Sources -> Refs \cup {NoRef}]
    BY <1>1 DEF IInv, TypeOK
  <2> QED
    BY <1>1, <1>2, <2>1, <2>2, UseStep
<1>4. LastIsOwn'
  BY <1>1 DEF IInv, LastIsOwn
<1> QED
  BY <1>3, <1>4 DEF IInv

\* What another request obtained in the meantime is used (lines 98-120).
LEMMA ReuseStep ==
  ASSUME ConstantAssumption, IInv, NEW c \in Chunks, Reuse(c)
  PROVE  IInv'
<1>0. PICK n : n = Reusable(c)
  OBVIOUS
<1>1. /\ pc[c] = "inside"
      /\ UseLocation(c, n, TRUE)
      /\ cache' = cache /\ last' = last
      /\ References(refs)
  BY <1>0 DEF Reuse
<1>2. Of(c) \in Sources
  BY DEF Of, ConstantAssumption
<1>3. n \in Refs
  BY <1>0, <1>2 DEF Reuse, Reusable, IInv, TypeOK
<1>4. retry[c] => refs[n].by = Bot(c) /\ c \in refs[n].during
  BY <1>0, <1>2, <1>3 DEF Reuse, Reusable, IInv, TypeOK, LastIsOwn, Bot
<1>5. refs \in [Refs -> Reference]
  BY RefsTyped DEF IInv
<1>6. /\ refs' \in [Refs -> Reference]
      /\ \A m \in Refs : InUse(m)' => refs'[m] = refs[m]
  BY <1>1, <1>5, ReferencesKeep
<1>7. loc' = [loc EXCEPT ![c] = n]
  BY <1>1 DEF UseLocation
<1>8. TypeOK' /\ GateDiscipline' /\ OwnFreshReference' /\ PhaseInv'
  <2>1. refs'[n] = refs[n]
    <3>1. loc'[c] = n
      BY <1>7 DEF IInv, TypeOK
    <3>2. InUse(n)'
      BY <3>1 DEF InUse
    <3> QED
      BY <1>3, <1>6, <3>2
  <2>2. ASSUME NEW d \in Chunks, d # c, pc[d] = "fetch"
        PROVE  refs'[loc[d]] = refs[loc[d]]
    <3>1. loc[d] \in Refs /\ loc'[d] = loc[d]
      BY <1>7, <2>2 DEF IInv, TypeOK, PhaseInv
    <3>2. InUse(loc[d])'
      BY <3>1 DEF InUse
    <3> QED
      BY <1>6, <3>1, <3>2
  <2>3. cache' \in Refs \cup {NoRef} /\ last' \in [Sources -> Refs \cup {NoRef}]
    BY <1>1 DEF IInv, TypeOK
  <2> QED
    BY <1>1, <1>3, <1>4, <1>6, <2>1, <2>2, <2>3, UseStep
<1>9. LastIsOwn'
  <2> SUFFICES ASSUME NEW s \in Sources, last'[s] # NoRef
               PROVE  refs'[last'[s]].by = BotOf[s]
    BY DEF LastIsOwn
  <2>1. last[s] \in Refs /\ last'[s] = last[s] /\ refs[last[s]].by = BotOf[s]
    BY <1>1 DEF IInv, TypeOK, LastIsOwn
  <2>2. InUse(last[s])'
    BY <2>1 DEF InUse
  <2> QED
    BY <1>6, <2>1, <2>2
<1> QED
  BY <1>8, <1>9 DEF IInv

\* GetLocation answers: nothing referred to the name of the new location before, and
\* its reader's bot obtained it for every request under way, this one included.
LEMMA ResolvedStep ==
  ASSUME ConstantAssumption, IInv, NEW c \in Chunks, Resolved(c)
  PROVE  IInv'
<1>1. PICK n \in {m \in Refs : ~InUse(m)} :
        /\ last' = [last EXCEPT ![Of(c)] = n]
        /\ cache' = n
        /\ UseLocation(c, n, FALSE)
        /\ References([refs EXCEPT ![n] =
             [by |-> Bot(c), expired |-> FALSE,
              during |-> {d \in Chunks : Of(d) = Of(c) /\ pc[d] /= "idle"}]])
  BY DEF Resolved
<1> DEFINE new == [by |-> Bot(c), expired |-> FALSE,
                   during |-> {d \in Chunks : Of(d) = Of(c) /\ pc[d] /= "idle"}]
           r == [refs EXCEPT ![n] = new]
<1>2. pc[c] = "resolve" /\ Of(c) \in Sources /\ Bot(c) \in Bots
  BY DEF Resolved, Of, Bot, ConstantAssumption
<1>3. new \in Reference /\ new.by = Bot(c) /\ c \in new.during
  BY <1>2 DEF Reference
<1>4. References(r)
  BY <1>1
<1> HIDE DEF new
<1>5. refs \in [Refs -> Reference]
  BY RefsTyped DEF IInv
<1>6. r \in [Refs -> Reference] /\ r[n] = new /\ \A m \in Refs : m # n => r[m] = refs[m]
  BY <1>3, <1>5
<1> HIDE DEF r
<1>7. /\ refs' \in [Refs -> Reference]
      /\ \A m \in Refs : InUse(m)' => refs'[m] = r[m]
  BY <1>4, <1>6, ReferencesKeep
<1>8. loc' = [loc EXCEPT ![c] = n]
  BY <1>1 DEF UseLocation
<1>9. refs'[n] = new
  <2>1. InUse(n)'
    BY <1>1 DEF InUse
  <2> QED
    BY <1>6, <1>7, <2>1
<1>10. TypeOK' /\ GateDiscipline' /\ OwnFreshReference' /\ PhaseInv'
  <2>1. ASSUME NEW d \in Chunks, d # c, pc[d] = "fetch"
        PROVE  refs'[loc[d]] = refs[loc[d]]
    <3>1. loc[d] \in Refs /\ loc'[d] = loc[d]
      BY <1>8, <2>1 DEF IInv, TypeOK, PhaseInv
    <3>2. InUse(loc[d])' /\ loc[d] # n
      BY <3>1, <1>1 DEF InUse
    <3> QED
      BY <1>6, <1>7, <3>1, <3>2
  <2>2. cache' \in Refs \cup {NoRef} /\ last' \in [Sources -> Refs \cup {NoRef}]
    BY <1>1, <1>2 DEF IInv, TypeOK
  <2> QED
    BY <1>1, <1>2, <1>3, <1>7, <1>9, <2>1, <2>2, UseStep
<1>11. LastIsOwn'
  <2> SUFFICES ASSUME NEW s \in Sources, last'[s] # NoRef
               PROVE  refs'[last'[s]].by = BotOf[s]
    BY DEF LastIsOwn
  <2>1. CASE s = Of(c)
    <3>1. last'[s] = n
      BY <1>1, <1>2, <2>1 DEF IInv, TypeOK
    <3> QED
      BY <1>3, <1>9, <2>1, <3>1 DEF Bot
  <2>2. CASE s # Of(c)
    <3>1. last[s] \in Refs /\ last'[s] = last[s] /\ refs[last[s]].by = BotOf[s]
      BY <1>1, <2>2 DEF IInv, TypeOK, LastIsOwn
    <3>2. InUse(last[s])' /\ last[s] # n
      BY <1>1, <3>1 DEF InUse
    <3> QED
      BY <1>6, <1>7, <3>1, <3>2
  <2> QED
    BY <2>1, <2>2
<1> QED
  BY <1>10, <1>11 DEF IInv


-----------------------------------------------------------------------------
\* The steps of one request.
LEMMA RequestStep ==
  ASSUME ConstantAssumption, IInv, NEW c \in Chunks, Request(c)
  PROVE  IInv'
<1>1. CASE Start(c)
  <2>1. /\ pc[c] = "idle" /\ pc' = [pc EXCEPT ![c] = "look"]
        /\ cache' = cache /\ refs' = refs /\ last' = last /\ gate' = gate
        /\ loc' = loc /\ fromCache' = fromCache /\ retry' = retry
    BY <1>1 DEF Start
  <2>2. TypeOK'
    BY <2>1 DEF IInv, TypeOK
  <2>3. GateDiscipline'
    BY <2>1 DEF IInv, TypeOK, GateDiscipline, Of
  <2>4. OwnFreshReference' /\ LastIsOwn'
    BY <2>1, <2>2, KeepReferences DEF IInv, TypeOK
  <2>5. PhaseInv'
    BY <2>1 DEF IInv, TypeOK, PhaseInv
  <2> QED
    BY <2>2, <2>3, <2>4, <2>5 DEF IInv
<1>2. CASE CacheHit(c)
  BY <1>2, CacheHitStep
<1>3. CASE CacheMiss(c)
  <2>1. /\ pc[c] = "look" /\ pc' = [pc EXCEPT ![c] = "gate"]
        /\ cache' = cache /\ refs' = refs /\ last' = last /\ gate' = gate
        /\ loc' = loc /\ fromCache' = fromCache /\ retry' = retry
    BY <1>3 DEF CacheMiss, Goto
  <2>2. TypeOK'
    BY <2>1 DEF IInv, TypeOK
  <2>3. GateDiscipline'
    BY <2>1 DEF IInv, TypeOK, GateDiscipline, Of
  <2>4. OwnFreshReference' /\ LastIsOwn'
    BY <2>1, <2>2, KeepReferences DEF IInv, TypeOK
  <2>5. PhaseInv'
    BY <2>1 DEF IInv, TypeOK, PhaseInv
  <2> QED
    BY <2>2, <2>3, <2>4, <2>5 DEF IInv
<1>4. CASE EnterGate(c)
  <2>1. /\ pc[c] = "gate" /\ pc' = [pc EXCEPT ![c] = "inside"]
        /\ gate[Of(c)] = Free /\ gate' = [gate EXCEPT ![Of(c)] = c]
        /\ cache' = cache /\ refs' = refs /\ last' = last
        /\ loc' = loc /\ fromCache' = fromCache /\ retry' = retry
    BY <1>4 DEF EnterGate, Goto
  <2>2. TypeOK'
    BY <2>1 DEF IInv, TypeOK
  <2>3. GateDiscipline'
    \* The gate was free: none of its requests was inside.
    BY <2>1 DEF IInv, TypeOK, GateDiscipline, ConstantAssumption, Of
  <2>4. OwnFreshReference' /\ LastIsOwn'
    BY <2>1, <2>2, KeepReferences DEF IInv, TypeOK
  <2>5. PhaseInv'
    BY <2>1 DEF IInv, TypeOK, PhaseInv
  <2> QED
    BY <2>2, <2>3, <2>4, <2>5 DEF IInv
<1>5. CASE Reuse(c)
  BY <1>5, ReuseStep
<1>6. CASE BeginResolve(c)
  <2>1. /\ pc[c] = "inside" /\ pc' = [pc EXCEPT ![c] = "resolve"]
        /\ cache' \in {NoRef, cache} /\ last' = last /\ gate' = gate
        /\ loc' = loc /\ fromCache' = fromCache /\ retry' = retry
        /\ References(refs)
    BY <1>6 DEF BeginResolve, Goto
  <2>2. /\ refs' \in [Refs -> Reference]
        /\ \A n \in Refs : InUse(n)' => refs'[n] = refs[n]
    BY <2>1, RefsTyped, ReferencesKeep DEF IInv
  <2>3. TypeOK'
    BY <2>1, <2>2 DEF IInv, TypeOK, Reference
  <2>4. GateDiscipline'
    BY <2>1 DEF IInv, TypeOK, GateDiscipline, Of
  <2>5. OwnFreshReference' /\ LastIsOwn'
    BY <2>1, <2>2, <2>3, KeepReferences DEF IInv, TypeOK
  <2>6. PhaseInv'
    BY <2>1 DEF IInv, TypeOK, PhaseInv
  <2> QED
    BY <2>3, <2>4, <2>5, <2>6 DEF IInv
<1>7. CASE Resolved(c)
  BY <1>7, ResolvedStep
<1>8. CASE CallFails(c) \/ ChunkOk(c) \/ ReferenceError(c) \/ Canceled(c)
  BY <1>8, ReturnStep DEF CallFails, ChunkOk, ReferenceError, Canceled
<1>9. CASE ReferenceRetry(c)
  <2>1. /\ pc[c] = "fetch" /\ pc' = [pc EXCEPT ![c] = "gate"]
        /\ retry' = [retry EXCEPT ![c] = TRUE]
        /\ cache' = cache /\ refs' = refs /\ last' = last /\ gate' = gate
        /\ loc' = loc /\ fromCache' = fromCache
    BY <1>9 DEF ReferenceRetry
  <2>2. TypeOK'
    BY <2>1 DEF IInv, TypeOK
  <2>3. GateDiscipline'
    BY <2>1 DEF IInv, TypeOK, GateDiscipline, Of
  <2>4. OwnFreshReference' /\ LastIsOwn'
    BY <2>1, <2>2, KeepReferences DEF IInv, TypeOK
  <2>5. PhaseInv'
    BY <2>1 DEF IInv, TypeOK, PhaseInv
  <2> QED
    BY <2>2, <2>3, <2>4, <2>5 DEF IInv
<1> QED
  BY <1>1, <1>2, <1>3, <1>4, <1>5, <1>6, <1>7, <1>8, <1>9 DEF Request, Calls

\* The environment: it marks references and forgets the cache entry, and moves nobody.
LEMMA EnvironmentStep ==
  ASSUME ConstantAssumption, IInv, (\E n \in Refs : Expire(n)) \/ Evict
  PROVE  IInv'
<1>1. ASSUME NEW n \in Refs, Expire(n)
      PROVE  IInv'
  <2>1. /\ refs' = [refs EXCEPT ![n].expired = TRUE]
        /\ cache' = cache /\ last' = last /\ gate' = gate /\ pc' = pc
        /\ loc' = loc /\ fromCache' = fromCache /\ retry' = retry
    BY <1>1 DEF Expire
  <2>2. /\ refs' \in [Refs -> Reference]
        /\ \A m \in Refs : refs'[m].by = refs[m].by /\ refs'[m].during = refs[m].during
    BY <2>1, RefsTyped DEF IInv, Reference
  <2>3. TypeOK'
    BY <2>1, <2>2 DEF IInv, TypeOK, Reference
  <2>4. OwnFreshReference' /\ LastIsOwn'
    BY <2>1, <2>2, <2>3, KeepReferences
  <2> QED
    BY <2>1, <2>3, <2>4 DEF IInv, GateDiscipline, PhaseInv
<1>2. ASSUME Evict
      PROVE  IInv'
  <2>1. /\ cache' = NoRef /\ last' = last /\ gate' = gate /\ pc' = pc
        /\ loc' = loc /\ fromCache' = fromCache /\ retry' = retry
        /\ References(refs)
    BY <1>2 DEF Evict
  <2>2. /\ refs' \in [Refs -> Reference]
        /\ \A n \in Refs : InUse(n)' => refs'[n] = refs[n]
    BY <2>1, RefsTyped, ReferencesKeep DEF IInv
  <2>3. TypeOK'
    BY <2>1, <2>2 DEF IInv, TypeOK, Reference
  <2>4. OwnFreshReference' /\ LastIsOwn'
    BY <2>1, <2>2, <2>3, KeepReferences
  <2> QED
    BY <2>1, <2>3, <2>4 DEF IInv, GateDiscipline, PhaseInv
<1> QED
  BY <1>1, <1>2

-----------------------------------------------------------------------------
\* The invariant holds of every behaviour of the shared cache (chunkSource).
THEOREM LocationInvariance == Spec => []IInv
<1>1. Init => IInv
  <2> SUFFICES ASSUME Init PROVE IInv
    OBVIOUS
  <2>1. TypeOK
    BY ConstantAssumption DEF Init, TypeOK, Unnamed, ConstantAssumption
  <2>2. GateDiscipline /\ OwnFreshReference /\ LastIsOwn /\ PhaseInv
    BY ConstantAssumption DEF Init, GateDiscipline, OwnFreshReference, LastIsOwn, PhaseInv,
       ConstantAssumption, Of
  <2> QED
    BY <2>1, <2>2 DEF IInv
<1>2. IInv /\ [Next]_vars => IInv'
  <2> SUFFICES ASSUME IInv, [Next]_vars PROVE IInv'
    OBVIOUS
  <2>1. CASE \E c \in Chunks : Request(c)
    BY <2>1, ConstantAssumption, RequestStep
  <2>2. CASE (\E n \in Refs : Expire(n)) \/ Evict
    BY <2>2, ConstantAssumption, EnvironmentStep
  <2>3. CASE UNCHANGED vars
    BY <2>3 DEF vars, IInv, TypeOK, GateDiscipline, OwnFreshReference, LastIsOwn, PhaseInv
  <2> QED
    BY <2>1, <2>2, <2>3 DEF Next
<1> QED
  BY <1>1, <1>2, PTL DEF Spec

\* The variables keep their types, and a request that is not under way keeps nothing.
THEOREM LocationTypes == Spec => []TypeOK
<1>1. IInv => TypeOK
  BY DEF IInv
<1> QED
  BY <1>1, LocationInvariance, PTL

\* The gate is held exactly while its holder is inside (location, lines 90-97), for any
\* number of requests that are canceled or fail.
THEOREM GateHeldInside == Spec => []GateDiscipline
<1>1. IInv => GateDiscipline
  BY DEF IInv
<1> QED
  BY <1>1, LocationInvariance, PTL

\* A request that fetches a second time, or without a cached location, uses a reference
\* its reader's own bot obtained since the request started (lines 104-106).
THEOREM RetryUsesOwnReference == Spec => []OwnFreshReference
<1>1. IInv => OwnFreshReference
  BY DEF IInv
<1> QED
  BY <1>1, LocationInvariance, PTL

\* A stale or foreign cache entry alone never fails a chunk: when Chunk gives up on a
\* reference error, its own bot's reference has expired within the request.
THEOREM ForeignEntryNeverFatal == Spec => ReferenceErrorMeansExpiry
<1>1. IInv /\ [Next]_vars =>
        [\A c \in Chunks : ReferenceError(c) =>
           refs[loc[c]].expired /\ refs[loc[c]].by = Bot(c) /\ c \in refs[loc[c]].during]_vars
  <2> SUFFICES ASSUME IInv, NEW c \in Chunks, ReferenceError(c)
               PROVE  refs[loc[c]].expired /\ refs[loc[c]].by = Bot(c) /\ c \in refs[loc[c]].during
    OBVIOUS
  <2>1. pc[c] = "fetch" /\ Refused(c) /\ (retry[c] \/ ~fromCache[c])
    BY DEF ReferenceError, Retries
  <2>2. refs[loc[c]].by = Bot(c) /\ c \in refs[loc[c]].during
    BY <2>1 DEF IInv, OwnFreshReference
  <2> QED
    BY <2>1, <2>2 DEF Refused
<1> QED
  BY <1>1, LocationInvariance, PTL DEF Spec, ReferenceErrorMeansExpiry
=============================================================================
