-------------------------- MODULE ClientCacheProofs --------------------------
(***************************************************************************)
(* The safety of the cache of live clients, for any number of requests and *)
(* of generations.                                                         *)
(*                                                                         *)
(* What keeps a replacement from being dropped is that drop compares the   *)
(* entry; why an entry may be dropped at all is in the request that is     *)
(* about to do it: it created the entry and ran out of time, or it was     *)
(* told that the client failed.                                            *)
(***************************************************************************)
EXTENDS ClientCache, TLAPS

\* A caller that did not create the entry drops it only after its failure.
DropInv ==
  \A r \in Requests : pc[r] = "drop" /\ ~creator[r] => ready[holds[r]] = "err"

IInv == TypeOK /\ NoOrphanClient /\ AuthorizedUse /\ NoDeadEntry /\ DropInv

-----------------------------------------------------------------------------
\* A request that enters GetLiveClient joins the entry of the map, or puts a new one
\* there, whose goroutine has not ended.
LEMMA EnterStep ==
  ASSUME NameAssumption, IInv, NEW r \in Requests,
         JoinExisting(r) \/ CreateClient(r)
  PROVE  IInv'
<1>1. CASE JoinExisting(r)
  <2>1. TypeOK'
    BY <1>1 DEF JoinExisting, runVars, IInv, TypeOK
  <2>2. NoOrphanClient'
    BY <1>1 DEF JoinExisting, runVars, IInv, TypeOK, NoOrphanClient, Running
  <2>3. AuthorizedUse'
    BY <1>1 DEF JoinExisting, runVars, IInv, TypeOK, AuthorizedUse
  <2>4. NoDeadEntry'
    BY <1>1 DEF JoinExisting, runVars, IInv, TypeOK, NoDeadEntry
  <2>5. DropInv'
    BY <1>1 DEF JoinExisting, runVars, IInv, TypeOK, DropInv
  <2> QED
    BY <2>1, <2>2, <2>3, <2>4, <2>5 DEF IInv
<1>2. CASE CreateClient(r)
  <2>1. TypeOK'
    BY <1>2 DEF CreateClient, IInv, TypeOK
  <2>2. NoOrphanClient'
    BY <1>2 DEF CreateClient, IInv, TypeOK, NoOrphanClient, Running
  <2>3. AuthorizedUse'
    BY <1>2 DEF CreateClient, IInv, TypeOK, AuthorizedUse
  <2>4. NoDeadEntry'
    BY <1>2 DEF CreateClient, IInv, TypeOK, NoDeadEntry
  <2>5. DropInv'
    BY <1>2 DEF CreateClient, IInv, TypeOK, DropInv
  <2> QED
    BY <2>1, <2>2, <2>3, <2>4, <2>5 DEF IInv
<1> QED
  BY <1>1, <1>2

\* A request that goes on and leaves the map and the goroutines alone: it may use a
\* client that is ready, and drop one that failed or that it created itself.
LEMMA RequestGoesOn ==
  ASSUME NameAssumption, IInv, NEW r \in Requests, pc[r] \notin {"idle", "cancel"},
         UNCHANGED <<mapVars, runVars, canceled, doomed>>,
         \/ Return(r)
         \/ Goto(r, "using") /\ ready[holds[r]] = "ok"
         \/ Goto(r, "drop") /\ (creator[r] \/ ready[holds[r]] = "err")
  PROVE  IInv'
<1>1. /\ slot' = slot /\ idle' = idle /\ run' = run /\ ready' = ready
      /\ canceled' = canceled /\ doomed' = doomed
  BY DEF mapVars, runVars
<1>2. CASE Return(r)
  <2>1. TypeOK' /\ AuthorizedUse' /\ DropInv'
    BY <1>1, <1>2 DEF Return, IInv, TypeOK, AuthorizedUse, DropInv
  <2>2. NoOrphanClient' /\ NoDeadEntry'
    BY <1>1, <1>2 DEF Return, IInv, TypeOK, NoOrphanClient, Running, NoDeadEntry
  <2> QED
    BY <2>1, <2>2 DEF IInv
<1>3. ASSUME NEW where \in {"using", "drop"}, Goto(r, where),
             where = "using" => ready[holds[r]] = "ok",
             where = "drop" => creator[r] \/ ready[holds[r]] = "err"
      PROVE  IInv'
  <2>1. pc' = [pc EXCEPT ![r] = where] /\ holds' = holds /\ creator' = creator
    BY <1>3 DEF Goto
  <2>2. TypeOK'
    BY <1>1, <2>1 DEF IInv, TypeOK
  <2>3. AuthorizedUse' /\ DropInv'
    BY <1>1, <1>3, <2>1 DEF IInv, TypeOK, AuthorizedUse, DropInv
  <2>4. NoOrphanClient' /\ NoDeadEntry'
    BY <1>1, <2>1 DEF IInv, TypeOK, NoOrphanClient, Running, NoDeadEntry
  <2> QED
    BY <2>2, <2>3, <2>4 DEF IInv
<1> QED
  BY <1>2, <1>3

\* A request that waits gets its client, learns that it failed, or gives up; one that
\* used it is done.
LEMMA WaitStep ==
  ASSUME NameAssumption, IInv, NEW r \in Requests,
         ClientReady(r) \/ ClientFailed(r) \/ ReadyTimeout(r) \/ RequestCanceled(r) \/ FinishUse(r)
  PROVE  IInv'
<1>1. pc[r] \in {"wait", "using"} /\ UNCHANGED <<mapVars, runVars, canceled, doomed>>
  BY DEF ClientReady, ClientFailed, ReadyTimeout, RequestCanceled, FinishUse
<1>2. \/ Return(r)
      \/ Goto(r, "using") /\ ready[holds[r]] = "ok"
      \/ Goto(r, "drop") /\ (creator[r] \/ ready[holds[r]] = "err")
  BY DEF ClientReady, ClientFailed, ReadyTimeout, RequestCanceled, FinishUse
<1> QED
  BY <1>1, <1>2, RequestGoesOn

\* drop, by a request: whoever takes the entry out of the map cancels it next.
LEMMA DropStep ==
  ASSUME NameAssumption, IInv, NEW r \in Requests,
         DropEntry(r) \/ CancelEntry(r)
  PROVE  IInv'
<1>1. CASE DropEntry(r)
  <2>1. TypeOK'
    <3>1. CASE slot' = slot
      <4>1. Return(r) /\ UNCHANGED <<slot, idle, run, ready, canceled, doomed>>
        BY <1>1, <3>1 DEF DropEntry, runVars
      <4> QED
        BY <4>1, NameAssumption DEF Return, IInv, TypeOK
    <3>2. CASE slot' # slot
      <4>1. Goto(r, "cancel") /\ slot' = None /\ pc[r] = "drop"
        BY <1>1, <3>2 DEF DropEntry, Delete
      <4>2. UNCHANGED <<idle, run, ready, canceled, doomed>>
        BY <1>1 DEF DropEntry, runVars
      <4> QED
        BY <4>1, <4>2, NameAssumption DEF Goto, IInv, TypeOK
    <3> QED
      BY <3>1, <3>2
  <2>2. NoOrphanClient'
    BY <1>1 DEF DropEntry, Delete, Goto, Return, runVars, IInv, TypeOK, NoOrphanClient, Running
  <2>3. AuthorizedUse'
    BY <1>1 DEF DropEntry, Goto, Return, runVars, IInv, TypeOK, AuthorizedUse
  <2>4. NoDeadEntry'
    BY <1>1 DEF DropEntry, Delete, runVars, IInv, TypeOK, NoDeadEntry
  <2>5. DropInv'
    BY <1>1 DEF DropEntry, Goto, Return, runVars, IInv, TypeOK, DropInv
  <2> QED
    BY <2>1, <2>2, <2>3, <2>4, <2>5 DEF IInv
<1>2. CASE CancelEntry(r)
  <2>1. TypeOK'
    BY <1>2 DEF CancelEntry, Return, mapVars, runVars, IInv, TypeOK
  <2>2. NoOrphanClient'
    BY <1>2 DEF CancelEntry, Return, mapVars, runVars, IInv, TypeOK, NoOrphanClient, Running
  <2>3. AuthorizedUse'
    BY <1>2 DEF CancelEntry, Return, runVars, IInv, TypeOK, AuthorizedUse
  <2>4. NoDeadEntry'
    BY <1>2 DEF CancelEntry, mapVars, runVars, IInv, TypeOK, NoDeadEntry
  <2>5. DropInv'
    BY <1>2 DEF CancelEntry, Return, runVars, IInv, TypeOK, DropInv
  <2> QED
    BY <2>1, <2>2, <2>3, <2>4, <2>5 DEF IInv
<1> QED
  BY <1>1, <1>2

\* The goroutine of a generation: its verdict is the first one, and it ends after its
\* entry has left the map.
LEMMA GoroutineStep ==
  ASSUME NameAssumption, IInv, NEW g \in Gens,
         Authorized(g) \/ AuthorizationFails(g) \/ RunReturns(g) \/ SignalEnd(g) \/ DropOwn(g)
  PROVE  IInv'
<1>1. CASE Authorized(g)
  <2>1. TypeOK'
    BY <1>1 DEF Authorized, signalReady, mapVars, reqVars, IInv, TypeOK
  <2>2. NoOrphanClient'
    BY <1>1 DEF Authorized, mapVars, reqVars, IInv, TypeOK, NoOrphanClient, Running
  <2>3. AuthorizedUse'
    BY <1>1 DEF Authorized, signalReady, reqVars, IInv, TypeOK, AuthorizedUse
  <2>4. NoDeadEntry'
    BY <1>1 DEF Authorized, mapVars, IInv, TypeOK, NoDeadEntry
  <2>5. DropInv'
    BY <1>1 DEF Authorized, signalReady, reqVars, IInv, TypeOK, DropInv
  <2> QED
    BY <2>1, <2>2, <2>3, <2>4, <2>5 DEF IInv
<1>2. CASE AuthorizationFails(g)
  <2>1. TypeOK'
    BY <1>2 DEF AuthorizationFails, signalReady, mapVars, reqVars, IInv, TypeOK
  <2>2. NoOrphanClient'
    BY <1>2 DEF AuthorizationFails, mapVars, reqVars, IInv, TypeOK, NoOrphanClient, Running
  <2>3. AuthorizedUse'
    BY <1>2 DEF AuthorizationFails, signalReady, reqVars, IInv, TypeOK, AuthorizedUse
  <2>4. NoDeadEntry'
    BY <1>2 DEF AuthorizationFails, mapVars, IInv, TypeOK, NoDeadEntry
  <2>5. DropInv'
    BY <1>2 DEF AuthorizationFails, signalReady, reqVars, IInv, TypeOK, DropInv
  <2> QED
    BY <2>1, <2>2, <2>3, <2>4, <2>5 DEF IInv
<1>3. CASE RunReturns(g)
  <2>1. TypeOK'
    BY <1>3 DEF RunReturns, mapVars, reqVars, IInv, TypeOK
  <2>2. NoOrphanClient'
    BY <1>3 DEF RunReturns, Running, mapVars, reqVars, IInv, TypeOK, NoOrphanClient
  <2>3. AuthorizedUse'
    BY <1>3 DEF RunReturns, reqVars, IInv, TypeOK, AuthorizedUse
  <2>4. NoDeadEntry'
    BY <1>3 DEF RunReturns, mapVars, IInv, TypeOK, NoDeadEntry
  <2>5. DropInv'
    BY <1>3 DEF RunReturns, reqVars, IInv, TypeOK, DropInv
  <2> QED
    BY <2>1, <2>2, <2>3, <2>4, <2>5 DEF IInv
<1>4. CASE SignalEnd(g)
  <2>1. TypeOK'
    BY <1>4 DEF SignalEnd, signalReady, mapVars, reqVars, IInv, TypeOK
  <2>2. NoOrphanClient'
    BY <1>4 DEF SignalEnd, mapVars, reqVars, IInv, TypeOK, NoOrphanClient, Running
  <2>3. AuthorizedUse'
    BY <1>4 DEF SignalEnd, signalReady, reqVars, IInv, TypeOK, AuthorizedUse
  <2>4. NoDeadEntry'
    BY <1>4 DEF SignalEnd, mapVars, IInv, TypeOK, NoDeadEntry
  <2>5. DropInv'
    BY <1>4 DEF SignalEnd, signalReady, reqVars, IInv, TypeOK, DropInv
  <2> QED
    BY <2>1, <2>2, <2>3, <2>4, <2>5 DEF IInv
<1>5. CASE DropOwn(g)
  <2>1. TypeOK'
    BY <1>5 DEF DropOwn, Delete, reqVars, IInv, TypeOK
  <2>2. NoOrphanClient'
    BY <1>5 DEF DropOwn, Delete, reqVars, IInv, TypeOK, NoOrphanClient, Running
  <2>3. AuthorizedUse'
    BY <1>5 DEF DropOwn, reqVars, IInv, TypeOK, AuthorizedUse
  <2>4. NoDeadEntry'
    BY <1>5 DEF DropOwn, Delete, IInv, TypeOK, NoDeadEntry
  <2>5. DropInv'
    BY <1>5 DEF DropOwn, reqVars, IInv, TypeOK, DropInv
  <2> QED
    BY <2>1, <2>2, <2>3, <2>4, <2>5 DEF IInv
<1> QED
  BY <1>1, <1>2, <1>3, <1>4, <1>5

\* Entries that are canceled, get idle, or that nobody refers to any more.
LEMMA EndStep ==
  ASSUME NameAssumption, IInv, NEW g \in Gens,
         CancelDoomed(g) \/ GetIdle(g) \/ Forget(g)
  PROVE  IInv'
<1>1. CASE CancelDoomed(g)
  <2>1. TypeOK'
    BY <1>1 DEF CancelDoomed, mapVars, runVars, reqVars, IInv, TypeOK
  <2>2. NoOrphanClient'
    BY <1>1 DEF CancelDoomed, mapVars, runVars, reqVars, IInv, TypeOK, NoOrphanClient, Running
  <2>3. AuthorizedUse'
    BY <1>1 DEF CancelDoomed, runVars, reqVars, IInv, TypeOK, AuthorizedUse
  <2>4. NoDeadEntry'
    BY <1>1 DEF CancelDoomed, mapVars, runVars, IInv, TypeOK, NoDeadEntry
  <2>5. DropInv'
    BY <1>1 DEF CancelDoomed, runVars, reqVars, IInv, TypeOK, DropInv
  <2> QED
    BY <2>1, <2>2, <2>3, <2>4, <2>5 DEF IInv
<1>2. CASE GetIdle(g)
  <2>1. TypeOK'
    BY <1>2 DEF GetIdle, runVars, reqVars, IInv, TypeOK
  <2>2. NoOrphanClient'
    BY <1>2 DEF GetIdle, runVars, reqVars, IInv, TypeOK, NoOrphanClient, Running
  <2>3. AuthorizedUse'
    BY <1>2 DEF GetIdle, runVars, reqVars, IInv, TypeOK, AuthorizedUse
  <2>4. NoDeadEntry'
    BY <1>2 DEF GetIdle, runVars, IInv, TypeOK, NoDeadEntry
  <2>5. DropInv'
    BY <1>2 DEF GetIdle, runVars, reqVars, IInv, TypeOK, DropInv
  <2> QED
    BY <2>1, <2>2, <2>3, <2>4, <2>5 DEF IInv
<1>3. CASE Forget(g)
  <2>1. TypeOK'
    BY <1>3 DEF Forget, reqVars, IInv, TypeOK
  <2>2. NoOrphanClient'
    BY <1>3 DEF Forget, reqVars, IInv, TypeOK, NoOrphanClient, Running
  <2>3. AuthorizedUse'
    BY <1>3 DEF Forget, reqVars, IInv, TypeOK, AuthorizedUse
  <2>4. NoDeadEntry'
    BY <1>3 DEF Forget, IInv, TypeOK, NoDeadEntry
  <2>5. DropInv'
    BY <1>3 DEF Forget, reqVars, IInv, TypeOK, DropInv
  <2> QED
    BY <2>1, <2>2, <2>3, <2>4, <2>5 DEF IInv
<1> QED
  BY <1>1, <1>2, <1>3

\* CloseLiveClients and ReapIdleClients take the entry out, to cancel it.
LEMMA RemoveAllStep ==
  ASSUME NameAssumption, IInv, RemoveAll
  PROVE  IInv'
<1>1. TypeOK'
  BY DEF RemoveAll, runVars, reqVars, IInv, TypeOK
<1>2. NoOrphanClient'
  BY DEF RemoveAll, runVars, reqVars, IInv, TypeOK, NoOrphanClient, Running
<1>3. AuthorizedUse' /\ NoDeadEntry' /\ DropInv'
  BY DEF RemoveAll, runVars, reqVars, IInv, TypeOK, AuthorizedUse, NoDeadEntry, DropInv
<1> QED
  BY <1>1, <1>2, <1>3 DEF IInv

-----------------------------------------------------------------------------
\* The invariant holds of every behaviour of the cache of live clients.
THEOREM ClientsInvariance == Spec => []IInv
<1>1. Init => IInv
  BY NameAssumption DEF Init, IInv, TypeOK, NoOrphanClient, Running, AuthorizedUse, NoDeadEntry,
     DropInv
<1>2. IInv /\ [Next]_vars => IInv'
  <2> SUFFICES ASSUME IInv, [Next]_vars PROVE IInv'
    OBVIOUS
  <2>1. ASSUME NEW r \in Requests, Request(r)
        PROVE  IInv'
    BY <2>1, NameAssumption, EnterStep, WaitStep, DropStep DEF Request
  <2>2. ASSUME NEW g \in Gens, Goroutine(g) \/ CancelDoomed(g) \/ GetIdle(g) \/ Forget(g)
        PROVE  IInv'
    BY <2>2, NameAssumption, GoroutineStep, EndStep DEF Goroutine
  <2>3. CASE CloseLiveClients \/ ReapIdleClients
    BY <2>3, NameAssumption, RemoveAllStep DEF CloseLiveClients, ReapIdleClients
  <2>4. CASE UNCHANGED vars
    BY <2>4 DEF vars, IInv, TypeOK, NoOrphanClient, Running, AuthorizedUse, NoDeadEntry, DropInv
  <2> QED
    BY <2>1, <2>2, <2>3, <2>4 DEF Next
<1> QED
  BY <1>1, <1>2, PTL DEF Spec

\* The first verdict of a generation is the one that every waiter gets (signalReady).
LEMMA VerdictKept ==
  ASSUME IInv, Next, NEW g \in Gens, ready[g] /= "open", run'[g] /= "none"
  PROVE  ready'[g] = ready[g]
<1>1. CASE UNCHANGED ready
  BY <1>1
<1>2. ASSUME NEW h \in Gens, NEW verdict, signalReady(h, verdict)
      PROVE  ready'[g] = ready[g]
  BY <1>2 DEF signalReady, IInv, TypeOK
<1>3. ASSUME NEW h \in Gens, Forget(h)
      PROVE  ready'[g] = ready[g]
  BY <1>3 DEF Forget, IInv, TypeOK
<1>4. ASSUME NEW r \in Requests, Request(r)
      PROVE  UNCHANGED ready
  BY <1>4 DEF Request, JoinExisting, CreateClient, ClientReady, ClientFailed, ReadyTimeout,
     RequestCanceled, DropEntry, CancelEntry, FinishUse, runVars
<1>5. ASSUME NEW h \in Gens, Goroutine(h)
      PROVE  UNCHANGED ready \/ (\E verdict \in {"ok", "err"} : signalReady(h, verdict))
  BY <1>5 DEF Goroutine, Authorized, AuthorizationFails, RunReturns, SignalEnd, DropOwn
<1>6. ASSUME NEW h \in Gens, CancelDoomed(h) \/ GetIdle(h)
      PROVE  UNCHANGED ready
  BY <1>6 DEF CancelDoomed, GetIdle, runVars
<1>7. CloseLiveClients \/ ReapIdleClients => UNCHANGED ready
  BY DEF CloseLiveClients, ReapIdleClients, RemoveAll, runVars
<1> QED
  BY <1>1, <1>2, <1>3, <1>4, <1>5, <1>6, <1>7 DEF Next

\* An entry leaves the map at shutdown or for idleness, because its client failed or
\* ended, or because its creator waited in vain: never for an older generation (drop).
LEMMA EntryLeavesForItself ==
  ASSUME IInv, Next, slot /= None, slot' /= slot
  PROVE  \/ slot \in doomed'
         \/ ready[slot] = "err"
         \/ run[slot] = "signalled"
         \/ \E r \in Requests : pc[r] = "drop" /\ holds[r] = slot /\ creator[r]
<1>1. ASSUME NEW r \in Requests, Request(r)
      PROVE  DropEntry(r)
  BY <1>1 DEF Request, JoinExisting, CreateClient, ClientReady, ClientFailed, ReadyTimeout,
     RequestCanceled, CancelEntry, FinishUse, mapVars
<1>2. ASSUME NEW r \in Requests, DropEntry(r)
      PROVE  pc[r] = "drop" /\ holds[r] = slot /\ (creator[r] \/ ready[slot] = "err")
  BY <1>2 DEF DropEntry, Delete, IInv, DropInv
<1>3. ASSUME NEW g \in Gens, Goroutine(g)
      PROVE  run[slot] = "signalled"
  BY <1>3 DEF Goroutine, Authorized, AuthorizationFails, RunReturns, SignalEnd, DropOwn, Delete,
     mapVars
<1>4. ASSUME NEW g \in Gens, CancelDoomed(g) \/ GetIdle(g) \/ Forget(g)
      PROVE  FALSE
  BY <1>4 DEF CancelDoomed, GetIdle, Forget, mapVars
<1>5. CloseLiveClients \/ ReapIdleClients => slot \in doomed'
  BY DEF CloseLiveClients, ReapIdleClients, RemoveAll
<1> QED
  BY <1>1, <1>2, <1>3, <1>4, <1>5 DEF Next

-----------------------------------------------------------------------------
\* No connection is forgotten, requests use authorized clients only, the map keeps no
\* client whose goroutine ended, the waiters of a client get one verdict, and a late
\* cleanup spares a replacement, however many requests and generations there are.
THEOREM ClientsAreKept == Spec => ClientsKept
<1>1. IInv => NoOrphanClient /\ AuthorizedUse /\ NoDeadEntry
  BY DEF IInv
<1>2. IInv /\ [Next]_vars =>
        [\A g \in Gens : ready[g] /= "open" /\ run'[g] /= "none" => ready'[g] = ready[g]]_vars
  BY VerdictKept
<1>3. IInv /\ [Next]_vars =>
        [slot /= None /\ slot' /= slot =>
           \/ slot \in doomed'
           \/ ready[slot] = "err"
           \/ run[slot] = "signalled"
           \/ \E r \in Requests : pc[r] = "drop" /\ holds[r] = slot /\ creator[r]]_vars
  BY EntryLeavesForItself
<1>4. Spec => [](NoOrphanClient /\ AuthorizedUse /\ NoDeadEntry)
  BY <1>1, ClientsInvariance, PTL
<1>5. Spec => VerdictStable
  BY <1>2, ClientsInvariance, PTL DEF Spec, VerdictStable
<1>6. Spec => ReplacementSafe
  BY <1>3, ClientsInvariance, PTL DEF Spec, ReplacementSafe
<1> QED
  BY <1>4, <1>5, <1>6 DEF ClientsKept

\* The variables keep their types, and a generation not in use is not in the map.
THEOREM ClientTypes == Spec => []TypeOK
<1>1. IInv => TypeOK
  BY DEF IInv
<1> QED
  BY <1>1, ClientsInvariance, PTL
=============================================================================
