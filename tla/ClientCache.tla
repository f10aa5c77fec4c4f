----------------------------- MODULE ClientCache -----------------------------
(***************************************************************************)
(* The cache of live Telegram clients, internal/tgc/clientcache.go, for    *)
(* one key (bot and proxy): operations on different keys touch different   *)
(* entries and meet only at the mutex.  Each entry ever put in the map is  *)
(* a generation; requests in GetLiveClient, the goroutine that keeps a     *)
(* generation's Run open, and whoever closes clients run concurrently.     *)
(* A section under the mutex is one step.                                  *)
(***************************************************************************)
CONSTANTS
  Requests,        \* concurrent HTTP requests
  Gens,            \* names for the entries created, as many as live at the same time
  None,            \* no entry
  ReaperScheduled  \* whether anything calls ReapIdleClients (nothing under src/ does)

ASSUME NameAssumption == None \notin Gens /\ ReaperScheduled \in BOOLEAN

VARIABLES
  slot,      \* the generation the map holds for the key, or None
  run,       \* run[g]: the goroutine that maintains client.Run
  ready,     \* ready[g]: channel `ready` open, or closed with err nil / not nil
  canceled,  \* canceled[g]: runCtx has been canceled
  idle,      \* idle[g]: lastAt is older than clientIdleTimeout
  doomed,    \* taken out of the map by CloseLiveClients or ReapIdleClients, not yet canceled
  pc,        \* pc[r]: where request r is
  holds,     \* holds[r]: the generation request r works with
  creator    \* creator[r]: request r put that generation in the map

vars == <<slot, run, ready, canceled, idle, doomed, pc, holds, creator>>
mapVars == <<slot, idle>>
runVars == <<run, ready>>
reqVars == <<pc, holds, creator>>

Running(g) == run[g] \in {"connecting", "failing", "serving"}

Init ==
  /\ slot = None
  /\ run = [g \in Gens |-> "none"]
  /\ ready = [g \in Gens |-> "open"]
  /\ canceled = [g \in Gens |-> FALSE]
  /\ idle = [g \in Gens |-> FALSE]
  /\ doomed = {}
  /\ pc = [r \in Requests |-> "idle"]
  /\ holds = [r \in Requests |-> None]
  /\ creator = [r \in Requests |-> FALSE]

\* Mutant: the last verdict wins.
signalReadyAgain(g, verdict) == ready' = [ready EXCEPT ![g] = verdict]

\* signalReady: the first verdict closes the channel, later ones are ignored.
signalReady(g, verdict) ==
  ready' = [ready EXCEPT ![g] = IF @ = "open" THEN verdict ELSE @]

\* Mutant: whatever entry the map holds is removed.
DeleteAny(g) == slot' = None

\* drop deletes the entry only if it is still the expected one.
Delete(g) == slot' = IF slot = g THEN None ELSE slot

(***************************************************************************)
(* Requests: GetLiveClient, then the use of the client.  An empty token    *)
(* and a failure of BotClient return before anything changes.              *)
(***************************************************************************)
JoinExisting(r) ==
  /\ pc[r] = "idle" /\ slot /= None
  /\ idle' = [idle EXCEPT ![slot] = FALSE]
  /\ pc' = [pc EXCEPT ![r] = "wait"]
  /\ holds' = [holds EXCEPT ![r] = slot]
  /\ creator' = [creator EXCEPT ![r] = FALSE]
  /\ UNCHANGED <<slot, runVars, canceled, doomed>>

CreateClient(r) ==
  /\ pc[r] = "idle" /\ slot = None
  /\ \E g \in Gens :
       /\ run[g] = "none"
       /\ slot' = g
       /\ run' = [run EXCEPT ![g] = "connecting"]
       /\ pc' = [pc EXCEPT ![r] = "wait"]
       /\ holds' = [holds EXCEPT ![r] = g]
       /\ creator' = [creator EXCEPT ![r] = TRUE]
  /\ UNCHANGED <<ready, canceled, idle, doomed>>

\* Mutant: a call that returns keeps its entry.
ReturnHolding(r) ==
  /\ pc' = [pc EXCEPT ![r] = "idle"]
  /\ UNCHANGED <<holds, creator>>

\* The call is over, with a client given back or an error.
Return(r) ==
  /\ pc' = [pc EXCEPT ![r] = "idle"]
  /\ holds' = [holds EXCEPT ![r] = None]
  /\ creator' = [creator EXCEPT ![r] = FALSE]

Goto(r, where) == pc' = [pc EXCEPT ![r] = where] /\ UNCHANGED <<holds, creator>>

\* Mutant: the caller does not look at the verdict.
ClientReadyUnchecked(r) ==
  /\ pc[r] = "wait" /\ ready[holds[r]] /= "open"
  /\ Goto(r, "using")
  /\ UNCHANGED <<mapVars, runVars, canceled, doomed>>

ClientReady(r) ==
  /\ pc[r] = "wait" /\ ready[holds[r]] = "ok"
  /\ Goto(r, "using")
  /\ UNCHANGED <<mapVars, runVars, canceled, doomed>>

\* A caller that found the entry drops it; the goroutine drops it for its creator.
ClientFailed(r) ==
  /\ pc[r] = "wait" /\ ready[holds[r]] = "err"
  /\ IF creator[r] THEN Return(r) ELSE Goto(r, "drop")
  /\ UNCHANGED <<mapVars, runVars, canceled, doomed>>

\* clientReadyTimeout: here only the creator drops the entry.
ReadyTimeout(r) ==
  /\ pc[r] = "wait"
  /\ IF creator[r] THEN Goto(r, "drop") ELSE Return(r)
  /\ UNCHANGED <<mapVars, runVars, canceled, doomed>>

RequestCanceled(r) ==
  /\ pc[r] = "wait"
  /\ Return(r)
  /\ UNCHANGED <<mapVars, runVars, canceled, doomed>>

\* drop, in two steps: the map under the mutex, then entry.cancel() outside it.
DropEntry(r) ==
  /\ pc[r] = "drop"
  /\ Delete(holds[r])
  /\ IF slot' /= slot THEN Goto(r, "cancel") ELSE Return(r)
  /\ UNCHANGED <<idle, runVars, canceled, doomed>>

\* Mutant: drop forgets to cancel the client it removed.
CancelForgotten(r) ==
  /\ pc[r] = "cancel"
  /\ Return(r)
  /\ UNCHANGED <<mapVars, runVars, canceled, doomed>>

CancelEntry(r) ==
  /\ pc[r] = "cancel"
  /\ canceled' = [canceled EXCEPT ![holds[r]] = TRUE]
  /\ Return(r)
  /\ UNCHANGED <<mapVars, runVars, doomed>>

FinishUse(r) ==
  /\ pc[r] = "using"
  /\ Return(r)
  /\ UNCHANGED <<mapVars, runVars, canceled, doomed>>

(***************************************************************************)
(* The goroutine that maintains client.Run for generation g.               *)
(***************************************************************************)
Authorized(g) ==
  /\ run[g] = "connecting"
  /\ signalReady(g, "ok")
  /\ run' = [run EXCEPT ![g] = "serving"]
  /\ UNCHANGED <<mapVars, canceled, doomed, reqVars>>

AuthorizationFails(g) ==
  /\ run[g] = "connecting"
  /\ signalReady(g, "err")
  /\ run' = [run EXCEPT ![g] = "failing"]
  /\ UNCHANGED <<mapVars, canceled, doomed, reqVars>>

\* Run ends: a dial or session error before its callback, the error of the
\* callback, a canceled context, or a connection lost for good.
RunReturns(g) ==
  /\ Running(g)
  /\ run' = [run EXCEPT ![g] = "returned"]
  /\ UNCHANGED <<mapVars, ready, canceled, doomed, reqVars>>

\* Mutant: a Run that ends early wakes nobody.
SignalEndSilent(g) ==
  /\ run[g] = "returned"
  /\ run' = [run EXCEPT ![g] = "signalled"]
  /\ UNCHANGED <<mapVars, ready, canceled, doomed, reqVars>>

SignalEnd(g) ==
  /\ run[g] = "returned"
  /\ signalReady(g, "err")
  /\ run' = [run EXCEPT ![g] = "signalled"]
  /\ UNCHANGED <<mapVars, canceled, doomed, reqVars>>

\* Mutant: the goroutine leaves its entry in the map.
DropOwnForgotten(g) ==
  /\ run[g] = "signalled"
  /\ run' = [run EXCEPT ![g] = "gone"]
  /\ UNCHANGED <<mapVars, ready, canceled, doomed, reqVars>>

\* The last drop; canceling a context whose Run has returned changes nothing.
DropOwn(g) ==
  /\ run[g] = "signalled"
  /\ Delete(g)
  /\ run' = [run EXCEPT ![g] = "gone"]
  /\ UNCHANGED <<idle, ready, canceled, doomed, reqVars>>

(***************************************************************************)
(* CloseLiveClients at shutdown, and ReapIdleClients.                      *)
(***************************************************************************)
RemoveAll ==
  /\ slot /= None
  /\ slot' = None
  /\ doomed' = doomed \cup {slot}
  /\ UNCHANGED <<idle, runVars, canceled, reqVars>>

CloseLiveClients == RemoveAll

ReapIdleClients == ReaperScheduled /\ slot /= None /\ idle[slot] /\ RemoveAll

CancelDoomed(g) ==
  /\ g \in doomed
  /\ doomed' = doomed \ {g}
  /\ canceled' = [canceled EXCEPT ![g] = TRUE]
  /\ UNCHANGED <<mapVars, runVars, reqVars>>

\* Nobody refers to the entry any more: its name is free for a new one.
Forget(g) ==
  /\ run[g] = "gone" /\ slot /= g /\ g \notin doomed
  /\ \A r \in Requests : holds[r] /= g
  /\ run' = [run EXCEPT ![g] = "none"]
  /\ ready' = [ready EXCEPT ![g] = "open"]
  /\ canceled' = [canceled EXCEPT ![g] = FALSE]
  /\ idle' = [idle EXCEPT ![g] = FALSE]
  /\ UNCHANGED <<slot, doomed, reqVars>>

\* clientIdleTimeout passes without a call of GetLiveClient.
GetIdle(g) ==
  /\ slot = g /\ ~idle[g]
  /\ idle' = [idle EXCEPT ![g] = TRUE]
  /\ UNCHANGED <<slot, runVars, canceled, doomed, reqVars>>

------------------------------------------------------------------------------
Request(r) ==
  \/ JoinExisting(r) \/ CreateClient(r) \/ ClientReady(r) \/ ClientFailed(r)
  \/ ReadyTimeout(r) \/ RequestCanceled(r) \/ DropEntry(r) \/ CancelEntry(r)
  \/ FinishUse(r)

Goroutine(g) ==
  \/ Authorized(g) \/ AuthorizationFails(g) \/ RunReturns(g)
  \/ SignalEnd(g) \/ DropOwn(g)

Next ==
  \/ \E r \in Requests : Request(r)
  \/ \E g \in Gens : Goroutine(g) \/ CancelDoomed(g) \/ GetIdle(g) \/ Forget(g)
  \/ CloseLiveClients \/ ReapIdleClients

\* Goroutines and requests run once they can, and a canceled or failed Run
\* returns.  Connecting may hang, and no timer is asked to fire.
Fairness ==
  /\ \A r \in Requests :
       WF_vars(ClientReady(r) \/ ClientFailed(r) \/ DropEntry(r) \/ CancelEntry(r))
  /\ \A g \in Gens :
       /\ WF_vars(RunReturns(g) /\ (canceled[g] \/ run[g] = "failing"))
       /\ WF_vars(SignalEnd(g) \/ DropOwn(g))
       /\ WF_vars(CancelDoomed(g))
  /\ WF_vars(ReapIdleClients)

Spec == Init /\ [][Next]_vars /\ Fairness

------------------------------------------------------------------------------
TypeOK ==
  /\ slot \in Gens \cup {None}
  /\ run \in [Gens -> {"none", "connecting", "failing", "serving",
                       "returned", "signalled", "gone"}]
  /\ ready \in [Gens -> {"open", "ok", "err"}]
  /\ canceled \in [Gens -> BOOLEAN] /\ idle \in [Gens -> BOOLEAN]
  /\ doomed \subseteq Gens
  /\ pc \in [Requests -> {"idle", "wait", "drop", "cancel", "using"}]
  /\ holds \in [Requests -> Gens \cup {None}]
  /\ creator \in [Requests -> BOOLEAN]
  /\ \A r \in Requests : pc[r] = "idle" <=> holds[r] = None
  /\ \A g \in Gens : run[g] = "none" => slot /= g /\ ready[g] = "open"

\* No connection leaks: a client whose Run is open is in the map, or canceled,
\* or somebody who took it out of the map is about to cancel it.
NoOrphanClient ==
  \A g \in Gens : Running(g) /\ ~canceled[g] =>
    \/ slot = g \/ g \in doomed
    \/ \E r \in Requests : pc[r] = "cancel" /\ holds[r] = g

\* A request works only with a client whose bot was authorized.
AuthorizedUse == \A r \in Requests : pc[r] = "using" => ready[holds[r]] = "ok"

\* The map does not keep a client after its goroutine has ended.
NoDeadEntry == slot /= None => run[slot] /= "gone"

\* Every waiter of a generation gets the same verdict: readiness never changes
\* again (TestReadyClientTerminationDoesNotRaceWithWaiters).
VerdictStable ==
  [][\A g \in Gens : ready[g] /= "open" /\ run'[g] /= "none" => ready'[g] = ready[g]]_vars

\* A generation leaves the map only for a reason of its own; the late cleanup
\* of an older one never removes its replacement (TestOldClientCannotDropReplacement).
ReplacementSafe ==
  [][slot /= None /\ slot' /= slot =>
       \/ slot \in doomed'
       \/ ready[slot] = "err"
       \/ run[slot] = "signalled"
       \/ \E r \in Requests : pc[r] = "drop" /\ holds[r] = slot /\ creator[r]]_vars

\* Cached clients: no open connection is forgotten, requests use authorized clients
\* only, the map keeps no client whose goroutine ended, all waiters of a client get one
\* verdict, and a late cleanup spares a replacement (GetLiveClient, drop).
\* What GetLiveClient promises of the clients in the cache and of those it hands out.
ClientsKept ==
  /\ [](NoOrphanClient /\ AuthorizedUse /\ NoDeadEntry)
  /\ VerdictStable
  /\ ReplacementSafe

\* The comment of GetLiveClient (lines 137-138): when Run ends before the
\* client is ready, waiters are woken at once, no timer being needed.
FailureWakesWaiters ==
  \A r \in Requests :
    (pc[r] = "wait" /\ run[holds[r]] = "returned") ~> pc[r] /= "wait"

\* A client that has left the map ends.
RemovedClientEnds ==
  \A g \in Gens : (Running(g) /\ slot /= g) ~> run[g] = "gone"

\* The comment of clientIdleTimeout (lines 46-47): beyond this inactivity a
\* client is closed, so as not to keep sockets open on bots no longer in use.
IdleClientClosed ==
  \A g \in Gens : (idle[g] /\ slot = g) ~> (~idle[g] \/ slot /= g)
==============================================================================
