------------------------------ MODULE RpcCall -------------------------------
(***************************************************************************)
(* Calls on one Telegram client through its middlewares: recovery          *)
(* (internal/recovery), retry (internal/retry) and, innermost, AuthRecovery*)
(* (internal/tgc/auth_recovery.go), which the calls of the client share.   *)
(* An answer may be lost after Telegram did what was asked.                *)
(***************************************************************************)
EXTENDS Integers

CONSTANTS
  Calls,
  MaxTries,      \* retry.max
  MaxRestarts    \* how often the backoff of recovery lets a call start over before its
                 \* time (ReconnectTimeout) is up

\* A call is tried at least once.
LimitsGiven == MaxTries \in Nat \ {0} /\ MaxRestarts \in Nat

\* Requests that isReadTimeout lists, those of isAuthRequest, and the others.
Kinds == {"read", "auth", "change"}

VARIABLES
  cooling,       \* AuthRecovery.blockedUntil is to come
  call           \* call[c]: its kind, where it is (pc), retries and max of the retry loop,
                 \* restarts, result; history: attempts that went out in this cooldown, up
                 \* to two (during), and whether Telegram executed it (executed): "unclear"
                 \* if not or by attempts that ended in doubt, "once" by one that did not,
                 \* "again" after that

vars == <<cooling, call>>

Fresh(kind) == [kind |-> kind, pc |-> "idle", retries |-> 0, max |-> MaxTries, restarts |-> 0,
                result |-> "none", executed |-> "unclear", during |-> 0]

Init ==
  /\ cooling = FALSE
  /\ call \in [Calls -> {Fresh(kind) : kind \in Kinds}]

Set(c, rec) == call' = [call EXCEPT ![c] = rec]
Done(rec, r) ==
  [kind |-> rec.kind, pc |-> "done", retries |-> 0, max |-> MaxTries, restarts |-> 0,
   result |-> r, executed |-> rec.executed, during |-> rec.during]

\* Mutant: AuthRecovery lets every request pass.
HeldNever(c) == FALSE

\* What AuthRecovery.Handle finds when it looks at blockedUntil, under its lock; a
\* request that logs in does not look.
Held(c) == cooling /\ call[c].kind # "auth"

\* recovery: an error that is not Telegram's starts the call over after a wait,
\* unless its time is up.
Recover(rec) ==
  IF rec.restarts < MaxRestarts
  THEN [rec EXCEPT !.pc = "wait", !.restarts = @ + 1] ELSE Done(rec, "error")

\* Mutant: any request that times out is repeated.
RetriesTimeoutAny(rec) == TRUE

\* isReadTimeout
RetriesTimeout(rec) == rec.kind = "read"

\* Mutant: the attempts are not counted.
AgainForEver(rec, max) == [rec EXCEPT !.pc = "delay", !.max = max]

\* retry: one more attempt after a delay, or the error of the last one goes up.
Again(rec, max) ==
  IF rec.retries + 1 < max THEN [rec EXCEPT !.pc = "delay", !.retries = @ + 1, !.max = max]
  ELSE [rec EXCEPT !.pc = "spent", !.retries = @ + 1, !.max = max]

\* An attempt passes AuthRecovery, or gets "waiting for cooldown" in its stead...
Pass(c) ==
  /\ call[c].pc \in {"idle", "try"}
  /\ Set(c, IF Held(c) THEN Recover(call[c]) ELSE [call[c] EXCEPT !.pc = "passed"])
  /\ UNCHANGED cooling

\* ... and goes out, when the lock is released: a cooldown may have begun.
Send(c) ==
  /\ call[c].pc = "passed"
  /\ Set(c, [call[c] EXCEPT !.pc = "sent", !.during = IF cooling /\ @ < 2 THEN @ + 1 ELSE @])
  /\ UNCHANGED cooling

\* The attempt was executed, and its end says so or is no reason to doubt it.
Executed(rec) == [rec EXCEPT !.executed = IF @ = "unclear" THEN "once" ELSE "again"]

\* Nobody knows whether the attempt was executed.
Doubtful(rec) ==
  {rec, [rec EXCEPT !.executed = IF @ = "unclear" THEN "unclear" ELSE "again"]}

Answered(c) ==
  /\ call[c].pc = "sent"
  /\ Set(c, Done(Executed(call[c]), "ok"))
  /\ UNCHANGED cooling

\* An error in internalErrors that is Telegram's ("Timedout", RPC_CALL_FAIL), repeated
\* whatever the request: after the last attempt it goes up.
Internal(c) ==
  /\ call[c].pc = "sent"
  /\ \E got \in Doubtful(call[c]) :
       LET rec == Again(got, got.max)
       IN  Set(c, IF rec.pc = "spent" THEN Done(rec, "error") ELSE rec)
  /\ UNCHANGED cooling

\* "Timeout" (-503): the request may have been executed.
TimesOut(c) ==
  /\ call[c].pc = "sent"
  /\ \E got \in {call[c], Executed(call[c])} :
       LET max == IF got.max < 3 THEN got.max ELSE 3
           rec == Again(got, max)
       IN  Set(c, IF RetriesTimeout(got) /\ rec.pc # "spent" THEN rec ELSE Done(got, "error"))
  /\ UNCHANGED cooling

\* "connection dead", "engine was closed": internalErrors as well, whatever the
\* request, but not Telegram's: recovery starts over what retry gave up.
ConnectionDies(c) ==
  /\ call[c].pc = "sent"
  /\ \E got \in Doubtful(call[c]) :
       LET rec == Again(got, got.max)
       IN  Set(c, IF rec.pc = "spent" THEN Recover(rec) ELSE rec)
  /\ UNCHANGED cooling

\* Any other error of the transport.
Breaks(c) ==
  /\ call[c].pc = "sent"
  /\ \E got \in Doubtful(call[c]) : Set(c, Recover(got))
  /\ UNCHANGED cooling

\* Any other answer of Telegram is final; AUTH_KEY_UNREGISTERED starts the cooldown,
\* unless it answers a request that logs in.
Rejected(c) ==
  /\ call[c].pc = "sent"
  /\ \/ Set(c, Done(call[c], "error")) /\ UNCHANGED cooling
     \/ call[c].kind # "auth" /\ Set(c, Done(call[c], "auth")) /\ cooling' = TRUE

\* The delay of retry is over, or recovery starts a new retry loop.
Resume(c) ==
  /\ \/ call[c].pc = "delay" /\ Set(c, [call[c] EXCEPT !.pc = "try"])
     \/ call[c].pc = "wait" /\ Set(c, [call[c] EXCEPT !.pc = "try", !.retries = 0, !.max = MaxTries])
  /\ UNCHANGED cooling

\* The caller gives up: both loops watch its context.
Cancel(c) ==
  /\ call[c].pc \notin {"idle", "done"}
  /\ Set(c, Done(call[c], "canceled"))
  /\ UNCHANGED cooling

CooldownEnds ==
  /\ cooling /\ cooling' = FALSE
  /\ call' = [c \in Calls |-> [call[c] EXCEPT !.during = 0]]

Step(c) ==
  \/ Pass(c) \/ Send(c) \/ Answered(c) \/ Internal(c) \/ TimesOut(c) \/ ConnectionDies(c)
  \/ Breaks(c) \/ Rejected(c) \/ Resume(c)

Next == (\E c \in Calls : Step(c) \/ Cancel(c)) \/ CooldownEnds

\* An attempt is answered or fails, and delays end.
Fairness == \A c \in Calls : WF_vars(Step(c))

Spec == Init /\ [][Next]_vars /\ Fairness

-----------------------------------------------------------------------------
TypeOK ==
  /\ cooling \in BOOLEAN
  /\ \A c \in Calls :
       /\ call[c].kind \in Kinds
       /\ call[c].pc \in {"idle", "try", "passed", "sent", "delay", "wait", "done"}
       /\ call[c].retries \in 0..MaxTries /\ call[c].max \in 1..MaxTries
       /\ call[c].restarts \in 0..MaxRestarts
       /\ call[c].executed \in {"unclear", "once", "again"} /\ call[c].during \in 0..2

\* A request that changes something and was executed is not executed again, unless the
\* connection broke over it or Telegram had an internal error: any other answer, and the
\* timeout -503 above all, never leads to another execution ("retrying a send or
\* mutation after Timeout may duplicate writes", retry.go:47).
RepeatedInDoubtOnly ==
  \A c \in Calls : call[c].kind # "read" => call[c].executed # "again"

\* From the refusal of a call of the client to the end of the cooldown, each other call
\* reaches Telegram once at most, with an attempt that had passed AuthRecovery before:
\* neither retry nor recovery brings it there again.  Requests that log in are exempt.
NoStorm == \A c \in Calls : call[c].kind # "auth" => call[c].during <= 1

\* What the calls of a client promise, however Telegram and the connection fail.
CallsSafe == RepeatedInDoubtOnly /\ NoStorm

\* Every call ends, whatever Telegram and the connection do.
CallEnds == \A c \in Calls : <>(call[c].pc = "done")
=============================================================================
