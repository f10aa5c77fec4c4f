---------------------------- MODULE UploadRetry ----------------------------
(***************************************************************************)
(* UploadsUpload of pkg/services/upload.go from the choice of a bot to the *)
(* answer: concurrent parts of one user that draw bots from one rotation,  *)
(* try another bot when one is refused or told to wait, and sleep and      *)
(* start over, a bounded number of times, once every draw of a cycle is    *)
(* spent.                                                                  *)
(***************************************************************************)
EXTENDS BotRotation

CONSTANTS
  Parts,          \* concurrent requests
  MaxWaitCycles,  \* maxWaitCycles, 3 in the code
  None

VARIABLE
  up  \* up[u]: where request u is (pc), its waitCycle, retry (draws), triedBots, the
      \* token being tried (bot), minWaitDuration > 0 (wait), lastErr # nil (failed) and
      \* answer (result).  History, of the current cycle: blocked bots Next passed over
      \* (passed), whether nobody else called Next (alone), bots that answered
      \* FLOOD_WAIT (limited).

vars == <<rotationVars, up>>

Idle == [pc |-> "idle", cycle |-> 0, draws |-> 0, tried |-> {}, bot |-> None, wait |-> FALSE,
         failed |-> FALSE, result |-> "none", passed |-> {}, alone |-> TRUE, limited |-> {}]

UploadInit == up = [u \in Parts |-> Idle]
Init == RotationInit /\ UploadInit

Start(u) ==
  /\ up[u].pc = "idle"
  /\ up' = [up EXCEPT ![u].pc = "draw"]
  /\ UNCHANGED rotationVars

\* Next, and the bot it names unless this cycle has tried it.
Draw(u) ==
  /\ up[u].pc = "draw" /\ up[u].draws < N
  /\ \E b \in Bots :
       /\ NextToken(b)
       /\ LET over == {TokenAt(i) : i \in 0..(Skips - 1)}
              mine == IF b \in up[u].tried
                      THEN [up[u] EXCEPT !.draws = @ + 1, !.passed = @ \cup over]
                      ELSE [up[u] EXCEPT !.pc = "try", !.bot = b, !.tried = @ \cup {b},
                                         !.passed = @ \cup over]
          IN up' = [v \in Parts |-> IF v = u THEN mine ELSE [up[v] EXCEPT !.alone = FALSE]]
  /\ UNCHANGED <<flooded, blocked>>

Answer(u, r) == up' = [up EXCEPT ![u] = [Idle EXCEPT !.pc = "done", !.result = r]]

\* The part is sent, or creating the client or sending fails for good.
Settle(u) ==
  /\ up[u].pc = "try"
  /\ \E r \in {"ok", "error"} : Answer(u, r)
  /\ UNCHANGED rotationVars

\* AUTH_KEY_UNREGISTERED: the bot is blocked for five minutes.
Refused(u) ==
  /\ up[u].pc = "try" /\ BlockBot(up[u].bot)
  /\ up' = [up EXCEPT ![u].pc = "draw", ![u].draws = @ + 1, ![u].bot = None, ![u].failed = TRUE]
  /\ UNCHANGED cursor

\* FLOOD_WAIT: the bot is marked for the time Telegram asked for.
Limited(u) ==
  /\ up[u].pc = "try" /\ MarkBlocked(up[u].bot)
  /\ up' = [up EXCEPT ![u].pc = "draw", ![u].draws = @ + 1, ![u].bot = None, ![u].failed = TRUE,
                      ![u].wait = TRUE, ![u].limited = @ \cup {up[u].bot}]
  /\ UNCHANGED cursor

\* Mutant: one draw less than there are bots.
SpentEarly(u) == up[u].pc = "draw" /\ up[u].draws + 1 >= N

Spent(u) == up[u].pc = "draw" /\ up[u].draws = N

\* The draws are spent and a bot asked to wait: time.Sleep(minWaitDuration).
Sleep(u) ==
  /\ Spent(u) /\ up[u].wait /\ up[u].cycle < MaxWaitCycles
  /\ up' = [up EXCEPT ![u].pc = "sleep"]
  /\ UNCHANGED rotationVars

\* Mutant: minWaitDuration survives the cycle.
FreshCycleStillWaiting(u) ==
  [up[u] EXCEPT !.draws = 0, !.tried = {}, !.passed = {}, !.alone = TRUE, !.limited = {},
                !.pc = "draw", !.cycle = @ + 1]

\* Mutant: the wait cycles are not counted.
FreshCycleUncounted(u) ==
  [up[u] EXCEPT !.draws = 0, !.tried = {}, !.passed = {}, !.alone = TRUE, !.limited = {},
                !.pc = "draw", !.wait = FALSE]

\* A cycle begins with new triedBots and minWaitDuration; lastErr stays.
FreshCycle(u) ==
  [up[u] EXCEPT !.draws = 0, !.tried = {}, !.passed = {}, !.alone = TRUE, !.limited = {},
                !.pc = "draw", !.wait = FALSE, !.cycle = @ + 1]

Wake(u) ==
  /\ up[u].pc = "sleep"
  /\ up' = [up EXCEPT ![u] = FreshCycle(u)]
  /\ UNCHANGED rotationVars

\* "All bots exhausted after all wait cycles."
Exhaust(u) ==
  /\ Spent(u) /\ (up[u].wait => up[u].cycle >= MaxWaitCycles)
  /\ Answer(u, IF up[u].wait THEN "429" ELSE IF up[u].failed THEN "last" ELSE "failed")
  /\ UNCHANGED rotationVars

Request(u) ==
  \/ Start(u) \/ Draw(u) \/ Settle(u) \/ Refused(u) \/ Limited(u)
  \/ Sleep(u) \/ Wake(u) \/ Exhaust(u)

Next ==
  \/ \E u \in Parts : Request(u)
  \/ BlockExpires /\ UNCHANGED up

\* Calls to Telegram end, by an answer or an error; sleeping ends.
Fairness == \A u \in Parts : WF_vars(Request(u))

Spec == Init /\ [][Next]_vars /\ Fairness

-----------------------------------------------------------------------------
TypeOK ==
  /\ cursor \in 0..(N - 1) /\ flooded \subseteq Bots /\ blocked \subseteq Bots
  /\ \A u \in Parts :
       /\ up[u].pc \in {"idle", "draw", "try", "sleep", "done"}
       /\ up[u].cycle \in 0..MaxWaitCycles /\ up[u].draws \in 0..N
       /\ up[u].tried \subseteq Bots /\ Cardinality(up[u].tried) <= up[u].draws + 1
       /\ up[u].bot \in up[u].tried <=> up[u].pc = "try"

\* A request that had the rotation to itself spends its draws on all the bots,
\* save those Next passed over because they were blocked.
AloneTriesEveryBot ==
  \A u \in Parts : Spent(u) /\ up[u].alone => Bots \subseteq up[u].tried \cup up[u].passed

\* 429 tells the client of a bot that asked to wait in the last cycle, and
\* ErrUploadFailed is never the answer: some bot's error is there to report.
HonestVerdict ==
  [][\A u \in Parts : up'[u].result /= up[u].result =>
       /\ up'[u].result = "429" => up[u].limited /= {}
       /\ up'[u].result /= "failed"]_up

\* Every request is answered, in spite of bots that ask to wait for ever.
UploadAnswered == \A u \in Parts : <>(up[u].pc = "done")
=============================================================================
