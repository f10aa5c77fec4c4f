--------------------------- MODULE StreamFallback ---------------------------
(***************************************************************************)
(* FilesStream of pkg/services/file.go from the choice of a bot to the end *)
(* of the body: streams that draw from the rotation the uploads of the     *)
(* user draw from, fall back on the user's session, and after              *)
(* AUTH_KEY_UNREGISTERED start over with another bot, on the same response.*)
(***************************************************************************)
EXTENDS UploadRetry

CONSTANTS
  Streams,  \* concurrent streams of the user
  Length,   \* Content-Length, in units of what one Write delivers
  User      \* the user's session, streamToken = ""

\* The user has bots, each listed once, and they are neither nobody nor his session.
BotsGiven ==
  /\ Tokens \in Seq(Bots) /\ N > 0 /\ \A i, j \in 1..N : Tokens[i] = Tokens[j] => i = j
  /\ Bots \cap {None, User} = {}
  /\ MaxWaitCycles \in Nat /\ Length \in Nat

VARIABLE
  st  \* st[s]: where stream s is (pc), iterations left in the choice of a bot
      \* (rounds), the token of its client, clientIsLive (live), the attempt: first,
      \* again (another bot) or last (user session), positions this attempt wrote
      \* (off), availableTokens still to try (todo), the response (body) and the
      \* outcome.  History: bots that served it (served).

streamVars == <<vars, st>>

NoStream == [pc |-> "idle", rounds |-> 0, token |-> None, live |-> FALSE, attempt |-> "first",
             off |-> 0, todo |-> <<>>, body |-> <<>>, outcome |-> "none", served |-> {}]

StreamInit == Init /\ st = [s \in Streams |-> NoStream]

\* Every upload in a cycle sees somebody else draw.
Disturb == up' = [u \in Parts |-> [up[u] EXCEPT !.alone = FALSE]]

Send(rec, b) == [rec EXCEPT !.pc = "send", !.token = b, !.off = 0]

End(s, o) == st' = [st EXCEPT ![s].pc = "done", ![s].outcome = o, ![s].todo = <<>>, ![s].served = {}]

\* All bots blocked: the user's session at once.  Otherwise as many draws as
\* there are bots that are not.
OpenStream(s) ==
  /\ st[s].pc = "idle"
  /\ st' = [st EXCEPT ![s] = IF AvailableBots = <<>> THEN Send(@, User)
                             ELSE [@ EXCEPT !.pc = "choose", !.rounds = Len(AvailableBots)]]
  /\ UNCHANGED vars

\* Next, which knows nothing of BlockBot; a blocked bot is skipped.  GetLiveClient
\* or BotClient gives a client, or the bot is given up for the next one.
Choose(s) ==
  /\ st[s].pc = "choose" /\ st[s].rounds > 0
  /\ \E b \in Bots :
       /\ NextToken(b)
       /\ \/ st' = [st EXCEPT ![s].rounds = @ - 1]
          \/ /\ b \notin blocked
             /\ \E live \in BOOLEAN : st' = [st EXCEPT ![s] = [Send(@, b) EXCEPT !.live = live]]
  /\ Disturb /\ UNCHANGED <<flooded, blocked>>

\* No bot gave a client: the user's session, if it gives one.
FallBack(s) ==
  /\ st[s].pc = "choose" /\ st[s].rounds = 0
  /\ \/ st' = [st EXCEPT ![s] = Send(@, User)]
     \/ End(s, "error")
  /\ UNCHANGED vars

\* A client of BotClient or AuthClient runs while RunWithAuth does.  clientIsLive
\* speaks of the client chosen first, and a later one is then never run.
Connected(s) == st[s].live => st[s].attempt = "first"

\* net/http refuses what goes beyond Content-Length.
Room(s) == Len(st[s].body) < Length

WriteBody(s) ==
  /\ st[s].pc = "send" /\ Connected(s) /\ st[s].off < Length /\ Room(s)
  /\ st' = [st EXCEPT ![s].body = Append(@, st[s].off + 1), ![s].off = @ + 1]
  /\ UNCHANGED vars

\* Mutant: the last byte of the range is not counted.
FinishEarly(s) ==
  /\ st[s].pc = "send" /\ st[s].off >= Length - 1
  /\ End(s, "ok") /\ UNCHANGED vars

Finish(s) ==
  /\ st[s].pc = "send" /\ st[s].off = Length
  /\ End(s, "ok") /\ UNCHANGED vars

\* Telegram or the consumer ends the stream, or there is no more room.
Fails(s) ==
  /\ st[s].pc = "send"
  /\ End(s, "error") /\ UNCHANGED vars

\* Mutant: the bot that was refused stays on the list.
StreamRefusedAgain(s) ==
  /\ st[s].pc = "send" /\ Connected(s)
  /\ UNCHANGED <<cursor, up>>
  /\ IF st[s].token = User THEN End(s, "auth") /\ UNCHANGED <<flooded, blocked>>
     ELSE /\ BlockBot(st[s].token)
          /\ st' = [st EXCEPT ![s].pc = "retry", ![s].attempt = "again",
                              ![s].served = @ \cup {st[s].token}, ![s].todo = AvailableBots]

\* AUTH_KEY_UNREGISTERED.  The bot is blocked; the first time the bots that are not
\* are listed.  On the user's session it is the end.
StreamRefused(s) ==
  /\ st[s].pc = "send" /\ Connected(s)
  /\ UNCHANGED <<cursor, up>>
  /\ IF st[s].token = User THEN End(s, "auth") /\ UNCHANGED <<flooded, blocked>>
     ELSE /\ BlockBot(st[s].token)
          /\ st' = [st EXCEPT ![s].pc = "retry", ![s].attempt = "again",
                              ![s].served = @ \cup {st[s].token},
                              ![s].todo = IF st[s].attempt = "first"
                                          THEN Keep(AvailableBots, Bots \ {st[s].token})
                                          ELSE @]

\* Mutant: the list is not consumed.
TryOtherForEver(s) ==
  /\ st[s].pc = "retry" /\ st[s].todo /= <<>>
  /\ \/ UNCHANGED st
     \/ /\ Head(st[s].todo) \notin blocked
        /\ st' = [st EXCEPT ![s] = Send(@, Head(st[s].todo))]
  /\ UNCHANGED vars

\* The next bot of the list, skipped when it was blocked since or gives no client.
TryOther(s) ==
  /\ st[s].pc = "retry" /\ st[s].todo /= <<>>
  /\ LET b == Head(st[s].todo)  rest == [st[s] EXCEPT !.todo = Tail(@)]
     IN \/ st' = [st EXCEPT ![s] = rest]
        \/ b \notin blocked /\ st' = [st EXCEPT ![s] = Send(rest, b)]
  /\ UNCHANGED vars

\* "Last resort: try user session."
TryUser(s) ==
  /\ st[s].pc = "retry" /\ st[s].todo = <<>>
  /\ \/ st' = [st EXCEPT ![s] = [Send(@, User) EXCEPT !.attempt = "last"]]
     \/ End(s, "auth")
  /\ UNCHANGED vars

Advance(s) ==
  \/ OpenStream(s) \/ Choose(s) \/ FallBack(s) \/ WriteBody(s) \/ Finish(s)
  \/ StreamRefused(s) \/ TryOther(s) \/ TryUser(s)

StreamNext ==
  \/ Next /\ UNCHANGED st
  \/ \E s \in Streams : Advance(s) \/ Fails(s)

\* Calls on a client that runs end, by an answer or an error.  On one that is not run
\* nothing is asked: getParts (file.go:1048) and tgReader (tg_reader.go:81) have no
\* timeout and wait for its session until the consumer leaves.
StreamFairness ==
  \A s \in Streams : WF_streamVars(Advance(s) \/ (Fails(s) /\ Connected(s)))

StreamSpec == StreamInit /\ [][StreamNext]_streamVars /\ Fairness /\ StreamFairness

-----------------------------------------------------------------------------
StreamTypeOK ==
  /\ TypeOK
  /\ \A s \in Streams :
       /\ st[s].pc \in {"idle", "choose", "send", "retry", "done"}
       /\ st[s].rounds \in 0..N /\ st[s].token \in Bots \cup {User, None}
       /\ st[s].off \in 0..Len(st[s].body) /\ Len(st[s].body) <= Length

\* A stream that ends well delivered the range, once and in order: one that was
\* started over after it had written something cannot end well.
OkMeansWhole ==
  \A s \in Streams : st[s].outcome = "ok" => st[s].body = [i \in 1..Length |-> i]

\* A bot that refused a stream does not serve it again, whatever other requests
\* do to the rotation, and the user's session comes after it.
RefusedOnce ==
  \A s \in Streams : st[s].pc = "send" => st[s].token \notin st[s].served

\* A stream tries bots, then the user's session, and then ends, however many bots refuse
\* it and however the lists of blocked bots change meanwhile: it neither tries for ever
\* nor stays between two attempts.  It may hang in one place only, on the client of a
\* second attempt, which is not run when the first was live (file.go:1084, 1152), and
\* then until its consumer leaves.
StreamEnds ==
  \A s \in Streams : <>(st[s].pc = "done" \/ (st[s].pc = "send" /\ ~Connected(s)))
=============================================================================
