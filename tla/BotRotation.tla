---------------------------- MODULE BotRotation ----------------------------
(***************************************************************************)
(* The bots of one user: the round-robin of BotWorker                      *)
(* (internal/tgc/workers.go) with the bots Telegram told to wait, and the  *)
(* table of bots whose session was refused (BlockBot, auth_recovery.go).   *)
(* Uploads and streams of the user share this state; each table is read by *)
(* one side only: Next looks at the first, GetAvailableBots at the second. *)
(***************************************************************************)
EXTENDS Lists, FiniteSets

CONSTANT Tokens   \* bots[userID] of the worker, set once and in this order

VARIABLES
  cursor,    \* currIdx[userID]
  flooded,   \* tokens in BotWorker.blocked whose time has not come
  blocked    \* tokens in globalBotBlocker whose time has not come

rotationVars == <<cursor, flooded, blocked>>

N    == Len(Tokens)
Bots == {Tokens[i] : i \in 1..N}

RotationInit == cursor = 0 /\ flooded = {} /\ blocked = {}

\* The token i steps after the cursor.
TokenAt(i) == Tokens[((cursor + i) % N) + 1]

\* How many blocked tokens Next passes over; none when all are blocked.
Skips ==
  IF Bots \subseteq flooded THEN 0
  ELSE CHOOSE i \in 0..(N - 1) :
         TokenAt(i) \notin flooded /\ \A j \in 0..(i - 1) : TokenAt(j) \in flooded

\* Next returns b and leaves the cursor behind it.
NextToken(b) == b = TokenAt(Skips) /\ cursor' = (cursor + Skips + 1) % N

\* GetAvailableBots(tokens)
AvailableBots == Keep(Tokens, Bots \ blocked)

BlockBot(b)    == blocked' = blocked \cup {b} /\ UNCHANGED flooded
MarkBlocked(b) == flooded' = flooded \cup {b} /\ UNCHANGED blocked

\* The time of a block comes.
BlockExpires ==
  /\ \/ \E b \in flooded : flooded' = flooded \ {b} /\ UNCHANGED blocked
     \/ \E b \in blocked : blocked' = blocked \ {b} /\ UNCHANGED flooded
  /\ UNCHANGED cursor
=============================================================================
