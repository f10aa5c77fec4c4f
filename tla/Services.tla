------------------------------ MODULE Services ------------------------------
(***************************************************************************)
(* Eleven components that share nothing, for their safety.  They are not   *)
(* interleaved: the initial state picks the one that moves, the others     *)
(* keep their initial state, and a run explores the sum of the state       *)
(* spaces instead of their product.  Their parameters are constants here,  *)
(* so that the proofs are about any instances.  Where those have a module  *)
(* of their own, it is the one instantiated, and its theorems come along.  *)
(***************************************************************************)
EXTENDS Integers, Sequences, FiniteSets

CONSTANTS
  Sizes, HeaderSize, Overhead, BlockData, Radix, Low, Digits,   \* CipherSeek
  BotClients, BotKeys, MaxRevoked,                 \* BotAuth
  Channels, Uploads, Readers, Setters, MaxFills,   \* ChannelRollover
  Msgs, Uploaders, Rows,                           \* CheckCommand
  Hashes, WebCalls,                                \* Sessions
  Calls, MaxTries, MaxRestarts,                    \* RpcCall
  Handlers, Capacity, Blank,                       \* Shutdown
  BotCount, Parts, Streams, MaxWaitCycles, Length, \* StreamFallback
  Second, TTL, Threshold, Significant, MaxTime,    \* Throttle
  MaxIds, BatchSize, Limit,                        \* BatchCalls
  Files, Headers, MinChunk, MaxChunk, ReadSizes,   \* LinearReader
  None, User

VARIABLES
  subject,
  size, nonce, blocks, dec,
  stored, header, status, range, pos, remaining, tr, read, end,
  cursor, flooded, blocked, up, st,
  saved, loaded, memo, authorized, revoked, vouched, late, outdated, cl,
  channel, chosen, full, near, cached, p, fills, made, crossed,
  tg, row, old, file, client, cu, cf, use, ck,
  signed, rows, entries, list, call, out, off,
  now, known, requests, lastAccess, arrivals, verdict,
  kind, n, there, batch, answer, shared, first, step, page, got, sent,
  cooling, request,
  ctx, main, handler, queue, open, writer, written, accepted, lost

\* An encrypted part and its readers.
Cipher == INSTANCE CipherSeek

ASSUME CipherAssumption == Cipher!CipherGiven

\* The body of a stream.
Body == INSTANCE LinearReader WITH file <- stored, out <- read, err <- end

ASSUME BodyAssumption == Body!BodyGiven

\* Parts being uploaded beside streams, of a user whose bots have numbers for tokens.
TokenList == [i \in 1..BotCount |-> i]
Bots == INSTANCE StreamFallback WITH Tokens <- TokenList

ASSUME BotsAssumption == Bots!BotsGiven

\* Clients of one bot.
Auth == INSTANCE BotAuthProofs
  WITH Clients <- BotClients, Keys <- BotKeys, row <- saved, entry <- loaded, old <- outdated

ASSUME KeysAssumption == Auth!EnoughKeys

\* Parts uploaded at once, readers of the channel and choices of it.
Rollover == INSTANCE ChannelRollover WITH tg <- channel, row <- chosen

ASSUME RequestsAssumption == Rollover!RequestsApart

\* The check command beside its clients.
Check == INSTANCE CheckCommand WITH Uploads <- Uploaders

\* Web sessions of a user and requests.
Web == INSTANCE Sessions WITH Calls <- WebCalls, tg <- signed, cached <- entries

\* Calls on one client.
Rpc == INSTANCE RpcCall WITH call <- request

ASSUME LimitsAssumption == Rpc!LimitsGiven

\* Handlers and the recorder of events.
Server == INSTANCE Shutdown

ASSUME EventsAssumption == Server!EventsNamed

\* Requests with any header, around the range that is significant.
Positions == -1..Significant
Scan == INSTANCE Throttle WITH Ranges <- {<<>>} \cup (Positions \X Positions)

ASSUME WindowAssumption == Scan!WindowGiven

\* Batches of messages.
Batched == INSTANCE BatchCalls WITH err <- shared

ASSUME BatchesAssumption == Batched!BatchesGiven

cipherVars   == <<size, nonce, blocks, dec>>
linearVars   == <<stored, header, status, range, pos, remaining, tr, read, end>>
botsVars     == <<cursor, flooded, blocked, up, st>>
authVars     == <<saved, loaded, memo, authorized, revoked, vouched, late, outdated, cl>>
channelsVars == <<channel, chosen, full, near, cached, p, fills, made, crossed>>
checkVars    == <<tg, row, old, file, client, cu, cf, use, ck>>
sessionsVars == <<signed, rows, entries, list, call, out, off>>
throttleVars == <<now, known, requests, lastAccess, arrivals, verdict>>
callsVars    == <<cooling, request>>
serverVars   == <<ctx, main, handler, queue, open, writer, written, accepted, lost>>
batchesVars  == <<kind, n, there, batch, answer, shared, first, step, page, got, sent>>
vars == <<subject, cipherVars, linearVars, botsVars, authVars, channelsVars, checkVars,
          sessionsVars, throttleVars, batchesVars, callsVars, serverVars>>

Init ==
  /\ subject \in {"cipher", "linear", "bots", "auth", "channels", "check", "sessions",
                  "throttle", "batches", "calls", "server"}
  /\ Cipher!Init /\ (subject # "cipher" => size = 0 /\ nonce = [d \in 0..(Digits - 1) |-> 0])
  /\ Body!Init /\ (subject # "linear" => stored.size = 0 /\ header = <<>>)
  /\ Bots!StreamInit
  /\ Auth!Init
  /\ Rollover!Init
  /\ Check!CheckInit
  /\ Web!Init
  /\ Scan!Init
  /\ Batched!Init /\ (subject # "batches" => kind = "copy" /\ n = 0)
  /\ Rpc!Init /\ (subject # "calls" => \A c \in Calls : request[c].kind = "change")
  /\ Server!Init

Next ==
  /\ UNCHANGED subject
  /\ \/ /\ subject = "cipher" /\ Cipher!Next
        /\ UNCHANGED <<linearVars, botsVars, authVars, channelsVars, checkVars, sessionsVars,
                        throttleVars, batchesVars, callsVars, serverVars>>
     \/ /\ subject = "linear" /\ Body!Next
        /\ UNCHANGED <<cipherVars, botsVars, authVars, channelsVars, checkVars, sessionsVars,
                        throttleVars, batchesVars, callsVars, serverVars>>
     \/ /\ subject = "bots" /\ Bots!StreamNext
        /\ UNCHANGED <<cipherVars, linearVars, authVars, channelsVars, checkVars, sessionsVars,
                        throttleVars, batchesVars, callsVars, serverVars>>
     \/ /\ subject = "auth" /\ Auth!Next
        /\ UNCHANGED <<cipherVars, linearVars, botsVars, channelsVars, checkVars, sessionsVars,
                        throttleVars, batchesVars, callsVars, serverVars>>
     \/ /\ subject = "channels" /\ Rollover!Next
        /\ UNCHANGED <<cipherVars, linearVars, botsVars, authVars, checkVars, sessionsVars,
                        throttleVars, batchesVars, callsVars, serverVars>>
     \/ /\ subject = "check" /\ Check!CheckNext
        /\ UNCHANGED <<cipherVars, linearVars, botsVars, authVars, channelsVars, sessionsVars,
                        throttleVars, batchesVars, callsVars, serverVars>>
     \/ /\ subject = "sessions" /\ Web!Next
        /\ UNCHANGED <<cipherVars, linearVars, botsVars, authVars, channelsVars, checkVars,
                        throttleVars, batchesVars, callsVars, serverVars>>
     \/ /\ subject = "throttle" /\ Scan!Next
        /\ UNCHANGED <<cipherVars, linearVars, botsVars, authVars, channelsVars, checkVars,
                        sessionsVars, batchesVars, callsVars, serverVars>>
     \/ /\ subject = "batches" /\ Batched!Next
        /\ UNCHANGED <<cipherVars, linearVars, botsVars, authVars, channelsVars, checkVars,
                        sessionsVars, throttleVars, callsVars, serverVars>>
     \/ /\ subject = "calls" /\ Rpc!Next
        /\ UNCHANGED <<cipherVars, linearVars, botsVars, authVars, channelsVars, checkVars,
                        sessionsVars, throttleVars, batchesVars, serverVars>>
     \/ /\ subject = "server" /\ Server!Next
        /\ UNCHANGED <<cipherVars, linearVars, botsVars, authVars, channelsVars, checkVars,
                        sessionsVars, throttleVars, batchesVars, callsVars>>

Spec == Init /\ [][Next]_vars

-----------------------------------------------------------------------------
\* Requests of the run: one range or two, absent, negative and excessive numbers; files
\* with parts of equal size, a shorter last one, one part, and a truncated record.
SomeHeaders ==
  {<<>>} \cup {<<[first |-> a, last |-> b]>> : a, b \in -1..7}
         \cup {<<[first |-> 0, last |-> 1], [first |-> a, last |-> 3]>> : a \in {-1, 2, 5}}

SomeFiles ==
  {[size |-> 0, parts |-> <<>>], [size |-> 5, parts |-> <<3, 2>>], [size |-> 6, parts |-> <<5, 1>>],
   [size |-> 6, parts |-> <<2, 2, 2>>], [size |-> 6, parts |-> <<2, 2>>], [size |-> 5, parts |-> <<5>>]}

-----------------------------------------------------------------------------
\* What the components promise, each the conjunction of the properties explained in its
\* module; an invariant is evaluated where its component moves.

\* The variables of the component that moves keep their types.
TypesOK ==
  /\ subject = "cipher" => Cipher!TypeOK
  /\ subject = "linear" => Body!TypeOK
  /\ subject = "bots" => Bots!StreamTypeOK
  /\ subject = "auth" => Auth!TypeOK
  /\ subject = "channels" => Rollover!TypeOK
  /\ subject = "check" => Check!CheckTypeOK
  /\ subject = "sessions" => Web!TypeOK
  /\ subject = "throttle" => Scan!TypeOK
  /\ subject = "batches" => Batched!TypeOK
  /\ subject = "calls" => Rpc!TypeOK
  /\ subject = "server" => Server!TypeOK

\* Decryption: the plain text of any range, in order and whole, from the blocks that
\* hold it and no others; the sizes agree with what is stored (decrypter.RangeSeek,
\* Read, EncryptedSize, DecryptedSize).
RangeDecrypted ==
  subject = "cipher" => Cipher!RangeDecrypted /\ Cipher!UnderlyingTight /\ Cipher!SizesAgree

\* The body of a stream is the range that was asked, over chunk and part borders; a
\* truncated record ends in an error, after its bytes (Parse, LinearReader.Read).
BodyIsTheRange ==
  subject = "linear" => Body!BodyIsTheRange /\ Body!TruncatedEndsInError /\ Body!AskedIsServed

\* Bots: an undisturbed upload tries each one that is not blocked, and 429 means that
\* one asked to wait; a stream that ends well delivered its range once and in order, and
\* does not come back to a bot that refused it (UploadsUpload, FilesStream).
BotsTried ==
  /\ [](subject = "bots" => Bots!AloneTriesEveryBot /\ Bots!OkMeansWhole /\ Bots!RefusedOnce)
  /\ Bots!HonestVerdict

\* Sessions of a bot: work of RunWithAuth that is refused ends the trust in them, none
\* that was replaced or deleted is loaded, and a client does not delete its own good
\* session (RunWithAuth, authorizeBot, kvStorage.Set, AuthRecovery.Handle).
TrustEarned == Auth!TrustEarned

\* A full channel is replaced by one new channel; one is selected, and the cache agrees,
\* unless requests cross or the update that unselects the others fails
\* (GetChannelForUpload, CreateNewChannel, UsersUpdateChannel).
OneChannel == subject = "channels" => Rollover!OneChannelPerFill /\ Rollover!SelectionAgrees

\* The command takes no message for an orphan that was in use all along, files that it
\* marks itself excepted (check --clean).
KeptMessagesSpared == Check!KeptMessagesSpared

\* A session that logged out authenticates nobody, and one that was removed leaves the
\* cached list (AuthLogout, UsersRemoveSession).
SessionsEnd == subject = "sessions" => Web!SessionsEnd

\* A request is delayed exactly beyond the threshold (ScanDetector).
DelayedAsCounted == Scan!DelayedAsCounted

\* A copy has the parts of its source in order, and a single batch that is deleted
\* with success leaves no message (FilesCopy, GetMessages, DeleteMessages).
BatchesWhole == subject = "batches" => Batched!CopyInOrder /\ Batched!SuccessIsWhole

\* A change is executed twice only where the connection broke over it or Telegram had an
\* internal error, and each call reaches Telegram once at most during a cooldown (retry,
\* recovery, AuthRecovery.Handle).
CallsSafe == Rpc!CallsSafe

\* Accepted events are written in order and once, except those whose write failed; then
\* come the one being written and the queue (Recorder).
AcceptedInOrder == Server!AcceptedInOrder
=============================================================================
