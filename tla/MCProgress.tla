----------------------------- MODULE MCProgress -----------------------------
(***************************************************************************)
(* Small instances of the components that must make progress.  They share  *)
(* nothing, so they are not interleaved: the initial state picks the one   *)
(* that moves, the others keep their initial state and are asked no        *)
(* fairness, and the run explores the sum of the state spaces instead of   *)
(* their product.                                                          *)
(***************************************************************************)
EXTENDS Integers, Sequences, TLC

CONSTANTS
  c1, c2, c3, s1, s2, b1, b2, n1, n2, n3, n4, u1, a1, a2, h1, h2, m1, r1, r2, None, User

VARIABLES
  subject,
  fpc, part, slots, fetch, calling, queue, cause, rpc, cur, limit, ret,
  cache, refs, last, gate, cpc, loc, fromCache, retry,
  cursor, flooded, blocked, up, st,
  cooling, call,
  ctx, main, handler, events, open, writer, written, accepted, lost,
  tg, row, old, file, client, cu, cf, use

\* An unbuffered channel, where fillBuffer and Read meet.
Reader == INSTANCE MultiReader
  WITH Start <- 1, End <- 8, ChunkSize <- 3, Threads <- 2, Buffers <- 0, ReadSizes <- {2, 4}

\* Three requests of one reader, references that do not expire.
Locations == INSTANCE LocationCache
  WITH Chunks <- {c1, c2, c3}, Sources <- {s1, s2}, Bots <- {b1, b2},
       SourceOf <- c1 :> s1 @@ c2 :> s1 @@ c3 :> s1, BotOf <- s1 :> b1 @@ s2 :> b2,
       Refs <- {n1, n2, n3, n4}, NoRef <- None, Free <- None, Expiry <- FALSE, pc <- cpc

\* A user with two bots; one request moves, a part being uploaded or a stream, while
\* blocks of bots expire.
Bots == INSTANCE StreamFallback
  WITH Tokens <- <<b1, b2>>, Parts <- {u1}, Streams <- {s1}, MaxWaitCycles <- 1, Length <- 1

Calls == INSTANCE RpcCall WITH Calls <- {a1, a2}, MaxTries <- 2, MaxRestarts <- 1

\* Two handlers and a queue of one event.
Server == INSTANCE Shutdown
  WITH Handlers <- {h1, h2}, Capacity <- 1, Blank <- None, queue <- events

\* An upload and two rows of one name beside the cleaners.  A batch is one message, so
\* that a deletion is several batches when both rows name it.
Parts == INSTANCE PartLifecycle
  WITH Msgs <- {m1}, Uploads <- {u1}, Rows <- {r1, r2}, BatchSize <- 1

uploadVars    == <<cursor, flooded, blocked, up>>
readerVars    == <<fpc, part, slots, fetch, calling, queue, cause, rpc, cur, limit, ret>>
locationVars  == <<cache, refs, last, gate, cpc, loc, fromCache, retry>>
botVars       == <<uploadVars, st>>
callVars      == <<cooling, call>>
serverVars    == <<ctx, main, handler, events, open, writer, written, accepted, lost>>
partVars      == <<tg, row, old, file, client, cu, cf, use>>
vars == <<subject, readerVars, locationVars, botVars, callVars, serverVars, partVars>>

Init ==
  /\ subject \in {"reader", "locations", "upload", "stream", "calls", "server", "parts"}
  /\ Reader!Init /\ Locations!Init /\ Bots!StreamInit
  /\ Calls!Init /\ (subject # "calls" => \A a \in {a1, a2} : call[a].kind = "change")
  /\ Server!Init /\ Parts!Init

Next ==
  /\ UNCHANGED subject
  /\ \/ /\ subject = "reader" /\ Reader!Next
        /\ UNCHANGED <<locationVars, botVars, callVars, serverVars, partVars>>
     \/ /\ subject = "locations" /\ Locations!Next
        /\ UNCHANGED <<readerVars, botVars, callVars, serverVars, partVars>>
     \/ /\ subject = "upload" /\ Bots!Next /\ UNCHANGED st
        /\ UNCHANGED <<readerVars, locationVars, callVars, serverVars, partVars>>
     \/ /\ subject = "stream"
        /\ \/ Bots!Advance(s1) \/ Bots!Fails(s1)
           \/ Bots!BlockExpires /\ UNCHANGED <<up, st>>
        /\ UNCHANGED <<readerVars, locationVars, callVars, serverVars, partVars>>
     \/ /\ subject = "calls" /\ Calls!Next
        /\ UNCHANGED <<readerVars, locationVars, botVars, serverVars, partVars>>
     \/ /\ subject = "server" /\ Server!Next
        /\ UNCHANGED <<readerVars, locationVars, botVars, callVars, partVars>>
     \/ /\ subject = "parts" /\ Parts!Next
        /\ UNCHANGED <<readerVars, locationVars, botVars, callVars, serverVars>>

\* The fairness of each component, asked of the one that moves.
ReaderFairness ==
  /\ WF_readerVars(subject = "reader" /\ Reader!Filler)
  /\ \A p \in Reader!Parts : WF_readerVars(subject = "reader" /\ Reader!FetchEnds(p))

LocationFairness ==
  \A c \in {c1, c2, c3} :
    /\ WF_locationVars(
         /\ subject = "locations"
         /\ \/ Locations!CacheHit(c) \/ Locations!CacheMiss(c) \/ Locations!Reuse(c)
            \/ Locations!BeginResolve(c) \/ Locations!Calls(c))
    /\ SF_locationVars(subject = "locations" /\ Locations!EnterGate(c))

BotFairness ==
  /\ WF_uploadVars(subject = "upload" /\ Bots!Request(u1))
  /\ WF_botVars(
       /\ subject = "stream"
       /\ Bots!Advance(s1) \/ (Bots!Fails(s1) /\ Bots!Connected(s1)))

CallFairness == \A a \in {a1, a2} : WF_callVars(subject = "calls" /\ Calls!Step(a))

ServerFairness ==
  /\ WF_serverVars(subject = "server" /\ (Server!Receive \/ Server!Save \/ Server!WriterEnds))
  /\ WF_serverVars(subject = "server" /\ Server!ShutdownBegins)
  /\ WF_serverVars(subject = "server" /\ Server!ShutdownReturns)
  /\ WF_serverVars(subject = "server" /\ Server!Exit)

PartFairness ==
  /\ WF_partVars(subject = "parts" /\ Parts!SelectUploads)
  /\ SF_partVars(subject = "parts" /\ Parts!CleanUploadMessages)
  /\ SF_partVars(subject = "parts" /\ Parts!CleanUploadRows)
  /\ WF_partVars(subject = "parts" /\ Parts!SelectFiles)
  /\ SF_partVars(subject = "parts" /\ Parts!CleanFileMessages)
  /\ SF_partVars(subject = "parts" /\ Parts!CleanFileRows)

Spec ==
  /\ Init /\ [][Next]_vars
  /\ ReaderFairness /\ LocationFairness /\ BotFairness
  /\ CallFairness /\ ServerFairness /\ PartFairness

-----------------------------------------------------------------------------
\* The properties of the components, explained in their modules; each is about the
\* behaviors in which its component moves.

\* After a cancellation fillBuffer and every fetch end, also where nobody receives from
\* an unbuffered channel (tgMultiReader).
GoroutinesEnd == Reader!GoroutinesEnd

\* A consumer that keeps reading gets io.EOF or an error (tgMultiReader.Read).
ReaderEnds == Reader!StreamEnds

\* One reader's requests resolve the location once, and those that wait at the gate are
\* served though others are canceled (chunkSource.location).
Coalesced == Locations!ResolvedOnce /\ Locations!WaitersServed

\* Every part upload and call ends, whatever Telegram and the bots do, and so does every
\* stream, unless it waits for a client that is not run (UploadsUpload, FilesStream,
\* retry and recovery).
RequestsAnswered ==
  /\ subject = "upload" => Bots!UploadAnswered
  /\ subject = "stream" => Bots!StreamEnds
  /\ subject = "calls" => Calls!CallEnds

\* While the server runs an accepted event is written or, when its write fails, dropped;
\* told to stop the server exits (processEvents, runApplication).
ServerEnds == Server!AcceptedTaken /\ Server!ShutdownEnds

\* A deleted file is removed in the end, whatever fails or crashes (cleanFiles).
PendingFilesCleaned == Parts!PendingFilesCleaned

\* An expired part row is removed in the end, also without a session (cleanUploads).
ExpiredRowsCleaned == Parts!ExpiredRowsCleaned
=============================================================================
