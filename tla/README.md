# A TLA+ model of teldrive

Teldrive serves files whose bytes are messages of Telegram channels.  This
directory models the parts of the server where steps of several actors meet:
modules, TLC configurations and TLAPS proofs.  Paths are those of the
repository, line numbers those of the modelled commit.

## 1. The system

A *file* is a row of Postgres with an ordered list of *parts*, each the id of a
message in a channel.  A request for bytes goes

    FilesStream -> LinearReader -> tgMultiReader -> chunkSource -> Telegram

and an upload goes

    UploadsUpload (one request per part) -> uploads row -> FilesCreate -> UploadsDelete

while cron jobs delete what is pending deletion or expired.

| Component | State it keeps | Operations | Interacts by | Hard behaviour | What makes it correct |
|---|---|---|---|---|---|
| `internal/reader/tg_multi_reader.go`, `tgMultiReader` | window of fetches, `bufferChan`, current buffer, bytes left, cause of its context | `Read`, `Close`, `fillBuffer`, fetch goroutines | channels, context with cause, chunk source | interleaving, timeouts, late answers, cancellation, unbuffered channel | bytes in order and whole, bounded prefetch, errors in order, no stream without a cause, no goroutine left |
| the same file, `chunkSource` | shared cache entry, last location of the reader, gate | `Chunk`, `location` | cache shared by all readers of a part, Telegram | expiry, foreign references, coalescing, canceled leaders | a stale entry alone never fails a chunk; one resolution per cold reader |
| `internal/tgc/clientcache.go` | map of live clients, each with its goroutine | `GetLiveClient`, `drop`, `CloseLiveClients`, `ReapIdleClients` | mutex, ready channel, detached context | late cleanup, timeouts, Run failing early | no leaked connection, no removed replacement, waiters woken |
| `internal/reader/reader.go`, `tg_reader.go` | position in the list of part ranges, chunk in hand | `Read`, `Close` | part readers, cipher | inconsistent part lists | the bytes of the range in order across parts |
| `internal/tgc/workers.go`, `auth_recovery.go`, `run.go` | bots and cursor per user, three block tables, recent authorizations | `Next`, `MarkBlocked`, `BlockBot`, `RunWithAuth` | upload and stream handlers | shared cursor, two block tables, stale lists | every usable bot gets tried; a blocked bot is avoided |
| `pkg/services/upload.go`, `file.go`, `pkg/cron/cron.go`, `cmd/check.go` | file rows, part rows, messages | upload, create, replace, delete, clean, check | Postgres, Telegram | crash between steps, retries, retention, unsynchronized reads | an active file keeps its messages; nothing is forgotten |
| `internal/cache/cache.go` and its users | read-through entries, most without expiration | `Fetch`, `Delete` | every service | read-through races, missing invalidations | an entry is not older than the last write |
| `internal/tgstorage/kv.go`, `run.go`, `auth_recovery.go` | session row of a bot, its cache entry, memo of authorized bots | `Get`, `Set`, `deleteSession`, `RunWithAuth` | clients of one bot | deletion by name, memo per bot, two steps each | a refusal ends the trust; a good session is spared |
| `internal/tgc/helpers.go` | messages of a request in batches | `GetMessages`, `DeleteMessages` | file service, cleaners | batches side by side, shared error | order kept, success means whole |
| `internal/tgc/channel_manager.go` | selected channel, near-limit verdict, mutex per user | `GetChannelForUpload`, `CreateNewChannel` | Postgres, Telegram, cache | stale verdict, partial failure | one rollover at a time, no orphan channel |
| `internal/events/recorder.go`, `cmd/run.go` | bounded queue of events | `Record`, `processEvents`, `Shutdown` | handlers | full queue, shutdown order | no send after the close |
| `internal/retry`, `internal/recovery` | counters of one call | `Handle` | RPC layer | nested budgets, idempotence | bounded attempts, a write is not repeated |
| `internal/auth` | permanent session cache | `GetSessionByHash` | services | stale sessions | a removed session stops authenticating |
| SQL procedures in `internal/database/migrations` | folder tree | `create_directories`, `delete_files_bulk`, moves | file service | concurrent creation, cycles | a tree, sizes that add up |
| `internal/crypt`, `internal/http_range` | none | sizes, offsets, ranges | readers | boundaries | inverse functions, exact ranges |
| `internal/middleware` | windows of requests | scan detection | HTTP | heuristics | bounded delay |

Which parts are not modelled, and why, is section 5.  `PROJECT.json`
lists every component with its status, and under `hazards` each place where
something could go wrong that a test would hardly reach.

## 2. Plan

Done, in this order: the reader pipeline with its proofs (`OrderedStream`,
`MultiReader`, `MultiReaderProofs`), live clients (`ClientCache`), file references
(`LocationCache`), messages and rows (`PartLifecycle`), file entries (`FileCache`);
then bots, uploads and streams (`BotRotation`, `UploadRetry`, `StreamFallback`), the
sessions of bots (`BotAuth`), calls (`RpcCall`), the body of a stream (`HttpRange`,
`LinearReader`), encryption (`CipherSeek`), channels (`ChannelRollover`), the check
command over `PartLifecycle` (`CheckCommand`), web sessions (`Sessions`), batches
(`BatchCalls`), the scan detector (`Throttle`) and the end of the server
(`Shutdown`).  Then the proofs: `PartLifecycleProofs`, `FileCacheProofs`,
`LocationCacheProofs`, `ClientCacheProofs`, `BotAuthProofs`; `ServiceProofs` (web and bot
sessions, channels, the check command, calls, the recorder of events, the scan detector,
batches and encrypted parts, as they stand in `Services`); and `StreamProofs`, which extends
it (the bots of uploads and streams, the body of a stream, and the types of all components).

`Lists` holds the loop over a list that keeps some of its members, which several
components use; its operator is a recursive function, so that the proofs can use it.

Left: the lists of bots and their cache entries; bulk moves of folders.

Modules build on each other where the code does: `UploadRetry` extends
`BotRotation` and `StreamFallback` extends `UploadRetry`, for uploads and streams
draw bots from one cursor; `LinearReader` extends `HttpRange`; `CheckCommand`
extends `PartLifecycle` and puts the command beside its uploads and file calls.
The other components share nothing with each other that their properties depend
on.  Two modules instantiate several of them: `Services` for safety and
`MCProgress` for liveness.  Their initial state picks the component that moves
(`subject`) and the others stand still, so a run explores the sum of the state
spaces and not a product that would show nothing more.

## 3. Modules and runs

### MultiReader (and OrderedStream)

A byte is its position, a chunk the interval of positions that survives the cuts.
`fpc`, `part`, `slots` are the state of `fillBuffer`; `fetch[p]` is the fetch
goroutine of chunk `p` with its one-element result channel; `calling` are the
source calls that have not returned, which outlive their fetch; `queue` is
`bufferChan`; `cause` the cause of the context; `rpc`, `cur`, `limit`, `ret` the
consumer's.  A channel operation and the local code after it are one step, so
every interleaving at a channel or at a cancellation is explored.  When
the channel is empty and a `Read` waits, the send can hand its chunk straight to
it (`Handoff`), as the Go runtime does; with `Buffers = 0` no chunk passes in
any other way.

| Run | Bounds | What it shows |
|---|---|---|
| `stream_order` | positions 2..12, chunks of 4 (three chunks, both cuts real), window 2, buffer 1, slices of 3 and 8 bytes | types, no abandoned stream, prefetch bound, request bound, errors in order, refinement of `OrderedStream` |
| `progress` (reader) | positions 1..8, chunks of 3, window 2, no buffer | all goroutines end after a cancellation; a reading consumer gets to EOF or an error |

Three chunks are the fewest where a slot is reused while another chunk is in
flight, a failure can be neither first nor last, and a middle chunk has no cut.
The proofs cover every size.

Fairness: `fillBuffer` and the end of each fetch (its timer or its context).  The
Go scheduler and timers give both; no source call has to return.  `StreamEnds`
(`ReaderEnds` of the run) also asks, as its hypothesis, that the consumer goes on reading.

### ClientCache

One key of the map; other keys share only the mutex, and a section under it is a
step.  A *generation* is an entry that was put in the map.  Names are reused
after `Forget`, which is bookkeeping of the model.  Telegram decides in any
order whether a connection is authorized, fails or is lost.  Requests may time
out or be canceled at any wait.

| Run | Bounds | What it shows |
|---|---|---|
| `client_live` | 2 requests, 2 generations at a time | `ClientsKept`: no orphan connection (`NoOrphanClient`), no use before authorization (`AuthorizedUse`), no dead entry (`NoDeadEntry`), one verdict per generation (`VerdictStable`), safe replacements (`ReplacementSafe`); waiters are woken without a timer, removed clients end |
| `client_idle` | as the program is deployed: nothing calls `ReapIdleClients` | fails: an idle client is never closed, against the comment of `clientIdleTimeout` (`clientcache.go:46-47`) |

Two generations are what a replacement needs: one request drops or cancels its
entry while the other, which waited for it or comes anew, creates the next.
`client_live` schedules the reaper so that its code is checked too.  Fairness: goroutines and requests run, a canceled
or failed `Run` returns; connecting may hang for ever and no timer is asked to
fire.

### LocationCache

`refs[n]` holds what the code cannot see of a reference: which bot obtained it,
whether Telegram has let it expire, and which requests of that reader were
running when it was obtained, which stands for the comparison of
`lastLocationAt` with the start of the request.  Names of references are reused
when nothing refers to them.

| Run | Bounds | What it shows |
|---|---|---|
| `location_shared` | two readers with different bots, three requests, five references, expiry and eviction | gate discipline; after a refusal a request uses its own bot's reference, obtained since it started; a reference error reaches the reader only if such a reference expired in that very moment |
| `progress` (locations) | one reader, three requests, no expiry | one resolution; waiters served though others are canceled |

Fairness: calls end; Go serves senders waiting on a channel in order, which the
strong fairness of `EnterGate` stands for.

### PartLifecycle

`tg`, `row` and `file` are Telegram, the table of part rows and the rows of one
name; `client[u]` is the client that works on upload id `u` with the call it has
in progress; `cu` and `cf` are the cleaners between their selection, their
deletion on Telegram and their deletion in the database; `old` are the part rows
past `uploads.retention`.  The client is outside the repository and free: it may
repeat calls, stop, resume, or never call `UploadsDelete`.  Every call may fail
between two steps, deletions may be partial, and `Crash` forgets what is in
memory.  Each selection of a cleaner finds a session or not.  `BatchSize` is the
100 ids of a request to Telegram: `DeleteMessages` of more than that may report
success although a batch failed (`helpers.go:72-76`, the subject of `BatchCalls`),
and `Succeeds` has these outcomes.  `parts_safety` has batches of two: the messages of
one row are a batch, of which a part may be deleted, and those of two rows that share them
are several.  In `progress` a batch is one message.  A file without parts has no message and is left out.

| Run | Bounds | What it shows |
|---|---|---|
| `parts_safety` | two uploads, two messages, two rows, batches of two, symmetric | an acknowledged message of an active file stays on Telegram (`AckedPartsKept`); a deleted file does not come back (`DeletionFinal`); a row that is removed leaves none of the messages it was selected with, when the ids of the selection fit one batch (`RemovedFilesLeaveNothing`) |
| `progress` (parts) | one upload, one message, two rows, batches of one | both cleaners finish their work through failures and crashes (`PendingFilesCleaned`, `ExpiredRowsCleaned`) |

Two messages make a partial deletion possible, two rows an active and a deleted
file of one name, two uploads a replacement beside an upload.

`AckedPartsKept` has three exemptions, and each is a door through which this code
does lose messages: a part row that outlives the retention because nobody called
`UploadsDelete` (`cleanUploads` deletes the message whatever file uses it), a
message that is committed twice (`FilesUpdateParts` repeated after a lost answer
deletes the parts it has just written), and a `FilesUpdateParts` without parts,
which keeps the parts of the row (`file.go:696-698`) and deletes their messages
(`730-733`).  `use` records all three.

`RemovedFilesLeaveNothing` claims nothing of a selection of several batches: a lost
error lets `cron.go:178` remove a row whose messages are left.

Fairness: the cron jobs tick for ever, which weak fairness of the two selections
says, for what there is to clean stays until they or the client take it; for `cleanFiles` it
includes that the user logs in again.  A crash or a failed deletion may interrupt
every tick after that, and the strong fairness of the other four steps stands for a
Telegram that does not refuse every deletion and a server that does not crash in
every tick.  `cleanUploads` needs no session to remove its rows.  Clients are not fair.

### FileCache

The cache entries `files:<id>` and `files:messages:<id>` of one file.  A stream
goes through the steps of `Fetch`: look, read the database or Telegram, store;
operations change the row first and invalidate afterwards.  Messages are
identified with the version of the parts they were uploaded for.  `raced` and
`stale` are history: the value was read before a change of the row and stored
after it; `missed`: the file was marked for deletion by a call that purges other entries
only.  There are two such calls, `FilesDelete` of a folder above the file, which purges
the ids it was given (`file.go:430-440`), and `FilesMove` of another file onto its name
(`545-562`), and `FilesDeleteAbove` is what they do to one file.  Evictions, deletions on
Telegram by others and `cleanFiles` (in one step) are the environment.

| Run | Bounds | What it shows |
|---|---|---|
| `cache_entries` | two streams, two writers, three versions of the parts, two names | once all invalidations are done the cached row has the parts and the status of the row (`CachedRowFollows`) and the cached list is that of its parts (`CachedPartsFollow`), apart from the races of `Fetch`, the status after a `FilesDeleteAbove`, and the list after `FilesUpdate`; of the name nothing is claimed, because of the rename |
| `cache_orphans` | one stream, one writer | fails: `deleteOrphanFile` marks a file whose messages are all there, against its comment (`file.go:745`), when its parts were replaced while the stream held the old row |
| `cache_stale` | one stream, one writer | fails: the cached row keeps the old name after a rename, against `FORK_NOTES.md:38` and the comment at `file.go:582-583` |

### Bots: BotRotation, UploadRetry, StreamFallback

`cursor`, `flooded` and `blocked` are the worker's cursor and the two block tables
(`MarkBlocked` after FLOOD_WAIT, `BlockBot` after AUTH_KEY_UNREGISTERED).  `up[u]` is
a part upload between draws, attempts and sleeps; `st[s]` a stream from the choice
of its bot over the loop of retries to the user's session.  `passed`, `alone` and
`limited` are history of the current cycle.  A body is `Length` writes.  The list of
bots is fixed: `SetWithProxies` sets it once per process.

`services` (bots: two bots, an upload beside a stream, one wait cycle) shows that an
undisturbed upload tries every bot that is not blocked (`AloneTriesEveryBot`), that 429
means that a bot asked to wait (`HonestVerdict`), that a stream ends well only with its
range written once and in order (`OkMeansWhole`) and that a bot that refused a stream
does not serve it again (`RefusedOnce`).  `progress` (upload, stream) shows that each
is answered.  `OkMeansWhole` holds although the retry at `file.go:1152` writes to the
response of the first attempt: what was written already makes the length wrong, and
the response ends in an error.  An upload that shares the cursor may stop before it
tried every bot; the comment at `upload.go:314` has no such exception.

Fairness: a request goes on, and the connection of a stream that is connected ends or
delivers.  A stream is not always connected: with `tg.client-cache` on, the retry at
`file.go:1152` uses a client that was never run, and `getParts` and `tgReader` wait for it
until the consumer leaves.  Nothing is asked of that wait, and `StreamEnds` leaves out the
streams that stay in it.

### BotAuth

The clients of one bot: `row` and `entry` are the session in `teldrive.kv` and in the
cache, `memo` is `autorisesRecemment`, `authorized` what Telegram knows.  A client is a
short-lived one of `RunWithAuth` or a *live* one of `clientcache.go`: `authorizeBot` asks
Telegram whatever the memo says and does not set it, and requests that are refused on a live
client delete the session row, leave the memo alone and keep the client.  Keys are
opaque; one may be revoked.  Each access of the database, the cache, the memo and
Telegram is a step.  The Telegram library stores the session once connected; that
it does not store it again, after a login or when a live client reconnects, is an
assumption, and with it a guarded client that finds no session deletes the one it has just
stored and stays blocked for its five minutes, so that only `GetBotInfo` and the cleaners,
which have no AuthRecovery, make a lasting one.

`services` (auth: two clients of either kind, one revocation): the memo stands for an
answer that no refused work has belied since (`MemoVouched`), a client deletes no good
session it works with alone (`OwnSessionSpared`), the entry agrees with the row
(`EntryFollowsRow`).  The work of one client of `RunWithAuth` that is refused ends the trust;
a refusal at `Status` does not, and neither do those of live clients: in the code both
leave the memo to its ten minutes.  The histories `late`, `raced` and `old` name the
races through which each property can fail in the code: a memo set by an answer older than
the refusal, another login with the same key before the deletion, and an entry
filled with what was read before the row changed, which includes the gap between
the two halves of `deleteSession`.

### RpcCall

A call through recovery, retry and AuthRecovery, two at once on one client with
three tries and one restart of the connection.  `Pass` is the look at `blockedUntil` and
`Send` the invocation after the lock is released, so that a call may go out after another
one's refusal; requests that log in pass in the cooldown and start none.  Telegram executes
what reaches it, and the answer may be lost; `Doubtful` are the outcomes of an attempt that
ended with a broken connection or an internal error of Telegram's.

`services` (calls): a change is executed again only after an end of that kind, never after
the timeout -503 or any other answer (`RepeatedInDoubtOnly`); from a refusal to the end of
the cooldown each call reaches Telegram once at most, with an attempt that had passed
before (`NoStorm`).  `progress` (calls): each call ends.  Fairness: a call goes on, so each
attempt ends.

### HttpRange, LinearReader, CipherSeek

A byte is the pair of its part and its offset; headers hold one or two ranges
with absent, negative and excessive numbers; files have equal parts, a short last
one, one part, no part, or a truncated record (`SomeHeaders` and `SomeFiles` of `Services`,
which are the values of the constants `Headers` and `Files`).  The reader of a part is
`tgReader` (concurrency below two), with chunks of one to four bytes, and the consumer asks
for one or three (`ReadSizes`).  `services` (linear): the body is
the range (`BodyIsTheRange`), a truncated record ends in an error after its bytes
(`TruncatedEndsInError`), a range is served as asked, and
416 is answered only where it cannot be (`AskedIsServed`).  A value without a dash
("bytes=5") indexes past its split and panics in the code, and so does `tgReader` on a
part that is shorter on Telegram than its record; both are left out of the inputs.

`CipherSeek` seals a part block by block and decrypts it from any offset and length.
A block is the range it holds and its nonce; sizes 0, 1, 2, 3, 5, 6 and 7, blocks of two
bytes, a header of two and an overhead of one, a nonce of three binary digits of which two
are added to, every initial nonce, so that each carry happens.  No size needs more blocks
than those digits can number.  `services` (cipher): `RangeDecrypted`, `UnderlyingTight`,
`SizesAgree`.

### ChannelRollover

`channel`, `chosen`, `cached` and `near` are the channels on Telegram, the rows with
their selection, the cached selection and the cached verdicts.  Uploads hold the
user's mutex over all of `GetChannelForUpload`; requests of `user.go` do not.  Channels
fill up between; `tg.auto-channel-create` is on.  `services` (channels: two uploads, a
reader, a choice, one fill): one new channel per full one (`OneChannelPerFill`), and one
selected row that the entry agrees with (`SelectionAgrees`), with the races the module
names.  `UsersUpdateChannel` does not look at the error of the update that unselects the
other rows (`user.go:330-331`): after such a choice (`crossed = "left"`) several rows stay
selected, and only the agreement of the entry with one of them is claimed.  A channel whose
creation fails after its first step stays on Telegram in no row; `made` counts rows.

### CheckCommand

The command's three reads are separate steps beside the uploads and file calls of
`PartLifecycle`; cleaners and crashes are left out.  `use` and `old` are those of
`PartLifecycle`.  `intact` are the rows and messages nobody wrote since the command began.
The look at a file stops at the first message that is missing (`check.go:222`), so the
messages behind it are not in the command's list of parts: in a file that is marked they are
deleted as orphans, though its row names them.  `KeptMessagesSpared` therefore claims
nothing of the messages of files the command marks, unless they have their part row.

| Run | Bounds | What it shows |
|---|---|---|
| `services` (check) | one upload, two messages, one row | `--clean` deletes no message that a file or a part row named all along, but for those of files it marks itself |
| `check_purge` | the same | fails: a complete file is marked for deletion while one of its messages still has its part row (`check.go:199`), though the command is said to purge incomplete files (`check.go:85`) |

### Sessions

Rows, entries and the cached list of one user's web sessions; every call in its
database and cache steps.  `services` (sessions: two sessions, two requests): after a
logout the session authenticates nobody (`LogoutFinal`), after a removal it is not
listed (`RemovedLeavesList`).  The other half of each is not claimed, since the code does
not have it: `UsersRemoveSession` leaves `sessions:<hash>`, and `AuthLogout` makes the key
of the list from `claims.ID`, which no login sets.

### BatchCalls, Throttle, Shutdown

`BatchCalls`: up to three batches, two at a time, whose results go to one shared
variable; what `FilesCopy` does with them.  A copy has the parts of its source in
order, and a single batch that succeeds leaves no message; with several batches a
success may hide the failure of one (`helpers.go:74`), so nothing is claimed.

`Throttle`: the clock and the requests of one client; a request that is no playback is
delayed exactly when more than the threshold arrived within a second
(`DelayedAsCounted`).  `throttle_video` (threshold one, a request without a range and one to
the end) fails: a probe of a video is delayed, though the comment at
`scan_detector.go:253-254` says that video requests are never throttled.

`Shutdown`: two handlers, a queue of one event.  A write that fails drops its event
(`recorder.go:64-69`), which `Failed` does and `lost` records.  `services` (server): the
table holds the accepted events in order and once, except those whose write failed, and then
come the one being written and the queue (`AcceptedInOrder`).  `progress` (server): while
the server runs each accepted event gets its turn and is written or dropped by a failed
write (`AcceptedTaken`); a server told to stop exits although handlers hang, by the timeout
of the drain (`ShutdownEnds`).  A handler that records after the queue was closed panics
after its change, and events queued at the exit are lost.  Fairness: database writes end,
with or without success, the writer and `main` go on.

### The two joint runs

| Run | States | Subjects |
|---|---|---|
| `services` | 1.22 million | cipher, linear, bots, auth, channels, check, sessions, throttle, batches, calls, server |
| `progress` | 22,800 | reader, locations, upload, stream, calls, server, parts; the fairness given above, asked of the subject only |

Each property of these runs is the conjunction of what one component promises, and
the conjuncts are the properties named in the sections above:

| Property | Conjuncts |
|---|---|
| `RangeDecrypted` | `RangeDecrypted`, `UnderlyingTight`, `SizesAgree` |
| `BodyIsTheRange` | `BodyIsTheRange`, `TruncatedEndsInError`, `AskedIsServed` |
| `BotsTried` | `AloneTriesEveryBot`, `OkMeansWhole`, `RefusedOnce`, `HonestVerdict` |
| `TrustEarned` | `MemoVouched`, `EntryFollowsRow`, `OwnSessionSpared` |
| `OneChannel` | `OneChannelPerFill`, `SelectionAgrees` |
| `SessionsEnd` | `LogoutFinal`, `RemovedLeavesList` |
| `BatchesWhole` | `CopyInOrder`, `SuccessIsWhole` |
| `Coalesced` | `ResolvedOnce`, `WaitersServed` |
| `RequestsAnswered` | `UploadAnswered`, `StreamEnds` of a stream, `CallEnds` |
| `CallsSafe` | `RepeatedInDoubtOnly`, `NoStorm` |
| `ServerEnds` | `AcceptedTaken`, `ShutdownEnds` |

`KeptMessagesSpared`, `DelayedAsCounted`, `AcceptedInOrder`, `PendingFilesCleaned` and
`ExpiredRowsCleaned` stand alone.  The other runs with many states: `cache_entries` 5.85
million, `parts_safety` 3.50 million, `client_live` 294,000, `location_shared` 247,000,
`stream_order` 13,700.

## 4. Proofs

`MultiReaderProofs` proves, for every range, chunk size, window and buffer
capacity that `newTGMultiReader` accepts (`RangeAssumption`), the type invariant,
`NeverAbandoned`, `BoundedPrefetch`, `RequestWindow`, `FailureInOrder` and the
refinement `OrderedDelivery`.  The inductive invariant `IInv` is needed because
none of these is inductive alone: it says which chunk each slot holds (chunk `p`
in slot `p % Window`), that fetches beyond the window are untouched, what the
queue contains in terms of `part`, that the current buffer and `limit` give the
consumer's position, and that an early exit of `fillBuffer` leaves a cause.  The
arithmetic lemmas `DivMod`, `DivUnique`, `GridFacts`, `WindowFacts`, `SliceFacts` and `SlotFacts`
say that the cut chunks tile the range; then there is a lemma per action.

`PartLifecycleProofs` proves, for any number of messages, uploads and file rows, the type
invariant, `AckedPartsKept`, `DeletionFinal` and `RemovedFilesLeaveNothing`.  No data loss
is far from inductive: a message disappears because somebody held its id from before.  The
invariant therefore says what each of those who delete messages may hold: an upload the
message it is sending, which nobody else has (`SendInv`); FilesUpdateParts the messages of
the row it overwrites, or of one whose messages it has made loose by keeping them
(`ReplaceInv`); cleanUploads only messages whose part row outlived the retention
(`ExpiredInv`); cleanFiles the messages of rows that stay marked, which are gone once a
deletion of one batch reported success (`CleanInv`); and that a message is kept by one row only (`FileInv`).

`FileCacheProofs` proves, for any number of streams, writers, versions and names, the type
invariant, `CachedRowFollows` and `CachedPartsFollow`.  `HandInv` says that what a stream is
about to store is still the row unless the row changed since it was read; `OweInv`, that a
writer between its commit and its invalidations still owes the row entry.

`LocationCacheProofs` proves, for any number of readers, bots (there is one at least),
chunk requests and references, the type invariant, `GateDiscipline`, `OwnFreshReference`
and `ReferenceErrorMeansExpiry`.  A retry takes its location from `lastLocation` of the
reader, so the invariant says who obtained what `lastLocation` names (`LastIsOwn`), and in
which phases a retry can be under way (`PhaseInv`).

`ClientCacheProofs` proves, for any number of requests and of clients, the type invariant
and `ClientsKept`: three invariants and two action properties.  The only addition
they need is why an entry may be dropped at all (`DropInv`): its creator ran out of time, or
the caller was told that the client failed.

`BotAuthProofs` proves the type invariant and `TrustEarned` for any number of clients and
revocations, as long as there are more keys than clients and no key is the absent one
(`EnoughKeys`; the model names a session by a key, and a new login takes a free one).  Each
of its properties excuses one client that came between two steps of another, so the
invariant has a part for each such pair of steps: between the answer and the memo
(`AnswerInv`), between the read of the row and the entry (`FillInv`), and between the refusal
and the deletion (`RefusedInv`).

`ServiceProofs` and `StreamProofs` are about `Services`, where all components have their
parameters as constants.  A component of it takes its own steps or none (`TrustRuns`,
`ChannelsRun` and so on), so what holds of the component alone holds there.  `TrustEarned`
follows from `BotAuthProofs`, which `Services` instantiates.  The others are proved in place:

- `SessionsEnd`, for any number of sessions and of requests.  Neither half is inductive: a
  request that authenticated before a logout may still make the entry, and a listing that
  read the rows before a removal may still write the list.  `OutInv` and `OffInv` exclude
  those requests for the sessions in `out` and `off`; `RequestInv` says that a request in
  flight knows the sessions it works on.
- `OneChannel`, for any number of channels, uploads, readers and choices.  Its two halves
  are not inductive.  `StepInv` says that the mutex keeps uploads apart, `SelectedInv` that
  only a choice that has just begun, or one that failed to unselect the others, leaves two
  rows selected, `CachedInv` that an entry that
  disagrees is about to be overwritten.  While nobody chooses, an upload goes on to make a
  channel only if what is selected is full (`FullInv`), so each one made but the first took
  the place of one that had filled up (`CountInv`).
- `KeptMessagesSpared`: the check command compares sets read at different times; `ReadInv`,
  `ListedInv` and `OrphanInv` say what the command still knows of the messages and rows
  that were not written since.
- `CallsSafe`: a call that may be sent again was not executed yet, or nobody knows
  (`Repeatable`), and one that passed AuthRecovery has sent nothing in this cooldown, or logs
  in (`CallOK`), for any number of attempts, at least one of each call, and of restarts
  (`LimitsGiven`).
- `AcceptedInOrder`, which is inductive with the types of `Shutdown`, for any number of
  handlers and any length of the queue; handlers name their events, which are neither the
  zero event nor a state of the writer (`EventsNamed`).
- `DelayedAsCounted`, for any threshold, window and lifetime of an entry: the requests that
  are kept are the end of the arrivals, which are in order, and those that were forgotten
  are too old to count (`ScanInv`).
- `BatchesWhole`, for any number of messages, batch size and limit of batches at a time: an
  answered batch has its messages in the order of the ids, and the batches joined in order
  are all of them (`JoinedInOrder`); the error of a batch that is alone is its own
  (`AloneInv`).
- `RangeDecrypted`, for any sizes, nonces and blocks such that a size has no more blocks than
  the low digits of the nonce can number (`CipherAssumption`).  Block `j` is sealed under the
  nonce of the part plus `j - 1`, and a reader that has had `j` blocks holds the plain
  text from where its range goes on (`Holding`).  What carries it is `AddNext`: adding a
  number to a nonce, digit by digit with its carry (`nonce.add`), is as many increments of it
  (`nonce.increment`).
- `BotsTried`, for any number of bots, uploads, streams and wait cycles.  An upload knows
  that the tokens behind the cursor, as many as it has drawn, are ones that it tried or that
  `Next` passed over, as long as nobody else draws (`CoveredFrom`); when its draws are as
  many as the bots, these are all (`AllTried`).  A stream knows that who refused it is neither
  its bot nor on the list of those still to try (`RefusalOK`), and that an attempt that wrote
  as much as the body holds wrote all of it (`BodyOK`).
- `BodyIsTheRange`, for any headers, files with parts of equal size but the last, chunk
  limits and slices: between two reads the reader is at the next byte of its part (`Midway`),
  and a mismatch is reported only where the parts do not cover the record.  `ChunkHalved`
  says that halving the chunk size ends between one byte and the largest chunk, `FilledAt` and
  `TakenAt` that a buffer holds the bytes from where the reader stands.

The induction theorems of the library take an operator as a parameter, which the provers
cannot instantiate.  Where a property is about what a loop over data computes, the lemmas say
so for every input from a least counterexample instead (`Induct`, which needs only that `<` is
well founded): what `Keep` leaves of a list and that it keeps the order (`KeepEquation`,
`KeepMembers`, `KeepCount`), the joined batches (`FlattenEquation`), the chunk size
(`ChunkHalved`), the carry (`PowersEquation`, `LeftEquation`) and the blocks of a stored part
(`StoredBlocks`).  `Recursion` is what makes them possible: a function defined by recursion
over numbers meets its equation.

Each inductive invariant was checked with TLC on the constants of the run of its component
before it was proved.  TLC evaluates the assumptions on constants in the runs: those of a
module that is only instantiated (`CipherGiven`, `BodyGiven`, `BotsGiven`, `EnoughKeys`,
`RequestsApart`, `LimitsGiven`, `EventsNamed`, `WindowGiven`, `BatchesGiven`) are assumed of
the instance in `Services`.  Apart from what is named above they say that absent values are no
members of the sets, that a request is of one kind, that sizes and limits are numbers and
positive where the code divides by them or waits for them, that no bot is listed twice, and
that an entry of the scan detector outlives its window.

`TypesOK` closes `StreamProofs`.  Most of it is part of the invariants above; what it adds is
proved there: the clock of the scan detector is bounded and no access is later (`ClockInv`),
a copy that failed still names messages of its source only (`CopiedInv`), the check command
holds what it has read and nothing else (`HeldInv`), and an upload has tried no more bots than
it drew, with one in hand exactly while it tries (`TriedInv`).

Only model-checked: the liveness properties (those of `progress` and `client_live`), which
the prover does not reach.  Every invariant and action property that a
passing run checks is proved.

## 5. Not modelled

- The folder tree in SQL: procedures of the database that Postgres runs each in one
  transaction.  `delete_files_bulk` appears as its effect on one file.
- Lists of bots: `SetWithProxies` sets them once per process, and `users:bots:proxies`
  (`channel_manager.go:162`) is not invalidated by `UsersAddBots` and `UsersRemoveBots`.
- The dialogue of `AuthWs` with Telegram before a login (its goroutines may also write
  to one connection at once), shares, queries that change nothing, statistics.
- `BlockDC` and its table: nothing calls it.
- Errors and short blocks of the source in `CipherSeek` (`cipher.go:328-348`): a read that
  fails fails the stream, which the readers above it have in their own models.
- The gap in `AuthLogin` between the question to Telegram (`auth.go:101`) and the row
  (`119`): the row is new, nobody else writes it, and nothing depends on the gap.
- The order in which `Read` sees a recorded failure and the chunks that are queued before it:
  its `select` may take either, and `FailureInOrder` speaks of `fillBuffer` only.
- Whether a live client that was handed out is still connected: it may end at any moment
  after that, and the request then fails.
- Redis and the memory cache behind the interface, configuration, logging, database
  connection, helpers, models, generated API code, user interface, scripts.

## 6. Findings

| Run | Code | What it contradicts |
|---|---|---|
| `client_idle` | `ReapIdleClients` is called from nowhere | comment of `clientIdleTimeout`, `clientcache.go:46-47` |
| `cache_orphans` | `deleteOrphanFile` acts on an old row | its comment, `file.go:745` |
| `cache_stale` | the rename of `FilesMove` invalidates nothing | `FORK_NOTES.md:38`, `file.go:582-583` |
| `check_purge` | messages with a part row count as missing | `check.go:85` |
| `throttle_video` | a video request without a significant range is delayed | comment of `isVideoRequest`, `scan_detector.go:253-254` |
