------------------------------ MODULE FileCache ------------------------------
(***************************************************************************)
(* The two read-through cache entries of one file, its row (files:<id>)    *)
(* and its message list (files:messages:<id>), between the streams that    *)
(* fill them and the operations that change the row (internal/cache/       *)
(* cache.go, pkg/services/file.go, pkg/services/common.go).                *)
(*                                                                         *)
(* Fetch takes no lock across its Get, its database or Telegram call and   *)
(* its Set.  Messages belong to a version of the parts of the file; the    *)
(* parts of one version are deleted together.                              *)
(***************************************************************************)
EXTENDS Naturals, FiniteSets

CONSTANTS
  Streams,   \* calls of FilesStream
  Writers,   \* calls that change the row
  MaxVersion, \* bound on the versions of the parts
  Names,     \* names the file can have
  None

Versions == 1..MaxVersion

ASSUME VersionsAssumption == MaxVersion \in Nat \ {0}
\* The rows of the file.
FileRows == [name : Names, parts : Versions, status : {"active", "pending", "removed"}]

ASSUME NoneAssumption == None \notin Versions /\ None \notin FileRows

VARIABLES
  row,     \* the row in the database: name, version of the parts, which each upload
           \* increments, and status active, pending or removed
  gone,    \* versions whose messages are no longer on Telegram
  cfile,   \* entry files:<id>: the row stored, or None; raced and missed are history
  cmsgs,   \* entry files:messages:<id>: the version of the parts, or None
  stream,  \* stream[s]: pc, the row in hand; stale is a history flag
  writer   \* writer[w]: pc, keys still to delete, version whose messages go first

vars == <<row, gone, cfile, cmsgs, stream, writer>>

Waiting == [pc |-> "idle", row |-> None, stale |-> FALSE]
Resting == [pc |-> "idle", keys |-> {}, old |-> None]

Init ==
  /\ \E n \in Names : row = [name |-> n, parts |-> 1, status |-> "active"]
  /\ gone = {}
  /\ cfile = None /\ cmsgs = None
  /\ stream = [s \in Streams |-> Waiting]
  /\ writer = [w \in Writers |-> Resting]

\* The row changes: what streams have in hand is no longer the current row.
SetRow(r) ==
  /\ row' = r
  /\ stream' = [s \in Streams |-> [stream[s] EXCEPT !.stale = @ \/ stream[s].row /= None]]

(***************************************************************************)
(* FilesStream.                                                            *)
(***************************************************************************)
\* Fetch of the row: found in the cache ...
RowHit(s) ==
  /\ stream[s].pc = "idle" /\ cfile /= None
  /\ stream' = [stream EXCEPT ![s] = [pc |-> "opened", row |-> cfile.row,
                                      stale |-> cfile.row.parts /= row.parts]]
  /\ UNCHANGED <<row, gone, cfile, cmsgs, writer>>

\* ... or not ...
RowMiss(s) ==
  /\ stream[s].pc = "idle" /\ cfile = None
  /\ stream' = [stream EXCEPT ![s].pc = "query"]
  /\ UNCHANGED <<row, gone, cfile, cmsgs, writer>>

\* ... read from the database, whatever its status ...
ReadRow(s) ==
  /\ stream[s].pc = "query"
  /\ stream' = [stream EXCEPT ![s] = IF row.status = "removed" THEN Waiting
                                     ELSE [pc |-> "store", row |-> row, stale |-> FALSE]]
  /\ UNCHANGED <<row, gone, cfile, cmsgs, writer>>

\* ... and stored, without expiration.
StoreRow(s) ==
  /\ stream[s].pc = "store"
  /\ cfile' = [row |-> stream[s].row, raced |-> stream[s].stale, missed |-> FALSE]
  /\ stream' = [stream EXCEPT ![s].pc = "opened"]
  /\ UNCHANGED <<row, gone, cmsgs, writer>>

\* getParts: the list is in the cache; the bytes are read and the call ends.
PartsHit(s) ==
  /\ stream[s].pc = "opened" /\ cmsgs /= None
  /\ stream' = [stream EXCEPT ![s] = Waiting]
  /\ UNCHANGED <<row, gone, cfile, cmsgs, writer>>

\* The list is in the cache but its messages are not on Telegram any more: where
\* the location of a part is resolved again, the error may be MESSAGE_IDS_EMPTY.
CachedPartsMissing(s) ==
  /\ stream[s].pc = "opened" /\ cmsgs /= None
  /\ cmsgs.parts \in gone
  /\ stream' = [stream EXCEPT ![s].pc = "orphan"]
  /\ UNCHANGED <<row, gone, cfile, cmsgs, writer>>

\* getParts asks Telegram for the messages of the row in hand; missing ones are
\* the errors MESSAGE_IDS_EMPTY or "file parts mismatch".
AskTelegram(s) ==
  /\ stream[s].pc = "opened" /\ cmsgs = None
  /\ stream' = [stream EXCEPT ![s].pc =
                  IF stream[s].row.parts \in gone THEN "orphan" ELSE "keep"]
  /\ UNCHANGED <<row, gone, cfile, cmsgs, writer>>

StoreParts(s) ==
  /\ stream[s].pc = "keep"
  /\ cmsgs' = [parts |-> stream[s].row.parts, raced |-> stream[s].stale]
  /\ stream' = [stream EXCEPT ![s] = Waiting]
  /\ UNCHANGED <<row, gone, cfile, writer>>

\* Mutant: the call ends without letting go of its row.
StreamFailsHolding(s) ==
  /\ stream[s].pc \in {"query", "opened"}
  /\ stream' = [stream EXCEPT ![s].pc = "idle"]
  /\ UNCHANGED <<row, gone, cfile, cmsgs, writer>>

\* The call ends on another error, before or while it reads.
StreamFails(s) ==
  /\ stream[s].pc \in {"query", "opened"}
  /\ stream' = [stream EXCEPT ![s] = Waiting]
  /\ UNCHANGED <<row, gone, cfile, cmsgs, writer>>

Deleted(r) == [r EXCEPT !.status = IF @ = "active" THEN "pending" ELSE @]

\* deleteOrphanFile: by id, the row is marked for deletion ...
MarkOrphan(s) ==
  /\ stream[s].pc = "orphan"
  /\ row' = Deleted(row)
  /\ stream' = [q \in Streams |->
       IF q = s THEN [stream[q] EXCEPT !.pc = "drop"]
                ELSE [stream[q] EXCEPT !.stale = @ \/ stream[q].row /= None]]
  /\ UNCHANGED <<gone, cfile, cmsgs, writer>>

\* ... and its entries are deleted.
DropOrphan(s) ==
  /\ stream[s].pc = "drop"
  /\ cfile' = None /\ cmsgs' = None
  /\ stream' = [stream EXCEPT ![s] = Waiting]
  /\ UNCHANGED <<row, gone, writer>>

(***************************************************************************)
(* Operations on the row.  Each changes the database first, the cache next.*)
(***************************************************************************)
Begin(w, pc, keys, old) ==
  writer' = [writer EXCEPT ![w] = [pc |-> pc, keys |-> keys, old |-> old]]

NewParts == [row EXCEPT !.parts = @ + 1]

\* Mutant: only the row is invalidated.
FilesCreateRowOnly(w) ==
  /\ writer[w].pc = "idle" /\ row.status = "active" /\ row.parts < MaxVersion
  /\ SetRow(NewParts)
  /\ Begin(w, "written", {"file"}, None)
  /\ UNCHANGED <<gone, cfile, cmsgs>>

\* FilesCreate over the active file: its id stays.
FilesCreate(w) ==
  /\ writer[w].pc = "idle" /\ row.status = "active" /\ row.parts < MaxVersion
  /\ SetRow(NewParts)
  /\ Begin(w, "written", {"file", "messages"}, None)
  /\ UNCHANGED <<gone, cfile, cmsgs>>

\* FilesUpdate with new parts: the message list is not invalidated.
FilesUpdate(w) ==
  /\ writer[w].pc = "idle" /\ row.status /= "removed" /\ row.parts < MaxVersion
  /\ SetRow(NewParts)
  /\ cmsgs' = IF cmsgs = None THEN None ELSE [cmsgs EXCEPT !.raced = TRUE]
  /\ Begin(w, "written", {"file"}, None)
  /\ UNCHANGED <<gone, cfile>>

\* FilesUpdateParts: the transaction ...
FilesUpdateParts(w) ==
  /\ writer[w].pc = "idle" /\ row.status /= "removed" /\ row.parts < MaxVersion
  /\ SetRow(NewParts)
  /\ Begin(w, "committed", {"file", "messages"}, row.parts)
  /\ UNCHANGED <<gone, cfile, cmsgs>>

\* ... then the messages of the old parts; an error is ignored ...
DeleteReplaced(w) ==
  /\ writer[w].pc = "committed"
  /\ gone' \in {gone, gone \cup {writer[w].old}}
  /\ Begin(w, "written", writer[w].keys, None)
  /\ UNCHANGED <<row, cfile, cmsgs, stream>>

\* ... then, as for the others, the entries.
Invalidate(w) ==
  /\ writer[w].pc = "written"
  /\ cfile' = IF "file" \in writer[w].keys THEN None ELSE cfile
  /\ cmsgs' = IF "messages" \in writer[w].keys THEN None ELSE cmsgs
  /\ writer' = [writer EXCEPT ![w] = Resting]
  /\ UNCHANGED <<row, gone, stream>>

\* Mutant: as FilesDelete was before its invalidation was added.
FilesDeleteNoPurge(w) ==
  /\ writer[w].pc = "idle" /\ row.status /= "removed"
  /\ SetRow(Deleted(row))
  /\ Begin(w, "written", {}, None)
  /\ UNCHANGED <<gone, cfile, cmsgs>>

FilesDelete(w) ==
  /\ writer[w].pc = "idle" /\ row.status /= "removed"
  /\ SetRow(Deleted(row))
  /\ Begin(w, "written", {"file"}, None)
  /\ UNCHANGED <<gone, cfile, cmsgs>>

\* The row is marked by a call that purges other entries only: FilesDelete of a folder
\* above it, which purges the ids it was given, or FilesMove of another file onto its
\* name, which returns before it purges any.
FilesDeleteAbove(w) ==
  /\ writer[w].pc = "idle" /\ row.status = "active"
  /\ SetRow(Deleted(row))
  /\ cfile' = IF cfile = None THEN None ELSE [cfile EXCEPT !.missed = TRUE]
  /\ UNCHANGED <<gone, cmsgs, writer>>

\* FilesMove of one file with a new name: it returns before the invalidation.
FilesRename(w) ==
  /\ writer[w].pc = "idle" /\ row.status /= "removed"
  /\ \E n \in Names \ {row.name} : SetRow([row EXCEPT !.name = n])
  /\ UNCHANGED <<gone, cfile, cmsgs, writer>>

\* cleanFiles, at once: its steps are those of PartLifecycle.
CleanFiles ==
  /\ row.status = "pending"
  /\ gone' = gone \cup {row.parts}
  /\ SetRow([row EXCEPT !.status = "removed"])
  /\ UNCHANGED <<cfile, cmsgs, writer>>

\* The message list lives for 60 minutes; the cache may evict either entry.
EvictFile  == cfile /= None /\ cfile' = None /\ UNCHANGED <<row, gone, cmsgs, stream, writer>>
EvictParts == cmsgs /= None /\ cmsgs' = None /\ UNCHANGED <<row, gone, cfile, stream, writer>>

\* Somebody deletes the messages of the file on Telegram.
Vanish ==
  /\ row.parts \notin gone
  /\ gone' = gone \cup {row.parts}
  /\ UNCHANGED <<row, cfile, cmsgs, stream, writer>>

------------------------------------------------------------------------------
FilesStream(s) ==
  \/ RowHit(s) \/ RowMiss(s) \/ ReadRow(s) \/ StoreRow(s)
  \/ PartsHit(s) \/ CachedPartsMissing(s) \/ AskTelegram(s) \/ StoreParts(s) \/ StreamFails(s)
  \/ MarkOrphan(s) \/ DropOrphan(s)

Write(w) ==
  \/ FilesCreate(w) \/ FilesUpdate(w) \/ FilesUpdateParts(w) \/ FilesDelete(w)
  \/ FilesDeleteAbove(w) \/ FilesRename(w) \/ DeleteReplaced(w) \/ Invalidate(w)

Next ==
  \/ \E s \in Streams : FilesStream(s)
  \/ \E w \in Writers : Write(w)
  \/ CleanFiles \/ EvictFile \/ EvictParts \/ Vanish

Spec == Init /\ [][Next]_vars

------------------------------------------------------------------------------
Calls == [pc : {"idle", "query", "store", "opened", "keep", "orphan", "drop"},
          row : FileRows \cup {None}, stale : BOOLEAN]

Operations == [pc : {"idle", "committed", "written"}, keys : SUBSET {"file", "messages"},
               old : Versions \cup {None}]

TypeOK ==
  /\ row \in FileRows /\ gone \subseteq Versions
  /\ \A v \in gone : v <= row.parts
  /\ cfile = None \/ cfile \in [row : FileRows, raced : BOOLEAN, missed : BOOLEAN]
  /\ cmsgs = None \/ cmsgs \in [parts : Versions, raced : BOOLEAN]
  /\ stream \in [Streams -> Calls]
  /\ \A s \in Streams : stream[s].row = None <=> stream[s].pc \in {"idle", "query"}
  /\ writer \in [Writers -> Operations]

\* An invalidation of the entry is still to come.
Due(key) ==
  \/ \E w \in Writers : key \in writer[w].keys
  \/ \E s \in Streams : stream[s].pc = "drop"

\* The cached row has the parts and the status of the row once every operation has
\* done its invalidation. It excepts an entry whose stream had read the row before a
\* change that was invalidated before it stored it (raced), which Fetch does not
\* prevent; and of an entry that was there when the file was marked through a folder
\* above it or by a FilesMove onto its name (missed), whose entry nobody purges, it
\* promises the parts only.
CachedRowFollows ==
  cfile /= None /\ ~cfile.raced /\ row.status /= "removed" /\ ~Due("file")
    => /\ cfile.row.parts = row.parts
       /\ cfile.missed \/ cfile.row.status = row.status

\* Likewise the cached message list, except where FilesUpdate replaced the parts:
\* it leaves the list to its 60 minutes.
CachedPartsFollow ==
  cmsgs /= None /\ ~cmsgs.raced /\ ~Due("messages") => cmsgs.parts = row.parts

\* The comment of deleteOrphanFile (file.go:745): what it marks is a file whose
\* Telegram messages are gone.
OnlyOrphansMarked ==
  [][\A s \in Streams : MarkOrphan(s) /\ row.status = "active" => row.parts \in gone]_vars

\* FORK_NOTES.md:38: an operation that replaces, moves or deletes a file
\* invalidates the entries it affects, so that, when no call is in progress, each
\* entry agrees with the row.
EntriesAgreeWhenQuiet ==
  (\A s \in Streams : stream[s].pc = "idle") /\ (\A w \in Writers : writer[w].pc = "idle")
    => /\ cfile /= None => cfile.row = row
       /\ cmsgs /= None => cmsgs.parts = row.parts
==============================================================================
