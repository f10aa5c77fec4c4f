---------------------------- MODULE PartLifecycle ----------------------------
(***************************************************************************)
(* The life of the messages that hold the parts of files: uploads, their   *)
(* part rows, file rows, replacement, deletion and the two cron cleaners   *)
(* (pkg/services/upload.go, pkg/services/file.go, pkg/cron/cron.go).  One  *)
(* user, one channel, one file name: the cleaners work group by group and  *)
(* the rows of other names are independent.                                *)
(*                                                                         *)
(* The client is not part of the repository and is free: it may repeat a   *)
(* call whose answer was lost, stop anywhere, come back with the same      *)
(* upload id and resume from the part rows, or never call UploadsDelete.   *)
(***************************************************************************)
EXTENDS Naturals, FiniteSets

CONSTANTS
  Msgs,      \* Telegram messages that can be sent; ids are not used twice
  Uploads,   \* upload ids, each with the client that works on it
  Rows,      \* ids of file rows that exist at the same time
  BatchSize, \* ids that DeleteMessages sends in one request, 100
  None

ASSUME NoneAssumption == None \notin Msgs \cup Uploads \cup Rows

VARIABLES
  tg,       \* tg[m]: unsent, there or gone
  row,      \* row[m]: the upload whose part row in teldrive.uploads holds m, or None
  old,      \* messages whose part row is there and older than uploads.retention
  file,     \* file[r]: status free, active or pending, and the messages of its parts
  client,   \* client[u]: pc of the call in progress, parts it would commit, the
            \* message being uploaded, the row and the old parts being replaced
  cu,       \* cleanUploads: step, ids selected, session selected with them
  cf,       \* cleanFiles: step and the parts of the rows selected
  use       \* history: use[m] is "acked" once UploadsUpload has acknowledged m,
            \* "kept" once m was then put in a file row, and "loose" when its part
            \* row expired, when m was put in a file row unacknowledged or again, or
            \* when FilesUpdateParts left it in the row whose messages it deletes

vars == <<tg, row, old, file, client, cu, cf, use>>
cron == <<cu, cf>>

Free   == [status |-> "free", parts |-> {}]
Idle   == [pc |-> "open", parts |-> {}, msg |-> None, target |-> None, replaced |-> {}]
NoRun  == [step |-> "idle", ids |-> {}, session |-> FALSE]
NoScan == [step |-> "idle", parts |-> [r \in {} |-> {}]]

Init ==
  /\ tg = [m \in Msgs |-> "unsent"]
  /\ row = [m \in Msgs |-> None]
  /\ old = {}
  /\ file = [r \in Rows |-> Free]
  /\ client = [u \in Uploads |-> Idle]
  /\ cu = NoRun /\ cf = NoScan
  /\ use = [m \in Msgs |-> "new"]

\* Messages of ms that Telegram deletes.
Delete(ms) == tg' = [m \in Msgs |-> IF m \in ms /\ tg[m] = "there" THEN "gone" ELSE tg[m]]

\* DeleteMessages returns nil for a list of so many ids: a single batch was deleted; of
\* several, some may have failed, whose error was overwritten (BatchCalls).
Succeeds(ms, ids) == \E done \in SUBSET ms : (ids <= BatchSize => done = ms) /\ Delete(done)

\* It fails, perhaps after some batches.
FailsOn(ms) == \E done \in SUBSET ms : Delete(done)

\* The part rows of ms are deleted.
DropRows(ms) ==
  /\ row' = [m \in Msgs |-> IF m \in ms THEN None ELSE row[m]]
  /\ old' = old \ ms

RowsOf(u) == {m \in Msgs : row[m] = u}

(***************************************************************************)
(* Uploading.                                                              *)
(***************************************************************************)
\* UploadsPartsById: the part rows of u younger than the retention.
Listed(u) == RowsOf(u) \ old

\* A client starts an upload, or resumes one from its part rows.
UploadsPartsById(u) ==
  /\ client[u].pc = "open"
  /\ client' = [client EXCEPT ![u].parts = Listed(u)]
  /\ UNCHANGED <<tg, row, old, file, cron, use>>

\* Mutant: the part row is written before the message is sent.
SendPartLater(u, m) ==
  /\ client[u].pc = "open" /\ tg[m] = "unsent"
  /\ client' = [client EXCEPT ![u].pc = "sent", ![u].msg = m]
  /\ UNCHANGED <<tg, row, old, file, cron, use>>

\* doUpload: the message is sent ...
SendPart(u, m) ==
  /\ client[u].pc = "open" /\ tg[m] = "unsent"
  /\ tg' = [tg EXCEPT ![m] = "there"]
  /\ client' = [client EXCEPT ![u].pc = "sent", ![u].msg = m]
  /\ UNCHANGED <<row, old, file, cron, use>>

\* ... its part row is created ...
CreatePartRow(u) ==
  /\ client[u].pc = "sent"
  /\ row' = [row EXCEPT ![client[u].msg] = u]
  /\ client' = [client EXCEPT ![u].pc = "stored"]
  /\ UNCHANGED <<tg, old, file, cron, use>>

\* The answer to the client, with the part or with an error.
Answer(u, parts) ==
  client' = [client EXCEPT ![u].pc = "open", ![u].parts = parts, ![u].msg = None]

\* ... and the message is read back: it has the right size.
VerifyOk(u) ==
  /\ client[u].pc = "stored" /\ tg[client[u].msg] = "there"
  /\ Answer(u, client[u].parts \cup {client[u].msg})
  /\ use' = [use EXCEPT ![client[u].msg] = IF @ = "new" THEN "acked" ELSE @]
  /\ UNCHANGED <<tg, row, old, file, cron>>

\* It has another size: the message is deleted, the row stays.
VerifyWrongSize(u) ==
  /\ client[u].pc = "stored"
  /\ Delete({client[u].msg})
  /\ Answer(u, client[u].parts)
  /\ UNCHANGED <<row, old, file, cron, use>>

\* A call fails before the row is created, or while the message is read back.
UploadFails(u) ==
  /\ client[u].pc \in {"sent", "stored"}
  /\ Answer(u, client[u].parts)
  /\ UNCHANGED <<tg, row, old, file, cron, use>>

\* UploadsDelete: at the end of an upload, or to give it up.
UploadsDelete(u) ==
  /\ client[u].pc = "open"
  /\ DropRows(RowsOf(u))
  /\ UNCHANGED <<tg, file, client, cron, use>>

(***************************************************************************)
(* File rows.                                                              *)
(***************************************************************************)
\* The messages ms are put in a file row that held the messages held.
Put(ms, held) ==
  use' = [m \in Msgs |-> IF m \notin ms \/ (m \in held /\ use[m] = "kept") THEN use[m]
                          ELSE IF use[m] = "acked" THEN "kept" ELSE "loose"]

\* Row r gets the parts ms.
SetParts(r, status, ms) ==
  /\ file' = [file EXCEPT ![r] = [status |-> status, parts |-> ms]]
  /\ Put(ms, file[r].parts)

\* A row id that no call in progress refers to.
Unused(r) ==
  /\ file[r].status = "free" /\ r \notin DOMAIN cf.parts
  /\ \A u \in Uploads : client[u].target /= r

\* Mutant: the upsert matches deleted rows too.
FilesCreateOverDeleted(u) ==
  /\ client[u].pc = "open" /\ client[u].parts /= {}
  /\ \E r \in Rows :
       /\ IF \E a \in Rows : file[a].status /= "free"
          THEN file[r].status /= "free"
          ELSE Unused(r)
       /\ SetParts(r, "active", client[u].parts)
  /\ UNCHANGED <<tg, row, old, client, cron>>

\* FilesCreate: the upsert on the active row of that name, or a new row.  A file without
\* parts has no message to lose and is left out.
FilesCreate(u) ==
  /\ client[u].pc = "open" /\ client[u].parts /= {}
  /\ \E r \in Rows :
       /\ IF \E a \in Rows : file[a].status = "active"
          THEN file[r].status = "active"
          ELSE Unused(r)
       /\ SetParts(r, "active", client[u].parts)
  /\ UNCHANGED <<tg, row, old, client, cron>>

\* FilesUpdate with parts, by id, whatever the status of the row.
FilesUpdate(u) ==
  /\ client[u].pc = "open" /\ client[u].parts /= {}
  /\ \E r \in Rows :
       /\ file[r].status /= "free"
       /\ SetParts(r, file[r].status, client[u].parts)
  /\ UNCHANGED <<tg, row, old, client, cron>>

\* FilesUpdateParts: the transaction reads the row ...
ReadOldParts(u) ==
  /\ client[u].pc = "open"
  /\ \E r \in Rows :
       /\ file[r].status /= "free"
       /\ client' = [client EXCEPT ![u].pc = "read", ![u].target = r,
                                   ![u].replaced = file[r].parts]
  /\ UNCHANGED <<tg, row, old, file, cron, use>>

\* ... writes the new parts, or none when the request has none and the row keeps its
\* own, and deletes the part rows of the upload id, when the request names one, ...
WriteNewParts(u) ==
  LET r == client[u].target IN
  /\ client[u].pc = "read"
  /\ \/ file[r].status = "free" /\ UNCHANGED <<file, use>>
     \/ /\ file[r].status /= "free" /\ client[u].parts /= {}
        /\ file' = [file EXCEPT ![r].parts = client[u].parts]
        /\ Put(client[u].parts, {})
     \/ /\ file[r].status /= "free" /\ UNCHANGED file
        /\ Put(client[u].replaced, {})
  /\ \E named \in BOOLEAN : DropRows(IF named THEN RowsOf(u) ELSE {})
  /\ client' = [client EXCEPT ![u].pc = "written"]
  /\ UNCHANGED <<tg, cron>>

\* ... and, after the commit, deletes the messages of the row it read, whether they
\* were replaced or kept; errors are ignored.
DeleteReplaced(u) ==
  /\ client[u].pc = "written"
  /\ FailsOn(client[u].replaced)
  /\ client' = [client EXCEPT ![u].pc = "open", ![u].target = None, ![u].replaced = {}]
  /\ UNCHANGED <<row, old, file, cron, use>>

\* delete_files_bulk, called by FilesDelete, FilesMove and deleteOrphanFile.
FilesDelete(r) ==
  /\ file[r].status = "active"
  /\ file' = [file EXCEPT ![r].status = "pending"]
  /\ UNCHANGED <<tg, row, old, client, cron, use>>

(***************************************************************************)
(* cleanUploads.                                                           *)
(***************************************************************************)
\* Mutant: the rows to clean are not limited to the expired ones.
SelectAnyUploads ==
  /\ cu.step = "idle" /\ \E m \in Msgs : row[m] /= None
  /\ \E hasSession \in BOOLEAN :
       cu' = [step |-> "selected", ids |-> {m \in Msgs : row[m] /= None}, session |-> hasSession]
  /\ UNCHANGED <<tg, row, old, file, client, cf, use>>

SelectUploads ==
  /\ cu.step = "idle" /\ old /= {}
  /\ \E hasSession \in BOOLEAN :
       cu' = [step |-> "selected", ids |-> old, session |-> hasSession]
  /\ UNCHANGED <<tg, row, old, file, client, cf, use>>

\* Mutant: a group without a session is skipped, as in cleanFiles.
CleanUploadsSkips ==
  /\ cu.step = "selected"
  /\ IF cu.session
     THEN Succeeds(cu.ids, Cardinality(cu.ids)) /\ cu' = [cu EXCEPT !.step = "deleted"]
     ELSE tg' = tg /\ cu' = NoRun
  /\ UNCHANGED <<row, old, file, client, cf, use>>

\* Without a session the messages are left where they are.
CleanUploadMessages ==
  /\ cu.step = "selected"
  /\ IF cu.session THEN Succeeds(cu.ids, Cardinality(cu.ids)) ELSE tg' = tg
  /\ cu' = [cu EXCEPT !.step = "deleted"]
  /\ UNCHANGED <<row, old, file, client, cf, use>>

\* No client, or DeleteMessages fails: next group.
CleanUploadsFails ==
  /\ cu.step = "selected" /\ cu.session
  /\ FailsOn(cu.ids)
  /\ cu' = NoRun
  /\ UNCHANGED <<row, old, file, client, cf, use>>

CleanUploadRows ==
  /\ cu.step = "deleted"
  /\ DropRows(cu.ids)
  /\ cu' = NoRun
  /\ UNCHANGED <<tg, file, client, cf, use>>

(***************************************************************************)
(* cleanFiles.                                                             *)
(***************************************************************************)
Pending == {r \in Rows : file[r].status = "pending"}

\* A group without a session is skipped.
SelectFiles ==
  /\ cf.step = "idle" /\ Pending /= {}
  /\ cf' = [step |-> "selected", parts |-> [r \in Pending |-> file[r].parts]]
  /\ UNCHANGED <<tg, row, old, file, client, cu, use>>

Selected == UNION {cf.parts[r] : r \in DOMAIN cf.parts}

\* The ids of the selected rows, one list for all of them.
SelectedIds == Cardinality({x \in (DOMAIN cf.parts) \X Msgs : x[2] \in cf.parts[x[1]]})

\* Mutant: the rows go although the messages could not be deleted.
CleanFilesCarriesOn ==
  /\ cf.step = "selected"
  /\ FailsOn(Selected)
  /\ cf' = [cf EXCEPT !.step = "deleted"]
  /\ UNCHANGED <<row, old, file, client, cu, use>>

CleanFileMessages ==
  /\ cf.step = "selected"
  /\ Succeeds(Selected, SelectedIds)
  /\ cf' = [cf EXCEPT !.step = "deleted"]
  /\ UNCHANGED <<row, old, file, client, cu, use>>

CleanFilesFails ==
  /\ cf.step = "selected"
  /\ FailsOn(Selected)
  /\ cf' = NoScan
  /\ UNCHANGED <<row, old, file, client, cu, use>>

\* Mutant: a row with parts is kept, as after a failed deletion.
CleanEmptyFilesOnly ==
  /\ cf.step = "deleted"
  /\ file' = [r \in Rows |-> IF r \in DOMAIN cf.parts /\ cf.parts[r] = {} THEN Free ELSE file[r]]
  /\ cf' = NoScan
  /\ UNCHANGED <<tg, row, old, client, cu, use>>

CleanFileRows ==
  /\ cf.step = "deleted"
  /\ file' = [r \in Rows |-> IF r \in DOMAIN cf.parts THEN Free ELSE file[r]]
  /\ cf' = NoScan
  /\ UNCHANGED <<tg, row, old, client, cu, use>>

(***************************************************************************)
(* Time and crashes.                                                       *)
(***************************************************************************)
\* Retention passes for the part row of m.
Expire(m) ==
  /\ row[m] /= None /\ m \notin old
  /\ old' = old \cup {m}
  /\ use' = [use EXCEPT ![m] = "loose"]
  /\ UNCHANGED <<tg, row, file, client, cron>>

\* The server stops between two steps: calls in progress fail for the client,
\* a transaction that has not committed is rolled back, the cleaners forget.
Crash ==
  /\ cu' = NoRun /\ cf' = NoScan
  /\ client' = [u \in Uploads |->
       [Idle EXCEPT !.parts = client[u].parts]]
  /\ UNCHANGED <<tg, row, old, file, use>>

------------------------------------------------------------------------------
Upload(u) ==
  \/ UploadsPartsById(u) \/ (\E m \in Msgs : SendPart(u, m)) \/ CreatePartRow(u)
  \/ VerifyOk(u) \/ VerifyWrongSize(u) \/ UploadFails(u) \/ UploadsDelete(u)

UpdateParts(u) == ReadOldParts(u) \/ WriteNewParts(u) \/ DeleteReplaced(u)

cleanUploads == SelectUploads \/ CleanUploadMessages \/ CleanUploadsFails \/ CleanUploadRows
cleanFiles   == SelectFiles \/ CleanFileMessages \/ CleanFilesFails \/ CleanFileRows

Next ==
  \/ \E u \in Uploads : Upload(u) \/ FilesCreate(u) \/ FilesUpdate(u) \/ UpdateParts(u)
  \/ \E r \in Rows : FilesDelete(r)
  \/ cleanUploads \/ cleanFiles
  \/ \E m \in Msgs : Expire(m)
  \/ Crash

\* The cron jobs tick for ever, Telegram does not refuse every deletion, and for
\* SelectFiles the user is not logged out for ever.  Nothing is asked of clients.
Fairness ==
  /\ WF_vars(SelectUploads) /\ SF_vars(CleanUploadMessages) /\ SF_vars(CleanUploadRows)
  /\ WF_vars(SelectFiles) /\ SF_vars(CleanFileMessages) /\ SF_vars(CleanFileRows)

Spec == Init /\ [][Next]_vars /\ Fairness

------------------------------------------------------------------------------
\* The ids of a request are numbered.
ASSUME BatchAssumption == BatchSize \in Nat

Clients ==
  [pc : {"open", "sent", "stored", "read", "written"}, parts : SUBSET Msgs,
   msg : Msgs \cup {None}, target : Rows \cup {None}, replaced : SUBSET Msgs]

TypeOK ==
  /\ tg \in [Msgs -> {"unsent", "there", "gone"}]
  /\ row \in [Msgs -> Uploads \cup {None}]
  /\ old \subseteq {m \in Msgs : row[m] /= None}
  /\ file \in [Rows -> [status : {"free", "active", "pending"}, parts : SUBSET Msgs]]
  /\ client \in [Uploads -> Clients]
  /\ cu \in [step : {"idle", "selected", "deleted"}, ids : SUBSET Msgs, session : BOOLEAN]
  /\ cf \in [step : {"idle", "selected", "deleted"},
             parts : UNION {[R -> SUBSET Msgs] : R \in SUBSET Rows}]
  /\ use \in [Msgs -> {"new", "acked", "kept", "loose"}]
  /\ \A m \in Msgs : row[m] /= None => tg[m] /= "unsent"

Active == {r \in Rows : file[r].status = "active"}

\* No data loss: a message of an active file is on Telegram, provided the upload
\* that sent it was acknowledged and nothing of the following happened to it, each of
\* which does lose messages in this code: its part row outlived the retention
\* (cleanUploads), it was committed twice (FilesUpdateParts repeated), or a
\* FilesUpdateParts without parts kept it in the row (file.go:696) and then deleted it
\* (file.go:733).  Deletions, other replacements, cleanUploads, cleanFiles, failures
\* and crashes then never take a part from a file that is served.
AckedPartsKept ==
  \A r \in Active : \A m \in file[r].parts : use[m] = "kept" => tg[m] = "there"

\* A deleted file never comes back, whatever creates or updates files while the
\* cleaner is at work (the upsert of FilesCreate matches active rows only).
DeletionFinal ==
  [][\A r \in Rows : file[r].status = "pending" => file'[r].status \in {"pending", "free"}]_vars

\* When cleanFiles removes a row, none of the messages it had when it was selected is
\* left on Telegram, whatever failed or crashed before (cron.go:165-170: a row whose
\* messages resist is kept for the next tick), as long as the ids of one selection fit
\* one batch.  With more, DeleteMessages may report success after a failed batch
\* (helpers.go:72-75), and the row goes while its messages stay.
RemovedFilesLeaveNothing ==
  [][SelectedIds <= BatchSize =>
       \A r \in Rows :
         file[r].status /= "free" /\ file'[r].status = "free" /\ file[r].parts = cf.parts[r]
           => \A m \in file[r].parts : tg'[m] = "gone"]_vars

\* A file marked for deletion is removed in the end, through failed deletions and
\* crashes of cleanFiles: no row that is marked is kept for ever.
PendingFilesCleaned == \A r \in Rows : file[r].status = "pending" ~> file[r].status = "free"

\* An expired part row is removed in the end by cleanUploads, also when no tick
\* finds a session: the rows go without their messages (cron.go:210).
ExpiredRowsCleaned == \A m \in Msgs : m \in old ~> m \notin old
==============================================================================
