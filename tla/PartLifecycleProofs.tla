------------------------ MODULE PartLifecycleProofs -------------------------
(***************************************************************************)
(* PartLifecycle for every set of messages, uploads and file rows.  A      *)
(* message is lost to a file only if somebody still holds its id from      *)
(* before: the invariant says what each of those who delete messages (an   *)
(* upload that verifies, FilesUpdateParts, cleanUploads and cleanFiles)    *)
(* may hold, and that a message kept by a file is in no other row.         *)
(***************************************************************************)
EXTENDS PartLifecycle, TLAPS

\* Messages that were put in a file row.
Filed(m) == use[m] \in {"kept", "loose"}

\* A message that was not sent is unknown to all; one that was acknowledged and not
\* yet put in a file is on Telegram.
UseInv ==
  \A m \in Msgs :
    /\ tg[m] = "unsent" => use[m] = "new"
    /\ use[m] = "acked" => tg[m] = "there"

\* A message is kept by one row only.
FileInv ==
  \A r \in Rows :
    /\ file[r].status = "free" => file[r].parts = {}
    /\ \A m \in file[r].parts :
         /\ Filed(m)
         /\ \A s \in Rows : use[m] = "kept" /\ m \in file[s].parts => r = s

\* The message an upload is sending is nobody else's and was not acknowledged.
SendInv ==
  \A u \in Uploads :
    /\ client[u].pc \in {"sent", "stored"} <=> client[u].msg # None
    /\ \A m \in client[u].parts : tg[m] # "unsent"
    /\ \A m \in Msgs : client[u].msg = m =>
         /\ tg[m] # "unsent" /\ use[m] \in {"new", "loose"}
         /\ \A v \in Uploads : client[v].msg = m => u = v

\* What FilesUpdateParts will delete no row counts on that it does not overwrite, and
\* none at all once it has written.
ReplaceInv ==
  \A u \in Uploads :
    /\ client[u].pc \in {"read", "written"} <=> client[u].target # None
    /\ \A m \in client[u].replaced :
         /\ Filed(m)
         /\ \A s \in Rows : use[m] = "kept" /\ m \in file[s].parts =>
              client[u].pc = "read" /\ s = client[u].target

\* What cleanUploads selected outlived the retention.
ExpiredInv == \A m \in old \cup cu.ids : use[m] = "loose"

\* What cleanFiles selected stays marked for deletion, and is in no other row; a success
\* with a single batch has deleted it.
CleanInv ==
  \A r \in DOMAIN cf.parts :
    /\ file[r].status = "pending"
    /\ \A m \in cf.parts[r] :
         /\ Filed(m)
         /\ cf.step = "deleted" /\ SelectedIds <= BatchSize => tg[m] = "gone"
         /\ \A s \in Rows : use[m] = "kept" /\ m \in file[s].parts => s = r

IInv ==
  /\ TypeOK /\ UseInv /\ FileInv /\ SendInv /\ ReplaceInv /\ ExpiredInv /\ CleanInv
  /\ AckedPartsKept

-----------------------------------------------------------------------------
(***************************************************************************)
(* What the helpers of the model do to one message.                        *)
(***************************************************************************)
\* Deleting on Telegram (DeleteMessages) takes away what is there, and nothing else.
LEMMA DeleteFacts ==
  ASSUME TypeOK, NEW ms, Delete(ms)
  PROVE  /\ tg' \in [Msgs -> {"unsent", "there", "gone"}]
         /\ \A m \in Msgs :
              /\ tg'[m] = "unsent" <=> tg[m] = "unsent"
              /\ m \notin ms => tg'[m] = tg[m]
              /\ tg[m] = "gone" => tg'[m] = "gone"
              /\ m \in ms => tg'[m] # "there"
  BY DEF TypeOK, Delete

\* Putting messages in a row: a message is kept only from an acknowledgment or by
\* staying in the row that keeps it.
LEMMA PutFacts ==
  ASSUME TypeOK, NEW ms, NEW held, Put(ms, held)
  PROVE  /\ use' \in [Msgs -> {"new", "acked", "kept", "loose"}]
         /\ \A m \in Msgs :
              /\ m \notin ms => use'[m] = use[m]
              /\ m \in ms => use'[m] \in {"kept", "loose"}
              /\ use'[m] = "kept" =>
                   use[m] = "acked" \/ (use[m] = "kept" /\ (m \in ms => m \in held))
              /\ use'[m] = "acked" => use[m] = "acked"
              /\ use'[m] = "new" => use[m] = "new"
              /\ use[m] \in {"new", "loose"} => use'[m] \in {"new", "loose"}
              /\ use[m] = "loose" => use'[m] = "loose"
              /\ use[m] \in {"kept", "loose"} => use'[m] \in {"kept", "loose"}
  BY DEF TypeOK, Put

\* Deleting part rows (teldrive.uploads) changes no other row.
LEMMA DropRowsFacts ==
  ASSUME TypeOK, NEW ms, DropRows(ms)
  PROVE  /\ row' \in [Msgs -> Uploads \cup {None}]
         /\ old' \subseteq {m \in Msgs : row'[m] # None}
         /\ old' \subseteq old
         /\ \A m \in Msgs : row'[m] # None => row'[m] = row[m]
  BY DEF TypeOK, DropRows

\* A scan of cleanFiles that holds nothing.
LEMMA NoScanFacts ==
  /\ NoScan \in [step : {"idle", "selected", "deleted"},
                 parts : UNION {[R -> SUBSET Msgs] : R \in SUBSET Rows}]
  /\ DOMAIN NoScan.parts = {}
<1>1. [r \in {} |-> {}] \in [{} -> SUBSET Msgs] /\ {} \in SUBSET Rows
  OBVIOUS
<1>2. [r \in {} |-> {}] \in UNION {[R -> SUBSET Msgs] : R \in SUBSET Rows}
  BY <1>1
<1>3. QED
  BY <1>2 DEF NoScan

\* What cleanFiles holds determines how many ids it has.
LEMMA SameSelection ==
  ASSUME cf'.parts = cf.parts
  PROVE  SelectedIds' = SelectedIds
  BY DEF SelectedIds

\* The operations that write file rows.
LEMMA FileWriters ==
  ASSUME Next
  PROVE  \/ UNCHANGED file
         \/ \E u \in Uploads : FilesCreate(u) \/ FilesUpdate(u) \/ WriteNewParts(u)
         \/ \E r \in Rows : FilesDelete(r)
         \/ CleanFileRows
<1>1. ASSUME NEW u \in Uploads, Upload(u) \/ ReadOldParts(u) \/ DeleteReplaced(u)
      PROVE  UNCHANGED file
  BY <1>1 DEF Upload, UploadsPartsById, SendPart, CreatePartRow, VerifyOk, VerifyWrongSize,
              UploadFails, UploadsDelete, ReadOldParts, DeleteReplaced
<1>2. CASE cleanUploads
  BY <1>2 DEF cleanUploads, SelectUploads, CleanUploadMessages, CleanUploadsFails,
              CleanUploadRows
<1>3. CASE SelectFiles \/ CleanFileMessages \/ CleanFilesFails
  BY <1>3 DEF SelectFiles, CleanFileMessages, CleanFilesFails
<1>4. CASE Crash \/ \E m \in Msgs : Expire(m)
  BY <1>4 DEF Crash, Expire
<1>5. QED
  BY <1>1, <1>2, <1>3, <1>4 DEF Next, UpdateParts, cleanFiles

\* Messages whose deletion takes nothing from a file that is served.
Deletable(ms) ==
  \A m \in ms :
    /\ use[m] # "acked"
    /\ use[m] = "kept" => \A r \in Active : m \notin file[r].parts

\* Deleting such messages keeps what is said of messages and file rows.
LEMMA DeleteStep ==
  ASSUME IInv, NEW ms, Delete(ms), Deletable(ms), UNCHANGED <<file, use>>
  PROVE  UseInv' /\ FileInv' /\ AckedPartsKept'
<1>1. \A m \in Msgs :
        /\ tg'[m] = "unsent" <=> tg[m] = "unsent"
        /\ m \notin ms => tg'[m] = tg[m]
  BY DeleteFacts DEF IInv
<1>2. UseInv'
  BY <1>1 DEF IInv, UseInv, Deletable
<1>3. FileInv'
  BY DEF IInv, FileInv, Filed
<1>4. AckedPartsKept'
  BY <1>1 DEF IInv, TypeOK, AckedPartsKept, Active, Deletable
<1>5. QED
  BY <1>2, <1>3, <1>4

\* A row that gets the parts of an upload: what it already kept it may keep, the
\* rest it keeps only when it was acknowledged and in no row before.
LEMMA PutStep ==
  ASSUME IInv, NEW u \in Uploads, NEW r \in Rows, NEW status \in {"active", "pending"},
         NEW held \in SUBSET file[r].parts, Put(client[u].parts, held),
         file[r].status \in {"free", status},
         file' = [file EXCEPT ![r] = [status |-> status, parts |-> client[u].parts]],
         UNCHANGED tg
  PROVE  /\ file' \in [Rows -> [status : {"free", "active", "pending"}, parts : SUBSET Msgs]]
         /\ UseInv' /\ FileInv' /\ AckedPartsKept'
         /\ \A m \in Msgs, s \in Rows : use'[m] = "kept" /\ m \in file'[s].parts =>
              use[m] = "acked" \/ (use[m] = "kept" /\ m \in file[s].parts)
<1> DEFINE ms == client[u].parts
<1>1. ms \in SUBSET Msgs
  BY DEF IInv, TypeOK, Clients
<1>2. \A m \in Msgs :
        /\ m \notin ms => use'[m] = use[m]
        /\ m \in ms => use'[m] \in {"kept", "loose"}
        /\ use'[m] = "kept" =>
             use[m] = "acked" \/ (use[m] = "kept" /\ (m \in ms => m \in held))
        /\ use'[m] = "acked" => use[m] = "acked"
        /\ use[m] \in {"kept", "loose"} => use'[m] \in {"kept", "loose"}
  BY PutFacts DEF IInv
<1>3. /\ file'[r].status = status /\ file'[r].parts = ms
      /\ \A s \in Rows : s # r => file'[s] = file[s]
      /\ file' \in [Rows -> [status : {"free", "active", "pending"}, parts : SUBSET Msgs]]
  BY <1>1 DEF IInv, TypeOK
<1>4. \A m \in Msgs, s \in Rows : use'[m] = "kept" /\ m \in file'[s].parts =>
        use[m] = "acked" \/ (use[m] = "kept" /\ m \in file[s].parts)
  BY <1>2, <1>3
<1>5. UseInv'
  <2>1. \A m \in ms : tg[m] # "unsent"
    BY DEF IInv, SendInv
  <2>2. QED
    BY <1>1, <1>2, <2>1 DEF IInv, UseInv
<1>6. FileInv'
  <2>1. \A s \in Rows : file[s].parts \subseteq Msgs
    BY DEF IInv, TypeOK
  <2>2. ASSUME NEW s \in Rows, NEW m \in file'[s].parts
        PROVE  m \in Msgs /\ Filed(m)'
    BY <1>1, <1>2, <1>3, <2>1, <2>2 DEF IInv, FileInv, Filed
  <2>3. ASSUME NEW s \in Rows, NEW m \in file'[s].parts,
               NEW t \in Rows, use'[m] = "kept", m \in file'[t].parts
        PROVE  s = t
    <3>1. CASE use[m] = "acked"
      <4>1. m \notin file[s].parts /\ m \notin file[t].parts
        BY <3>1 DEF IInv, FileInv, Filed
      <4>2. QED
        BY <1>3, <2>3, <4>1
    <3>2. CASE use[m] = "kept" /\ m \in file[s].parts /\ m \in file[t].parts
      BY <3>2 DEF IInv, FileInv
    <3>3. QED
      BY <1>4, <2>2, <2>3, <3>1, <3>2
  <2>4. \A s \in Rows : file'[s].status = "free" => file'[s].parts = {}
    BY <1>3 DEF IInv, FileInv
  <2>5. QED
    BY <2>2, <2>3, <2>4 DEF FileInv
<1>7. AckedPartsKept'
  <2> SUFFICES ASSUME NEW s \in Rows, file'[s].status = "active",
                      NEW m \in file'[s].parts, use'[m] = "kept"
               PROVE  tg[m] = "there"
    BY DEF AckedPartsKept, Active
  <2>1. m \in Msgs
    BY <1>3
  <2>2. CASE use[m] = "acked"
    BY <2>1, <2>2 DEF IInv, UseInv
  <2>3. CASE use[m] = "kept" /\ m \in file[s].parts
    <3>1. file[s].status = "active"
      BY <1>3, <2>3 DEF IInv, FileInv
    <3>2. QED
      BY <2>3, <3>1 DEF IInv, AckedPartsKept, Active
  <2>4. QED
    BY <1>4, <2>1, <2>2, <2>3
<1>8. QED
  BY <1>3, <1>4, <1>5, <1>6, <1>7

-----------------------------------------------------------------------------
(***************************************************************************)
(* Uploading (UploadsUpload, UploadsPartsById, UploadsDelete).             *)
(***************************************************************************)
\* The invariant at the start: nothing was sent.
LEMMA InitInv == Init => IInv
<1> SUFFICES ASSUME Init PROVE IInv
  OBVIOUS
<1>1. cf = NoScan
  BY DEF Init
<1>2. /\ cf \in [step : {"idle", "selected", "deleted"},
                parts : UNION {[R -> SUBSET Msgs] : R \in SUBSET Rows}]
      /\ DOMAIN cf.parts = {}
  BY <1>1, NoScanFacts
<1>3. TypeOK
  <2>1. file \in [Rows -> [status : {"free", "active", "pending"}, parts : SUBSET Msgs]]
    BY DEF Init, Free
  <2>2. client \in [Uploads -> Clients]
    BY DEF Init, Idle, Clients
  <2>3. cu \in [step : {"idle", "selected", "deleted"}, ids : SUBSET Msgs, session : BOOLEAN]
    BY DEF Init, NoRun
  <2>4. QED
    BY <1>2, <2>1, <2>2, <2>3 DEF Init, TypeOK
<1>4. UseInv /\ FileInv /\ ExpiredInv /\ CleanInv /\ AckedPartsKept
  BY <1>2 DEF Init, UseInv, FileInv, ExpiredInv, CleanInv, AckedPartsKept, Active,
              Free, NoRun
<1>5. SendInv /\ ReplaceInv
  BY NoneAssumption DEF Init, SendInv, ReplaceInv, Idle
<1>6. QED
  BY <1>3, <1>4, <1>5 DEF IInv

\* One field of a client is replaced by a value of its type: it stays a client.
LEMMA ClientFields ==
  ASSUME NEW c \in Clients
  PROVE  /\ \A x \in {"open", "sent", "stored", "read", "written"} : [c EXCEPT !.pc = x] \in Clients
         /\ \A x \in SUBSET Msgs : [c EXCEPT !.parts = x] \in Clients
         /\ \A x \in Msgs \cup {None} : [c EXCEPT !.msg = x] \in Clients
         /\ \A x \in Rows \cup {None} : [c EXCEPT !.target = x] \in Clients
         /\ \A x \in SUBSET Msgs : [c EXCEPT !.replaced = x] \in Clients
<1>1. \A x \in {"open", "sent", "stored", "read", "written"} : [c EXCEPT !.pc = x] \in Clients
  BY DEF Clients
<1>2. \A x \in SUBSET Msgs : [c EXCEPT !.parts = x] \in Clients
  BY DEF Clients
<1>3. \A x \in Msgs \cup {None} : [c EXCEPT !.msg = x] \in Clients
  BY DEF Clients
<1>4. \A x \in Rows \cup {None} : [c EXCEPT !.target = x] \in Clients
  BY DEF Clients
<1>5. \A x \in SUBSET Msgs : [c EXCEPT !.replaced = x] \in Clients
  BY DEF Clients
<1>6. QED
  BY <1>1, <1>2, <1>3, <1>4, <1>5

\* One client of a function of clients is replaced: it stays a function of clients.
LEMMA ClientReplaced ==
  ASSUME NEW f \in [Uploads -> Clients], NEW u \in Uploads, NEW c \in Clients
  PROVE  [f EXCEPT ![u] = c] \in [Uploads -> Clients]
OBVIOUS

\* The clients after one field of one of them was replaced.
LEMMA ClientStep ==
  ASSUME NEW f \in [Uploads -> Clients], NEW u \in Uploads
  PROVE  /\ \A x \in {"open", "sent", "stored", "read", "written"} :
              [f EXCEPT ![u].pc = x] \in [Uploads -> Clients]
         /\ \A x \in SUBSET Msgs : [f EXCEPT ![u].parts = x] \in [Uploads -> Clients]
         /\ \A x \in Msgs \cup {None} : [f EXCEPT ![u].msg = x] \in [Uploads -> Clients]
         /\ \A x \in Rows \cup {None} : [f EXCEPT ![u].target = x] \in [Uploads -> Clients]
         /\ \A x \in SUBSET Msgs : [f EXCEPT ![u].replaced = x] \in [Uploads -> Clients]
<1>1. f[u] \in Clients
  OBVIOUS
<1>2. ASSUME NEW x \in {"open", "sent", "stored", "read", "written"}
      PROVE  [f EXCEPT ![u].pc = x] \in [Uploads -> Clients]
  <2>1. [f[u] EXCEPT !.pc = x] \in Clients
    BY <1>1, ClientFields
  <2>2. [f EXCEPT ![u].pc = x] = [f EXCEPT ![u] = [f[u] EXCEPT !.pc = x]]
    OBVIOUS
  <2>3. QED
    BY <2>1, <2>2, ClientReplaced
<1>3. ASSUME NEW x \in SUBSET Msgs
      PROVE  [f EXCEPT ![u].parts = x] \in [Uploads -> Clients]
  <2>1. [f[u] EXCEPT !.parts = x] \in Clients
    BY <1>1, ClientFields
  <2>2. [f EXCEPT ![u].parts = x] = [f EXCEPT ![u] = [f[u] EXCEPT !.parts = x]]
    OBVIOUS
  <2>3. QED
    BY <2>1, <2>2, ClientReplaced
<1>4. ASSUME NEW x \in Msgs \cup {None}
      PROVE  [f EXCEPT ![u].msg = x] \in [Uploads -> Clients]
  <2>1. [f[u] EXCEPT !.msg = x] \in Clients
    BY <1>1, ClientFields
  <2>2. [f EXCEPT ![u].msg = x] = [f EXCEPT ![u] = [f[u] EXCEPT !.msg = x]]
    OBVIOUS
  <2>3. QED
    BY <2>1, <2>2, ClientReplaced
<1>5. ASSUME NEW x \in Rows \cup {None}
      PROVE  [f EXCEPT ![u].target = x] \in [Uploads -> Clients]
  <2>1. [f[u] EXCEPT !.target = x] \in Clients
    BY <1>1, ClientFields
  <2>2. [f EXCEPT ![u].target = x] = [f EXCEPT ![u] = [f[u] EXCEPT !.target = x]]
    OBVIOUS
  <2>3. QED
    BY <2>1, <2>2, ClientReplaced
<1>6. ASSUME NEW x \in SUBSET Msgs
      PROVE  [f EXCEPT ![u].replaced = x] \in [Uploads -> Clients]
  <2>1. [f[u] EXCEPT !.replaced = x] \in Clients
    BY <1>1, ClientFields
  <2>2. [f EXCEPT ![u].replaced = x] = [f EXCEPT ![u] = [f[u] EXCEPT !.replaced = x]]
    OBVIOUS
  <2>3. QED
    BY <2>1, <2>2, ClientReplaced
<1>7. QED
  BY <1>2, <1>3, <1>4, <1>5, <1>6

\* Nothing but that field changed.
LEMMA ClientStepOnly ==
  ASSUME NEW f \in [Uploads -> Clients], NEW u \in Uploads, NEW x
  PROVE  /\ [f EXCEPT ![u].pc = x][u] = [f[u] EXCEPT !.pc = x]
         /\ [f EXCEPT ![u].msg = x][u] = [f[u] EXCEPT !.msg = x]
         /\ \A v \in Uploads : v # u => /\ [f EXCEPT ![u].pc = x][v] = f[v]
                                       /\ [f EXCEPT ![u].msg = x][v] = f[v]
OBVIOUS

\* The fields of a client one of whose fields was replaced.
LEMMA ClientOthers ==
  ASSUME NEW c \in Clients, NEW x
  PROVE  /\ LET d == [c EXCEPT !.pc = x]
            IN  /\ d.pc = x /\ d.parts = c.parts /\ d.msg = c.msg
                /\ d.target = c.target /\ d.replaced = c.replaced
         /\ LET d == [c EXCEPT !.msg = x]
            IN  /\ d.msg = x /\ d.parts = c.parts /\ d.pc = c.pc
                /\ d.target = c.target /\ d.replaced = c.replaced
BY DEF Clients

\* The parts an upload lists (UploadsPartsById) have their rows, so they were sent.
LEMMA ListStep ==
  ASSUME IInv, NEW u \in Uploads, UploadsPartsById(u)
  PROVE  IInv'
<1>1. /\ client[u].pc = "open" /\ UNCHANGED <<tg, row, old, file, cron, use>>
      /\ client' = [client EXCEPT ![u].parts = Listed(u)]
  BY DEF UploadsPartsById
<1>2. Listed(u) \subseteq Msgs /\ \A m \in Listed(u) : tg[m] # "unsent"
  BY NoneAssumption DEF IInv, TypeOK, Listed, RowsOf
<1>3. TypeOK'
  <2>1. client' \in [Uploads -> Clients]
    BY <1>1, <1>2, ClientStep DEF IInv, TypeOK
  <2>2. QED
    BY <1>1, <2>1 DEF IInv, TypeOK, cron
<1>4. UseInv' /\ FileInv' /\ ExpiredInv' /\ CleanInv' /\ AckedPartsKept'
  BY SameSelection, <1>1 DEF IInv, UseInv, FileInv, ExpiredInv, CleanInv, AckedPartsKept, Active,
              Filed, cron
<1>5. SendInv'
  BY <1>1, <1>2 DEF IInv, TypeOK, Clients, SendInv
<1>6. ReplaceInv'
  BY <1>1 DEF IInv, TypeOK, Clients, ReplaceInv, Filed
<1>7. QED
  BY <1>3, <1>4, <1>5, <1>6 DEF IInv

\* The message is sent (SendMedia): nobody knew it.
LEMMA SendStep ==
  ASSUME IInv, NEW u \in Uploads, NEW m \in Msgs, SendPart(u, m)
  PROVE  IInv'
<1>1. /\ client[u].pc = "open" /\ tg[m] = "unsent" /\ tg' = [tg EXCEPT ![m] = "there"]
      /\ client' = [client EXCEPT ![u].pc = "sent", ![u].msg = m]
      /\ UNCHANGED <<row, old, file, cron, use>>
  BY DEF SendPart
<1>2. /\ client' \in [Uploads -> Clients]
      /\ client'[u].pc = "sent" /\ client'[u].msg = m
      /\ client'[u].parts = client[u].parts /\ client'[u].target = client[u].target
      /\ client'[u].replaced = client[u].replaced
      /\ \A v \in Uploads : v # u => client'[v] = client[v]
  <2> DEFINE first == [client EXCEPT ![u].pc = "sent"]
  <2>1. first \in [Uploads -> Clients]
    BY ClientStep DEF IInv, TypeOK
  <2>2. client[u] \in Clients /\ first[u] \in Clients
    BY <2>1 DEF IInv, TypeOK
  <2>3. /\ first[u] = [client[u] EXCEPT !.pc = "sent"]
        /\ \A v \in Uploads : v # u => first[v] = client[v]
    BY ClientStepOnly DEF IInv, TypeOK
  <2>4. client' = [first EXCEPT ![u].msg = m]
    BY <1>1 DEF IInv, TypeOK
  <2> HIDE DEF first
  <2>5. client' \in [Uploads -> Clients]
    BY <2>1, <2>4, ClientStep
  <2>6. /\ client'[u] = [first[u] EXCEPT !.msg = m]
        /\ \A v \in Uploads : v # u => client'[v] = first[v]
    BY <2>1, <2>4, ClientStepOnly
  <2>7. /\ first[u].pc = "sent" /\ first[u].parts = client[u].parts
        /\ first[u].target = client[u].target /\ first[u].replaced = client[u].replaced
    BY <2>2, <2>3, ClientOthers
  <2>8. /\ client'[u].msg = m /\ client'[u].pc = first[u].pc
        /\ client'[u].parts = first[u].parts /\ client'[u].target = first[u].target
        /\ client'[u].replaced = first[u].replaced
    BY <2>2, <2>6, ClientOthers
  <2>9. QED
    BY <2>3, <2>5, <2>6, <2>7, <2>8
<1>3. use[m] = "new"
  BY <1>1 DEF IInv, UseInv
<1>4. TypeOK'
  BY <1>1, <1>2 DEF IInv, TypeOK, cron
<1>5. UseInv' /\ FileInv' /\ ExpiredInv' /\ AckedPartsKept'
  BY <1>1, <1>3 DEF IInv, TypeOK, UseInv, FileInv, ExpiredInv, AckedPartsKept, Active,
                    Filed, cron
<1>6. CleanInv'
  BY SameSelection, <1>1, <1>3 DEF IInv, TypeOK, CleanInv, Filed, cron
<1>7. SendInv'
  <2>1. \A v \in Uploads : client[v].msg # m
    BY <1>1 DEF IInv, SendInv
  <2>2. \A v \in Uploads : m \notin client[v].parts
    BY <1>1 DEF IInv, SendInv
  <2>3. m # None
    BY NoneAssumption
  <2>4. \A n \in Msgs : n # m => tg'[n] = tg[n]
    BY <1>1 DEF IInv, TypeOK
  <2>5. tg'[m] = "there"
    BY <1>1 DEF IInv, TypeOK
  <2>6. QED
    BY <1>1, <1>2, <1>3, <2>1, <2>2, <2>3, <2>4, <2>5 DEF IInv, TypeOK, Clients, SendInv
<1>8. ReplaceInv'
  BY <1>1, <1>2 DEF IInv, ReplaceInv, Filed
<1>9. QED
  BY <1>4, <1>5, <1>6, <1>7, <1>8 DEF IInv

\* The part row of a message is created; the message is on Telegram or was.
LEMMA RowStep ==
  ASSUME IInv, NEW u \in Uploads, CreatePartRow(u)
  PROVE  IInv'
<1>1. /\ client[u].pc = "sent" /\ row' = [row EXCEPT ![client[u].msg] = u]
      /\ client' = [client EXCEPT ![u].pc = "stored"]
      /\ UNCHANGED <<tg, old, file, cron, use>>
  BY DEF CreatePartRow
<1>2. client[u].msg \in Msgs /\ tg[client[u].msg] # "unsent" /\ u # None
  BY <1>1, NoneAssumption DEF IInv, TypeOK, Clients, SendInv
<1>3. TypeOK'
  <2>1. client' \in [Uploads -> Clients]
    BY <1>1, ClientStep DEF IInv, TypeOK
  <2>2. /\ row' \in [Msgs -> Uploads \cup {None}]
        /\ \A n \in Msgs : row'[n] # None <=> row[n] # None \/ n = client[u].msg
    BY <1>1, <1>2 DEF IInv, TypeOK
  <2>3. old' \subseteq {n \in Msgs : row'[n] # None}
    BY <1>1, <2>2 DEF IInv, TypeOK
  <2>4. \A n \in Msgs : row'[n] # None => tg'[n] # "unsent"
    BY <1>1, <1>2, <2>2 DEF IInv, TypeOK
  <2>5. QED
    BY <1>1, <2>1, <2>2, <2>3, <2>4 DEF IInv, TypeOK, cron
<1>4. UseInv' /\ FileInv' /\ ExpiredInv' /\ CleanInv' /\ AckedPartsKept'
  BY SameSelection, <1>1 DEF IInv, UseInv, FileInv, ExpiredInv, CleanInv, AckedPartsKept, Active,
              Filed, cron
<1>5. SendInv'
  BY <1>1 DEF IInv, TypeOK, Clients, SendInv
<1>6. ReplaceInv'
  BY <1>1 DEF IInv, TypeOK, Clients, ReplaceInv, Filed
<1>7. QED
  BY <1>3, <1>4, <1>5, <1>6 DEF IInv

\* What the end of an UploadsUpload does to its client.
LEMMA AnswerFacts ==
  ASSUME IInv, NEW u \in Uploads, NEW parts \in SUBSET Msgs, Answer(u, parts)
  PROVE  /\ client' \in [Uploads -> Clients]
         /\ client'[u].pc = "open" /\ client'[u].msg = None /\ client'[u].parts = parts
         /\ client'[u].target = client[u].target /\ client'[u].replaced = client[u].replaced
         /\ \A v \in Uploads : v # u => client'[v] = client[v]
<1>1. /\ client'[u].pc = "open" /\ client'[u].msg = None /\ client'[u].parts = parts
      /\ client'[u].target = client[u].target /\ client'[u].replaced = client[u].replaced
      /\ \A v \in Uploads : v # u => client'[v] = client[v]
  BY DEF IInv, TypeOK, Clients, Answer
<1>2. client' \in [Uploads -> Clients]
  <2> DEFINE first  == [client EXCEPT ![u].pc = "open"]
             second == [first EXCEPT ![u].parts = parts]
  <2>1. first \in [Uploads -> Clients]
    BY ClientStep DEF IInv, TypeOK
  <2>2. second \in [Uploads -> Clients]
    <3> HIDE DEF first
    <3>1. QED
      BY <2>1, ClientStep
  <2>3. client' = [second EXCEPT ![u].msg = None]
    BY DEF IInv, TypeOK, Clients, Answer
  <2> HIDE DEF second
  <2>4. QED
    BY <2>2, <2>3, ClientStep
<1>3. QED
  BY <1>1, <1>2

\* The message is acknowledged: it is there, in no file, and no other upload sends it.
LEMMA AcknowledgeStep ==
  ASSUME IInv, NEW u \in Uploads, VerifyOk(u)
  PROVE  IInv'
<1> DEFINE m == client[u].msg
           parts == client[u].parts \cup {m}
<1>1. /\ client[u].pc = "stored" /\ tg[m] = "there" /\ Answer(u, parts)
      /\ use' = [use EXCEPT ![m] = IF @ = "new" THEN "acked" ELSE @]
      /\ UNCHANGED <<tg, row, old, file, cron>>
  BY DEF VerifyOk
<1>2. /\ m \in Msgs /\ use[m] \in {"new", "loose"} /\ parts \in SUBSET Msgs
      /\ client[u].target = None
      /\ \A v \in Uploads : client[v].msg = m => u = v
  BY <1>1, NoneAssumption DEF IInv, TypeOK, Clients, SendInv, ReplaceInv
<1>3. /\ client' \in [Uploads -> Clients]
      /\ client'[u].pc = "open" /\ client'[u].msg = None /\ client'[u].parts = parts
      /\ client'[u].target = client[u].target /\ client'[u].replaced = client[u].replaced
      /\ \A v \in Uploads : v # u => client'[v] = client[v]
  BY <1>1, <1>2, AnswerFacts
<1>4. /\ use' \in [Msgs -> {"new", "acked", "kept", "loose"}]
      /\ use'[m] \in {"acked", "loose"} /\ (use[m] = "loose" => use'[m] = "loose")
      /\ \A n \in Msgs : n # m => use'[n] = use[n]
  BY <1>2, <1>1 DEF IInv, TypeOK
<1> HIDE DEF m, parts
<1>5. TypeOK'
  BY <1>1, <1>3, <1>4 DEF IInv, TypeOK, cron
<1>6. UseInv' /\ ExpiredInv'
  BY <1>1, <1>2, <1>4 DEF IInv, TypeOK, UseInv, ExpiredInv, cron
<1>7. FileInv' /\ AckedPartsKept'
  BY <1>1, <1>2, <1>4 DEF IInv, TypeOK, FileInv, AckedPartsKept, Active, Filed
<1>8. CleanInv'
  <2>1. \A r \in DOMAIN cf.parts : r \in Rows /\ cf.parts[r] \subseteq Msgs
    BY DEF IInv, TypeOK
  <2>2. QED
    BY SameSelection, <1>1, <1>2, <1>4, <2>1 DEF IInv, CleanInv, Filed, cron
<1>9. SendInv'
  BY <1>1, <1>2, <1>3, <1>4, NoneAssumption DEF IInv, SendInv, parts, m
<1>10. ReplaceInv'
  <2>1. \A v \in Uploads : client[v].replaced \subseteq Msgs
    BY DEF IInv, TypeOK, Clients
  <2>2. QED
    BY <1>1, <1>2, <1>3, <1>4, <2>1 DEF IInv, ReplaceInv, Filed
<1>11. QED
  BY <1>5, <1>6, <1>7, <1>8, <1>9, <1>10 DEF IInv

\* An upload that fails, before or after its row, and one whose message has the wrong
\* size: the message it deletes was not acknowledged.
LEMMA FailStep ==
  ASSUME IInv, NEW u \in Uploads, VerifyWrongSize(u) \/ UploadFails(u)
  PROVE  IInv'
<1>1. /\ client[u].pc \in {"sent", "stored"} /\ Answer(u, client[u].parts)
      /\ tg' = tg \/ Delete({client[u].msg})
      /\ UNCHANGED <<row, old, file, cron, use>>
  BY DEF VerifyWrongSize, UploadFails
<1>2. /\ client' \in [Uploads -> Clients]
      /\ client'[u].pc = "open" /\ client'[u].msg = None
      /\ client'[u].parts = client[u].parts
      /\ client'[u].target = client[u].target /\ client'[u].replaced = client[u].replaced
      /\ \A v \in Uploads : v # u => client'[v] = client[v]
  BY <1>1, AnswerFacts DEF IInv, TypeOK, Clients
<1>3. Deletable({client[u].msg}) /\ client[u].target = None
  BY <1>1, NoneAssumption DEF IInv, TypeOK, Clients, SendInv, ReplaceInv, Deletable
<1>4. /\ tg' \in [Msgs -> {"unsent", "there", "gone"}]
      /\ \A m \in Msgs : /\ tg'[m] = "unsent" <=> tg[m] = "unsent"
                         /\ tg[m] = "gone" => tg'[m] = "gone"
  BY <1>1, DeleteFacts DEF IInv, TypeOK
<1>5. UseInv' /\ FileInv' /\ AckedPartsKept'
  <2>1. CASE tg' = tg
    BY <1>1, <2>1 DEF IInv, UseInv, FileInv, AckedPartsKept, Active, Filed
  <2>2. CASE Delete({client[u].msg})
    BY <1>1, <1>3, <2>2, DeleteStep
  <2>3. QED
    BY <1>1, <2>1, <2>2
<1>6. TypeOK'
  BY <1>1, <1>2, <1>4 DEF IInv, TypeOK, cron
<1>7. ExpiredInv' /\ CleanInv'
  BY SameSelection, <1>1, <1>4 DEF IInv, TypeOK, ExpiredInv, CleanInv, Filed, cron
<1>8. SendInv'
  <2>1. \A v \in Uploads : client'[v].parts = client[v].parts /\ client[v].parts \subseteq Msgs
    BY <1>2 DEF IInv, TypeOK, Clients
  <2>2. QED
    BY <1>1, <1>2, <1>4, <2>1, NoneAssumption DEF IInv, SendInv
<1>9. ReplaceInv'
  BY <1>1, <1>2, <1>3 DEF IInv, ReplaceInv, Filed
<1>10. QED
  BY <1>5, <1>6, <1>7, <1>8, <1>9 DEF IInv

\* Part rows that go (UploadsDelete, cleanUploads) and part rows that expire.
LEMMA RowsGoStep ==
  ASSUME IInv, NEW ms, DropRows(ms), UNCHANGED <<tg, file, client, cf, use>>,
         cu' = cu \/ cu' = NoRun
  PROVE  IInv'
<1>1. /\ row' \in [Msgs -> Uploads \cup {None}] /\ old' \subseteq old
      /\ old' \subseteq {m \in Msgs : row'[m] # None}
      /\ \A m \in Msgs : row'[m] # None => row'[m] = row[m]
  BY DropRowsFacts DEF IInv
<1>2. /\ cu'.ids \subseteq cu.ids
      /\ cu' \in [step : {"idle", "selected", "deleted"}, ids : SUBSET Msgs, session : BOOLEAN]
  <2>1. CASE cu' = cu
    BY <2>1 DEF IInv, TypeOK
  <2>2. CASE cu' = NoRun
    BY <2>2 DEF NoRun
  <2>3. QED
    BY <2>1, <2>2
<1>3. TypeOK'
  BY <1>1, <1>2 DEF IInv, TypeOK
<1>4. ExpiredInv'
  BY <1>1, <1>2 DEF IInv, ExpiredInv
<1>5. UseInv' /\ FileInv' /\ SendInv' /\ ReplaceInv' /\ CleanInv' /\ AckedPartsKept'
  BY SameSelection DEF IInv, UseInv, FileInv, SendInv, ReplaceInv, CleanInv, AckedPartsKept, Active, Filed
<1>6. QED
  BY <1>3, <1>4, <1>5 DEF IInv

\* Retention passes: what the file kept is not promised any more.
LEMMA ExpireStep ==
  ASSUME IInv, NEW m \in Msgs, Expire(m)
  PROVE  IInv'
<1>1. /\ row[m] # None /\ old' = old \cup {m} /\ use' = [use EXCEPT ![m] = "loose"]
      /\ UNCHANGED <<tg, row, file, client, cron>>
  BY DEF Expire
<1>2. /\ use' \in [Msgs -> {"new", "acked", "kept", "loose"}] /\ use'[m] = "loose"
      /\ \A n \in Msgs : n # m => use'[n] = use[n]
  BY <1>1 DEF IInv, TypeOK
<1>3. TypeOK' /\ tg[m] # "unsent"
  BY <1>1, <1>2 DEF IInv, TypeOK, cron
<1>4. UseInv' /\ ExpiredInv' /\ SendInv'
  BY <1>1, <1>2, <1>3 DEF IInv, TypeOK, Clients, UseInv, ExpiredInv, SendInv, cron
<1>5. FileInv' /\ AckedPartsKept'
  BY <1>1, <1>2 DEF IInv, TypeOK, FileInv, AckedPartsKept, Active, Filed
<1>6. ReplaceInv'
  BY <1>1, <1>2 DEF IInv, TypeOK, Clients, ReplaceInv, Filed
<1>7. CleanInv'
  BY SameSelection, <1>1, <1>2 DEF IInv, TypeOK, CleanInv, Filed, cron
<1>8. QED
  BY <1>3, <1>4, <1>5, <1>6, <1>7 DEF IInv

-----------------------------------------------------------------------------
(***************************************************************************)
(* File rows (FilesCreate, FilesUpdate, FilesUpdateParts, FilesDelete).    *)
(***************************************************************************)
\* A row takes the parts of an upload; a new row is one nobody refers to.
LEMMA SetPartsStep ==
  ASSUME IInv, NEW u \in Uploads, NEW r \in Rows, NEW status \in {"active", "pending"},
         SetParts(r, status, client[u].parts), file[r].status = status \/ Unused(r),
         UNCHANGED <<tg, row, old, client, cron>>
  PROVE  IInv'
<1> DEFINE ms == client[u].parts
           held == file[r].parts
<1>1. /\ Put(ms, held)
      /\ file' = [file EXCEPT ![r] = [status |-> status, parts |-> ms]]
      /\ file[r].status \in {"free", status}
  BY DEF SetParts, Unused
<1>2. /\ file' \in [Rows -> [status : {"free", "active", "pending"}, parts : SUBSET Msgs]]
      /\ UseInv' /\ FileInv' /\ AckedPartsKept'
      /\ \A m \in Msgs, s \in Rows : use'[m] = "kept" /\ m \in file'[s].parts =>
           use[m] = "acked" \/ (use[m] = "kept" /\ m \in file[s].parts)
  BY <1>1, PutStep
<1>3. /\ use' \in [Msgs -> {"new", "acked", "kept", "loose"}]
      /\ \A m \in Msgs : /\ use[m] \in {"new", "loose"} => use'[m] \in {"new", "loose"}
                         /\ use[m] = "loose" => use'[m] = "loose"
                         /\ use[m] \in {"kept", "loose"} => use'[m] \in {"kept", "loose"}
  BY <1>1, PutFacts DEF IInv
<1>4. TypeOK'
  BY <1>2, <1>3 DEF IInv, TypeOK, cron
<1>5. ExpiredInv' /\ SendInv'
  BY <1>3 DEF IInv, TypeOK, ExpiredInv, SendInv, cron
<1>6. ReplaceInv'
  <2>1. \A v \in Uploads : client[v].replaced \subseteq Msgs
    BY DEF IInv, TypeOK, Clients
  <2>2. QED
    BY <1>2, <1>3, <2>1 DEF IInv, ReplaceInv, Filed
<1>7. CleanInv'
  <2>1. \A q \in DOMAIN cf.parts : q \in Rows /\ cf.parts[q] \subseteq Msgs
    BY DEF IInv, TypeOK
  <2>2. \A q \in DOMAIN cf.parts : file'[q].status = "pending"
    BY <1>1, <2>1 DEF IInv, TypeOK, CleanInv, Unused
  <2>3. QED
    BY SameSelection, <1>2, <1>3, <2>1, <2>2 DEF IInv, CleanInv, Filed, cron
<1>8. QED
  BY <1>2, <1>4, <1>5, <1>6, <1>7 DEF IInv

\* FilesCreate and FilesUpdate.
LEMMA CreateUpdateStep ==
  ASSUME IInv, NEW u \in Uploads, FilesCreate(u) \/ FilesUpdate(u)
  PROVE  IInv'
<1>1. CASE FilesCreate(u)
  <2>1. PICK r \in Rows : /\ file[r].status = "active" \/ Unused(r)
                          /\ SetParts(r, "active", client[u].parts)
    BY <1>1 DEF FilesCreate
  <2>2. QED
    BY <1>1, <2>1, SetPartsStep DEF FilesCreate
<1>2. CASE FilesUpdate(u)
  <2>1. PICK r \in Rows : /\ file[r].status # "free"
                          /\ SetParts(r, file[r].status, client[u].parts)
    BY <1>2 DEF FilesUpdate
  <2>2. file[r].status \in {"active", "pending"}
    BY <2>1 DEF IInv, TypeOK
  <2>3. QED
    BY <1>2, <2>1, <2>2, SetPartsStep DEF FilesUpdate
<1>3. QED
  BY <1>1, <1>2

\* FilesUpdateParts reads the parts it will replace: they are in its row only.
LEMMA ReadOldStep ==
  ASSUME IInv, NEW u \in Uploads, ReadOldParts(u)
  PROVE  IInv'
<1>1. PICK r \in Rows :
        /\ client[u].pc = "open" /\ UNCHANGED <<tg, row, old, file, cron, use>>
        /\ client' = [client EXCEPT ![u].pc = "read", ![u].target = r,
                                    ![u].replaced = file[r].parts]
  BY DEF ReadOldParts
<1>2. file[r].parts \in SUBSET Msgs
  BY DEF IInv, TypeOK
<1>3. /\ client'[u].pc = "read" /\ client'[u].target = r
      /\ client'[u].replaced = file[r].parts
      /\ client'[u].msg = client[u].msg /\ client'[u].parts = client[u].parts
      /\ \A v \in Uploads : v # u => client'[v] = client[v]
  BY <1>1 DEF IInv, TypeOK, Clients
<1>4. client' \in [Uploads -> Clients]
  <2> DEFINE first  == [client EXCEPT ![u].pc = "read"]
             second == [first EXCEPT ![u].target = r]
  <2>1. first \in [Uploads -> Clients]
    BY ClientStep DEF IInv, TypeOK
  <2>2. second \in [Uploads -> Clients]
    <3> HIDE DEF first
    <3>1. QED
      BY <2>1, ClientStep
  <2>3. client' = [second EXCEPT ![u].replaced = file[r].parts]
    BY <1>1 DEF IInv, TypeOK, Clients
  <2> HIDE DEF second
  <2>4. QED
    BY <1>2, <2>2, <2>3, ClientStep
<1>5. TypeOK'
  BY <1>1, <1>4 DEF IInv, TypeOK, cron
<1>6. UseInv' /\ FileInv' /\ ExpiredInv' /\ CleanInv' /\ AckedPartsKept'
  BY SameSelection, <1>1 DEF IInv, UseInv, FileInv, ExpiredInv, CleanInv, AckedPartsKept, Active,
              Filed, cron
<1>7. SendInv'
  <2>1. \A v \in Uploads :
          /\ client'[v].msg = client[v].msg /\ client'[v].parts = client[v].parts
          /\ client'[v].pc \in {"sent", "stored"} <=> client[v].pc \in {"sent", "stored"}
    BY <1>1, <1>3
  <2>2. tg' = tg /\ use' = use
    BY <1>1
  <2>3. QED
    BY <2>1, <2>2 DEF IInv, SendInv
<1>8. ReplaceInv'
  <2>1. ASSUME NEW m \in client'[u].replaced
        PROVE  /\ Filed(m)
               /\ \A s \in Rows : use[m] = "kept" /\ m \in file[s].parts => s = r
    BY <1>3, <2>1 DEF IInv, FileInv
  <2>2. r # None /\ file' = file /\ use' = use
    BY <1>1, NoneAssumption
  <2>3. QED
    BY <1>3, <2>1, <2>2 DEF IInv, ReplaceInv, Filed
<1>9. QED
  BY <1>5, <1>6, <1>7, <1>8 DEF IInv

\* The transaction of FilesUpdateParts: what it read no row counts on any more.
LEMMA WriteNewStep ==
  ASSUME IInv, NEW u \in Uploads, WriteNewParts(u)
  PROVE  IInv'
<1> DEFINE r == client[u].target
           ms == client[u].parts
<1>1. /\ client[u].pc = "read" /\ client' = [client EXCEPT ![u].pc = "written"]
      /\ UNCHANGED <<tg, cron>> /\ \E named : DropRows(named)
  BY DEF WriteNewParts
<1>2. r \in Rows /\ ms \in SUBSET Msgs
  BY <1>1 DEF IInv, TypeOK, Clients, ReplaceInv
<1>3. /\ client' \in [Uploads -> Clients] /\ client'[u].pc = "written"
      /\ \A v \in Uploads : /\ v # u => client'[v] = client[v]
                            /\ client'[v].parts = client[v].parts
                            /\ client'[v].msg = client[v].msg
                            /\ client'[v].target = client[v].target
                            /\ client'[v].replaced = client[v].replaced
  <2>1. client' \in [Uploads -> Clients]
    BY <1>1, ClientStep DEF IInv, TypeOK
  <2>2. /\ client[u] \in Clients /\ client'[u] = [client[u] EXCEPT !.pc = "written"]
        /\ \A v \in Uploads : v # u => client'[v] = client[v]
    BY <1>1, ClientStepOnly DEF IInv, TypeOK
  <2>3. /\ client'[u].pc = "written" /\ client'[u].parts = client[u].parts
        /\ client'[u].msg = client[u].msg /\ client'[u].target = client[u].target
        /\ client'[u].replaced = client[u].replaced
    BY <2>2, ClientOthers
  <2>4. QED
    BY <2>1, <2>2, <2>3
<1>4. /\ row' \in [Msgs -> Uploads \cup {None}]
      /\ old' \subseteq {m \in Msgs : row'[m] # None} /\ old' \subseteq old
      /\ \A m \in Msgs : row'[m] # None => row'[m] = row[m]
  BY <1>1, DropRowsFacts DEF IInv
<1>5. /\ file' \in [Rows -> [status : {"free", "active", "pending"}, parts : SUBSET Msgs]]
      /\ \A q \in Rows : file'[q].status = file[q].status
      /\ UseInv' /\ FileInv' /\ AckedPartsKept'
      /\ use' \in [Msgs -> {"new", "acked", "kept", "loose"}]
      /\ \A m \in Msgs :
           /\ use[m] \in {"new", "loose"} => use'[m] \in {"new", "loose"}
           /\ use[m] = "loose" => use'[m] = "loose"
           /\ use[m] \in {"kept", "loose"} => use'[m] \in {"kept", "loose"}
           /\ \A q \in Rows : use'[m] = "kept" /\ m \in file'[q].parts =>
                \/ use[m] = "acked"
                \/ /\ use[m] = "kept" /\ m \in file[q].parts
                   /\ q # r \/ m \notin client[u].replaced
  <2>1. CASE file[r].status = "free"
    <3>1. UNCHANGED <<file, use>>
      BY <2>1 DEF WriteNewParts
    <3>2. UseInv' /\ FileInv' /\ AckedPartsKept'
      BY <1>1, <3>1 DEF IInv, UseInv, FileInv, AckedPartsKept, Active, Filed
    <3>3. file[r].parts = {}
      BY <1>2, <2>1 DEF IInv, FileInv
    <3>4. QED
      BY <3>1, <3>2, <3>3 DEF IInv, TypeOK
  <2>2. CASE file[r].status # "free" /\ file' = [file EXCEPT ![r].parts = ms] /\ Put(ms, {})
    <3>1. file' = [file EXCEPT ![r].parts = ms] /\ Put(ms, {})
      BY <2>2
    <3>2. /\ file[r].status \in {"active", "pending"}
          /\ file' = [file EXCEPT ![r] = [status |-> file[r].status, parts |-> ms]]
      <4>1. file[r] \in [status : {"free", "active", "pending"}, parts : SUBSET Msgs]
        BY <1>2 DEF IInv, TypeOK
      <4>2. [file[r] EXCEPT !.parts = ms] = [status |-> file[r].status, parts |-> ms]
        BY <4>1
      <4>3. file' = [file EXCEPT ![r] = [file[r] EXCEPT !.parts = ms]]
        BY <3>1
      <4>4. QED
        BY <2>2, <4>1, <4>2, <4>3
    <3>3. /\ file' \in [Rows -> [status : {"free", "active", "pending"}, parts : SUBSET Msgs]]
          /\ UseInv' /\ FileInv' /\ AckedPartsKept'
          /\ \A m \in Msgs, s \in Rows : use'[m] = "kept" /\ m \in file'[s].parts =>
               use[m] = "acked" \/ (use[m] = "kept" /\ m \in file[s].parts)
      <4>1. {} \in SUBSET file[r].parts
        OBVIOUS
      <4>2. UNCHANGED tg
        BY <1>1
      <4>3. QED
        BY <1>2, <3>1, <3>2, <4>1, <4>2, PutStep
    <3>4. /\ use' \in [Msgs -> {"new", "acked", "kept", "loose"}]
          /\ \A m \in Msgs :
               /\ use[m] \in {"new", "loose"} => use'[m] \in {"new", "loose"}
               /\ use[m] = "loose" => use'[m] = "loose"
               /\ use[m] \in {"kept", "loose"} => use'[m] \in {"kept", "loose"}
               /\ m \in ms /\ use'[m] = "kept" => use[m] = "acked"
      <4>1. TypeOK
        BY DEF IInv
      <4>2. QED
        BY <3>1, <4>1, PutFacts
    <3>5. \A q \in Rows : /\ file'[q].status = file[q].status
                          /\ q # r => file'[q] = file[q]
                          /\ file'[r].parts = ms
      BY <1>2, <3>2 DEF IInv, TypeOK
    <3>6. QED
      BY <1>2, <3>3, <3>4, <3>5
  <2>3. CASE UNCHANGED file /\ Put(client[u].replaced, {})
    <3>1. /\ use' \in [Msgs -> {"new", "acked", "kept", "loose"}]
          /\ \A m \in Msgs :
               /\ m \notin client[u].replaced => use'[m] = use[m]
               /\ use'[m] = "acked" => use[m] = "acked"
               /\ use'[m] = "new" => use[m] = "new"
               /\ use[m] \in {"new", "loose"} => use'[m] \in {"new", "loose"}
               /\ use[m] = "loose" => use'[m] = "loose"
               /\ use[m] \in {"kept", "loose"} => use'[m] \in {"kept", "loose"}
               /\ use'[m] = "kept" =>
                    use[m] = "acked" \/ (use[m] = "kept" /\ m \notin client[u].replaced)
      <4>1. TypeOK
        BY DEF IInv
      <4>2. QED
        BY <2>3, <4>1, PutFacts
    <3>2. \A m \in client[u].replaced : Filed(m) /\ m \in Msgs
      BY DEF IInv, TypeOK, Clients, ReplaceInv
    <3>3. \A q \in Rows : \A m \in file[q].parts : m \in Msgs /\ Filed(m)
      BY DEF IInv, TypeOK, FileInv
    <3>4. \A m \in Msgs, q \in Rows : use'[m] = "kept" /\ m \in file[q].parts =>
            use[m] = "kept" /\ m \notin client[u].replaced
      BY <3>1, <3>3 DEF Filed
    <3>5. UseInv'
      BY <1>1, <3>1, <3>2 DEF IInv, UseInv, Filed
    <3>6. FileInv'
      BY <2>3, <3>1, <3>3, <3>4 DEF IInv, FileInv, Filed
    <3>7. AckedPartsKept'
      BY <1>1, <2>3, <3>3, <3>4 DEF IInv, AckedPartsKept, Active
    <3>8. QED
      BY <2>3, <3>1, <3>4, <3>5, <3>6, <3>7 DEF IInv, TypeOK
  <2>4. \/ file[r].status = "free"
        \/ file[r].status # "free" /\ file' = [file EXCEPT ![r].parts = ms] /\ Put(ms, {})
        \/ UNCHANGED file /\ Put(client[u].replaced, {})
    BY DEF WriteNewParts
  <2>5. QED
    BY <2>1, <2>2, <2>3, <2>4
<1> HIDE DEF r, ms
<1>6. TypeOK'
  BY <1>1, <1>3, <1>4, <1>5 DEF IInv, TypeOK, cron
<1>7. ExpiredInv' /\ SendInv'
  BY <1>1, <1>3, <1>4, <1>5 DEF IInv, TypeOK, Clients, ExpiredInv, SendInv, cron
<1>8. ReplaceInv'
  <2>1. \A v \in Uploads : client[v].replaced \subseteq Msgs
    BY DEF IInv, TypeOK, Clients
  <2>2. QED
    BY <1>1, <1>3, <1>5, <2>1 DEF IInv, ReplaceInv, Filed, r
<1>9. CleanInv'
  <2>1. \A q \in DOMAIN cf.parts : q \in Rows /\ cf.parts[q] \subseteq Msgs
    BY DEF IInv, TypeOK
  <2>2. QED
    BY SameSelection, <1>1, <1>5, <2>1 DEF IInv, CleanInv, Filed, cron
<1>10. QED
  BY <1>5, <1>6, <1>7, <1>8, <1>9 DEF IInv

\* The messages FilesUpdateParts read go once no row counts on them.
LEMMA DeleteReplacedStep ==
  ASSUME IInv, NEW u \in Uploads, DeleteReplaced(u)
  PROVE  IInv'
<1>1. PICK ms \in SUBSET client[u].replaced : Delete(ms)
  BY DEF DeleteReplaced, FailsOn
<1>2. /\ client[u].pc = "written" /\ UNCHANGED <<row, old, file, cron, use>>
      /\ client' = [client EXCEPT ![u].pc = "open", ![u].target = None, ![u].replaced = {}]
  BY DEF DeleteReplaced
<1>3. /\ client'[u].pc = "open" /\ client'[u].target = None /\ client'[u].replaced = {}
      /\ client'[u].msg = client[u].msg /\ client'[u].parts = client[u].parts
      /\ \A v \in Uploads : v # u => client'[v] = client[v]
  BY <1>2 DEF IInv, TypeOK, Clients
<1>4. client' \in [Uploads -> Clients]
  <2> DEFINE first  == [client EXCEPT ![u].pc = "open"]
             second == [first EXCEPT ![u].target = None]
  <2>1. first \in [Uploads -> Clients]
    BY ClientStep DEF IInv, TypeOK
  <2>2. second \in [Uploads -> Clients]
    <3> HIDE DEF first
    <3>1. QED
      BY <2>1, ClientStep
  <2>3. client' = [second EXCEPT ![u].replaced = {}]
    BY <1>2 DEF IInv, TypeOK, Clients
  <2> HIDE DEF second
  <2>4. QED
    BY <2>2, <2>3, ClientStep
<1>5. Deletable(ms)
  BY <1>2 DEF IInv, ReplaceInv, Deletable, Active, Filed
<1>6. UseInv' /\ FileInv' /\ AckedPartsKept'
  BY <1>1, <1>2, <1>5, DeleteStep
<1>7. /\ tg' \in [Msgs -> {"unsent", "there", "gone"}]
      /\ \A m \in Msgs : /\ tg'[m] = "unsent" <=> tg[m] = "unsent"
                         /\ tg[m] = "gone" => tg'[m] = "gone"
  BY <1>1, DeleteFacts DEF IInv
<1>8. TypeOK'
  BY <1>2, <1>4, <1>7 DEF IInv, TypeOK, cron
<1>9. ExpiredInv' /\ CleanInv'
  BY SameSelection, <1>2, <1>7 DEF IInv, TypeOK, ExpiredInv, CleanInv, Filed, cron
<1>10. SendInv'
  <2>1. \A v \in Uploads :
          /\ client'[v].msg = client[v].msg /\ client'[v].parts = client[v].parts
          /\ client'[v].pc \in {"sent", "stored"} <=> client[v].pc \in {"sent", "stored"}
          /\ client[v].parts \subseteq Msgs
    BY <1>2, <1>3 DEF IInv, TypeOK, Clients
  <2>2. use' = use
    BY <1>2
  <2>3. QED
    BY <1>7, <2>1, <2>2 DEF IInv, SendInv
<1>11. ReplaceInv'
  <2>1. file' = file /\ use' = use
    BY <1>2
  <2>2. QED
    BY <1>3, <2>1 DEF IInv, ReplaceInv, Filed
<1>12. QED
  BY <1>6, <1>8, <1>9, <1>10, <1>11 DEF IInv

\* delete_files_bulk marks an active row; its parts stay what they were.
LEMMA FilesDeleteStep ==
  ASSUME IInv, NEW r \in Rows, FilesDelete(r)
  PROVE  IInv'
<1>1. /\ file[r].status = "active" /\ file' = [file EXCEPT ![r].status = "pending"]
      /\ UNCHANGED <<tg, row, old, client, cron, use>>
  BY DEF FilesDelete
<1>2. /\ file' \in [Rows -> [status : {"free", "active", "pending"}, parts : SUBSET Msgs]]
      /\ file'[r].status = "pending" /\ \A s \in Rows : file'[s].parts = file[s].parts
      /\ \A s \in Rows : s # r => file'[s].status = file[s].status
  BY <1>1 DEF IInv, TypeOK
<1>3. TypeOK' /\ UseInv' /\ ExpiredInv' /\ SendInv'
  BY <1>1, <1>2 DEF IInv, TypeOK, UseInv, ExpiredInv, SendInv, cron
<1>4. FileInv' /\ AckedPartsKept'
  BY <1>1, <1>2 DEF IInv, FileInv, AckedPartsKept, Active, Filed
<1>5. ReplaceInv'
  BY <1>1, <1>2 DEF IInv, ReplaceInv, Filed
<1>6. CleanInv'
  <2>1. \A q \in DOMAIN cf.parts : q \in Rows
    BY DEF IInv, TypeOK
  <2>2. QED
    BY SameSelection, <1>1, <1>2, <2>1 DEF IInv, CleanInv, Filed, cron
<1>7. QED
  BY <1>3, <1>4, <1>5, <1>6 DEF IInv

-----------------------------------------------------------------------------
(***************************************************************************)
(* The cron cleaners, and crashes.                                         *)
(***************************************************************************)
\* A cleaner that only deletes messages (cron.go), then stops or goes on.
LEMMA CleanerDeletes ==
  ASSUME IInv, NEW ms, tg' = tg \/ Delete(ms), Deletable(ms),
         UNCHANGED <<row, old, file, client, use>>
  PROVE  /\ UseInv' /\ FileInv' /\ SendInv' /\ ReplaceInv' /\ AckedPartsKept'
         /\ tg' \in [Msgs -> {"unsent", "there", "gone"}]
         /\ \A m \in Msgs : /\ tg'[m] = "unsent" <=> tg[m] = "unsent"
                            /\ tg[m] = "gone" => tg'[m] = "gone"
<1>1. /\ tg' \in [Msgs -> {"unsent", "there", "gone"}]
      /\ \A m \in Msgs : /\ tg'[m] = "unsent" <=> tg[m] = "unsent"
                         /\ tg[m] = "gone" => tg'[m] = "gone"
  BY DeleteFacts DEF IInv, TypeOK
<1>2. UseInv' /\ FileInv' /\ AckedPartsKept'
  <2>1. CASE tg' = tg
    BY <2>1 DEF IInv, UseInv, FileInv, AckedPartsKept, Active, Filed
  <2>2. CASE Delete(ms)
    BY <2>2, DeleteStep
  <2>3. QED
    BY <2>1, <2>2
<1>3. SendInv'
  <2>1. \A v \in Uploads : client[v].parts \subseteq Msgs
    BY DEF IInv, TypeOK, Clients
  <2>2. QED
    BY <1>1, <2>1 DEF IInv, SendInv
<1>4. ReplaceInv'
  BY DEF IInv, ReplaceInv, Filed
<1>5. QED
  BY <1>1, <1>2, <1>3, <1>4

\* cleanUploads: what it selected is promised to no file.
LEMMA cleanUploadsStep ==
  ASSUME IInv, cleanUploads
  PROVE  IInv'
<1>1. CASE SelectUploads
  <2>1. PICK hasSession \in BOOLEAN :
          cu' = [step |-> "selected", ids |-> old, session |-> hasSession]
    BY <1>1 DEF SelectUploads
  <2>2. UNCHANGED <<tg, row, old, file, client, cf, use>>
    BY <1>1 DEF SelectUploads
  <2>3. TypeOK' /\ ExpiredInv'
    BY <2>1, <2>2 DEF IInv, TypeOK, ExpiredInv
  <2>4. UseInv' /\ FileInv' /\ SendInv' /\ ReplaceInv' /\ CleanInv' /\ AckedPartsKept'
    BY SameSelection, <2>2 DEF IInv, UseInv, FileInv, SendInv, ReplaceInv, CleanInv, AckedPartsKept,
                Active, Filed
  <2>5. QED
    BY <2>3, <2>4 DEF IInv
<1>2. CASE CleanUploadMessages \/ CleanUploadsFails
  <2>1. PICK ms \in SUBSET cu.ids : tg' = tg \/ Delete(ms)
    BY <1>2 DEF CleanUploadMessages, CleanUploadsFails, Succeeds, FailsOn
  <2>2. /\ UNCHANGED <<row, old, file, client, cf, use>>
        /\ cu' = [cu EXCEPT !.step = "deleted"] \/ cu' = NoRun
    BY <1>2 DEF CleanUploadMessages, CleanUploadsFails
  <2>3. Deletable(ms)
    BY DEF IInv, ExpiredInv, Deletable
  <2>4. /\ UseInv' /\ FileInv' /\ SendInv' /\ ReplaceInv' /\ AckedPartsKept'
        /\ tg' \in [Msgs -> {"unsent", "there", "gone"}]
        /\ \A m \in Msgs : /\ tg'[m] = "unsent" <=> tg[m] = "unsent"
                           /\ tg[m] = "gone" => tg'[m] = "gone"
    BY <2>1, <2>2, <2>3, CleanerDeletes
  <2>5. /\ cu'.ids \subseteq cu.ids
        /\ cu' \in [step : {"idle", "selected", "deleted"}, ids : SUBSET Msgs,
                    session : BOOLEAN]
    <3>1. CASE cu' = [cu EXCEPT !.step = "deleted"]
      BY <3>1 DEF IInv, TypeOK
    <3>2. CASE cu' = NoRun
      BY <3>2 DEF NoRun
    <3>3. QED
      BY <2>2, <3>1, <3>2
  <2>6. TypeOK'
    BY <2>2, <2>4, <2>5 DEF IInv, TypeOK
  <2>7. ExpiredInv' /\ CleanInv'
    BY SameSelection, <2>2, <2>4, <2>5 DEF IInv, TypeOK, ExpiredInv, CleanInv, Filed
  <2>8. QED
    BY <2>4, <2>6, <2>7 DEF IInv
<1>3. CASE CleanUploadRows
  BY <1>3, RowsGoStep DEF CleanUploadRows
<1>4. QED
  BY <1>1, <1>2, <1>3 DEF cleanUploads

\* cleanFiles: a row it selected stays marked, and keeps what no other row keeps.
LEMMA cleanFilesStep ==
  ASSUME IInv, cleanFiles
  PROVE  IInv'
<1>1. CASE SelectFiles
  <2> DEFINE parts == [r \in Pending |-> file[r].parts]
  <2>1. /\ cf' = [step |-> "selected", parts |-> parts]
        /\ UNCHANGED <<tg, row, old, file, client, cu, use>>
    BY <1>1 DEF SelectFiles
  <2>2. Pending \in SUBSET Rows /\ parts \in [Pending -> SUBSET Msgs]
    BY DEF IInv, TypeOK, Pending
  <2>3. TypeOK'
    BY <2>1, <2>2 DEF IInv, TypeOK
  <2>4. UseInv' /\ FileInv' /\ SendInv' /\ ReplaceInv' /\ ExpiredInv' /\ AckedPartsKept'
    BY <2>1 DEF IInv, UseInv, FileInv, SendInv, ReplaceInv, ExpiredInv, AckedPartsKept,
                Active, Filed
  <2>5. CleanInv'
    BY <2>1 DEF IInv, FileInv, CleanInv, Pending, Filed
  <2>6. QED
    BY <2>3, <2>4, <2>5 DEF IInv
<1>2. CASE CleanFileMessages \/ CleanFilesFails
  <2>1. PICK ms \in SUBSET Selected :
          /\ Delete(ms)
          /\ \/ /\ cf' = [cf EXCEPT !.step = "deleted"]
                /\ SelectedIds <= BatchSize => ms = Selected
             \/ cf' = NoScan
    BY <1>2 DEF CleanFileMessages, CleanFilesFails, Succeeds, FailsOn
  <2>2. UNCHANGED <<row, old, file, client, cu, use>>
    BY <1>2 DEF CleanFileMessages, CleanFilesFails
  <2>3. \A r \in DOMAIN cf.parts : r \in Rows /\ cf.parts[r] \subseteq Msgs
    BY DEF IInv, TypeOK
  <2>4. Deletable(ms)
    BY <2>3 DEF IInv, CleanInv, Deletable, Selected, Active, Filed
  <2>5. /\ UseInv' /\ FileInv' /\ SendInv' /\ ReplaceInv' /\ AckedPartsKept'
        /\ tg' \in [Msgs -> {"unsent", "there", "gone"}]
        /\ \A m \in Msgs : tg'[m] = "unsent" <=> tg[m] = "unsent"
    BY <2>1, <2>2, <2>4, CleanerDeletes
  <2>6. ExpiredInv'
    BY <2>2 DEF IInv, ExpiredInv
  <2>7. CASE /\ cf' = [cf EXCEPT !.step = "deleted"]
             /\ SelectedIds <= BatchSize => ms = Selected
    <3>1. cf'.parts = cf.parts
      BY <2>7 DEF IInv, TypeOK
    <3>2. \A m \in Selected :
            m \in Msgs /\ use[m] # "new" /\ (SelectedIds <= BatchSize => tg'[m] # "there")
      BY <2>1, <2>3, <2>7, DeleteFacts DEF IInv, CleanInv, Selected, Filed
    <3>3. SelectedIds <= BatchSize => \A m \in Selected : tg'[m] = "gone"
      BY <2>5, <3>2 DEF IInv, UseInv
    <3>4. TypeOK'
      BY <2>2, <2>5, <2>7 DEF IInv, TypeOK
    <3>5. CleanInv'
      BY SameSelection, <2>2, <3>1, <3>3 DEF IInv, CleanInv, Selected, Filed
    <3>6. QED
      BY <2>5, <2>6, <3>4, <3>5 DEF IInv
  <2>8. CASE cf' = NoScan
    <3>1. TypeOK' /\ CleanInv'
      BY <2>2, <2>5, <2>8, NoScanFacts DEF IInv, TypeOK, CleanInv
    <3>2. QED
      BY <2>5, <2>6, <3>1 DEF IInv
  <2>9. QED
    BY <2>1, <2>7, <2>8
<1>3. CASE CleanFileRows
  <2>1. /\ file' = [r \in Rows |-> IF r \in DOMAIN cf.parts THEN Free ELSE file[r]]
        /\ cf' = NoScan /\ UNCHANGED <<tg, row, old, client, cu, use>>
    BY <1>3 DEF CleanFileRows
  <2>2. /\ file' \in [Rows -> [status : {"free", "active", "pending"}, parts : SUBSET Msgs]]
        /\ \A r \in Rows :
             file'[r] = file[r] \/ (file'[r].status = "free" /\ file'[r].parts = {})
    BY <2>1 DEF IInv, TypeOK, Free
  <2>3. TypeOK' /\ CleanInv'
    BY <2>1, <2>2, NoScanFacts DEF IInv, TypeOK, CleanInv
  <2>4. UseInv' /\ SendInv' /\ ExpiredInv'
    BY <2>1 DEF IInv, UseInv, SendInv, ExpiredInv
  <2>5. FileInv' /\ ReplaceInv' /\ AckedPartsKept'
    BY <2>1, <2>2 DEF IInv, FileInv, ReplaceInv, AckedPartsKept, Active, Filed
  <2>6. QED
    BY <2>3, <2>4, <2>5 DEF IInv
<1>4. QED
  BY <1>1, <1>2, <1>3 DEF cleanFiles

\* A crash: nobody holds an id any more but the clients, in their parts.
LEMMA CrashStep ==
  ASSUME IInv, Crash
  PROVE  IInv'
<1>1. /\ cu' = NoRun /\ cf' = NoScan /\ UNCHANGED <<tg, row, old, file, use>>
      /\ client' = [u \in Uploads |-> [Idle EXCEPT !.parts = client[u].parts]]
  BY DEF Crash
<1>2. \A u \in Uploads :
        /\ client'[u].pc = "open" /\ client'[u].parts = client[u].parts
        /\ client'[u].msg = None /\ client'[u].target = None /\ client'[u].replaced = {}
  BY <1>1 DEF Idle
<1>3. client' \in [Uploads -> Clients]
  <2>1. ASSUME NEW u \in Uploads
        PROVE  [Idle EXCEPT !.parts = client[u].parts] \in Clients
    <3>1. client[u].parts \in SUBSET Msgs /\ Idle \in Clients
      BY DEF IInv, TypeOK, Clients, Idle
    <3>2. QED
      BY <3>1 DEF Clients
  <2>2. QED
    BY <1>1, <2>1
<1>4. /\ NoRun.ids = {}
      /\ NoRun \in [step : {"idle", "selected", "deleted"}, ids : SUBSET Msgs,
                    session : BOOLEAN]
  BY DEF NoRun
<1>5. TypeOK' /\ CleanInv'
  BY <1>1, <1>3, <1>4, NoScanFacts DEF IInv, TypeOK, CleanInv
<1>6. UseInv' /\ FileInv' /\ ExpiredInv' /\ AckedPartsKept'
  BY <1>1, <1>4 DEF IInv, UseInv, FileInv, ExpiredInv, AckedPartsKept, Active, Filed
<1>7. SendInv' /\ ReplaceInv'
  <2>1. \A u \in Uploads : \A m \in client'[u].parts : tg'[m] # "unsent"
    BY <1>1, <1>2 DEF IInv, SendInv
  <2>2. QED
    BY <1>2, <2>1, NoneAssumption DEF SendInv, ReplaceInv
<1>8. QED
  BY <1>5, <1>6, <1>7 DEF IInv

-----------------------------------------------------------------------------
(***************************************************************************)
(* The theorems.                                                           *)
(***************************************************************************)
\* Every step keeps the invariant.
LEMMA StepInv == IInv /\ [Next]_vars => IInv'
<1> SUFFICES ASSUME IInv, [Next]_vars PROVE IInv'
  OBVIOUS
<1>1. ASSUME NEW u \in Uploads, Upload(u) PROVE IInv'
  <2>1. CASE UploadsDelete(u)
    BY <2>1, RowsGoStep DEF UploadsDelete, cron
  <2>2. QED
    BY <1>1, <2>1, ListStep, SendStep, RowStep, AcknowledgeStep, FailStep DEF Upload
<1>2. ASSUME NEW u \in Uploads, FilesCreate(u) \/ FilesUpdate(u) \/ UpdateParts(u)
      PROVE  IInv'
  BY <1>2, CreateUpdateStep, ReadOldStep, WriteNewStep, DeleteReplacedStep DEF UpdateParts
<1>3. ASSUME NEW r \in Rows, FilesDelete(r) PROVE IInv'
  BY <1>3, FilesDeleteStep
<1>4. ASSUME NEW m \in Msgs, Expire(m) PROVE IInv'
  BY <1>4, ExpireStep
<1>5. CASE UNCHANGED vars
  <2>1. UNCHANGED <<tg, row, old, file, client, cu, cf, use>>
    BY <1>5 DEF vars
  <2>2. TypeOK' /\ UseInv' /\ FileInv' /\ SendInv'
    BY <2>1 DEF IInv, TypeOK, UseInv, FileInv, SendInv, Filed
  <2>3. ReplaceInv' /\ ExpiredInv' /\ CleanInv' /\ AckedPartsKept'
    BY SameSelection, <2>1 DEF IInv, ReplaceInv, ExpiredInv, CleanInv, AckedPartsKept, Active, Filed
  <2>4. QED
    BY <2>2, <2>3 DEF IInv
<1>6. QED
  BY <1>1, <1>2, <1>3, <1>4, <1>5, cleanUploadsStep, cleanFilesStep, CrashStep DEF Next

\* The invariant of messages, part rows, file rows and those who hold ids of messages.
THEOREM LifecycleInvariance == Spec => []IInv
<1>1. Init => IInv
  BY InitInv
<1>2. IInv /\ [Next]_vars => IInv'
  BY StepInv
<1>3. QED
  BY <1>1, <1>2, PTL DEF Spec

\* The variables keep their types; a part row expires only while it is there.
THEOREM LifecycleTypes == Spec => []TypeOK
<1>1. IInv => TypeOK
  BY DEF IInv
<1>2. QED
  BY <1>1, LifecycleInvariance, PTL

\* No acknowledged part of a served file is ever deleted on Telegram, whatever
\* clients, cleaners, failures and crashes interleave (upload.go, file.go, cron.go), but
\* for the three ways that AckedPartsKept names.
THEOREM NoPartLost == Spec => []AckedPartsKept
<1>1. IInv => AckedPartsKept
  BY DEF IInv
<1>2. QED
  BY <1>1, LifecycleInvariance, PTL

\* A row marked for deletion is never served again (delete_files_bulk, FilesCreate).
THEOREM DeletedStaysDeleted == Spec => DeletionFinal
<1>1. IInv /\ [Next]_vars =>
        [\A r \in Rows : file[r].status = "pending" => file'[r].status \in {"pending", "free"}]_vars
  <2> SUFFICES ASSUME IInv, Next, NEW r \in Rows, file[r].status = "pending"
               PROVE  file'[r].status \in {"pending", "free"}
    BY DEF vars
  <2>1. file \in [Rows -> [status : {"free", "active", "pending"}, parts : SUBSET Msgs]]
    BY DEF IInv, TypeOK
  <2>2. CASE UNCHANGED file
    BY <2>2
  <2>3. ASSUME NEW u \in Uploads, FilesCreate(u)
        PROVE  file'[r].status \in {"pending", "free"}
    BY <2>1, <2>3 DEF FilesCreate, SetParts, Unused
  <2>4. ASSUME NEW u \in Uploads, FilesUpdate(u)
        PROVE  file'[r].status \in {"pending", "free"}
    BY <2>1, <2>4 DEF FilesUpdate, SetParts
  <2>5. ASSUME NEW u \in Uploads, WriteNewParts(u)
        PROVE  file'[r].status \in {"pending", "free"}
    BY <2>1, <2>5 DEF WriteNewParts
  <2>6. ASSUME NEW s \in Rows, FilesDelete(s)
        PROVE  file'[r].status \in {"pending", "free"}
    BY <2>1, <2>6 DEF FilesDelete
  <2>7. CASE CleanFileRows
    BY <2>1, <2>7 DEF CleanFileRows, Free
  <2>8. QED
    BY <2>2, <2>3, <2>4, <2>5, <2>6, <2>7, FileWriters
<1>2. QED
  BY <1>1, LifecycleInvariance, PTL DEF Spec, DeletionFinal

\* A row that cleanFiles removes had its messages deleted first, as far as its selection
\* was a single batch (cron.go:165-170, helpers.go:72-75).
THEOREM RemovalLeavesNothing == Spec => RemovedFilesLeaveNothing
<1>1. IInv /\ [Next]_vars =>
        [SelectedIds <= BatchSize =>
           \A r \in Rows :
             file[r].status # "free" /\ file'[r].status = "free" /\ file[r].parts = cf.parts[r]
               => \A m \in file[r].parts : tg'[m] = "gone"]_vars
  <2> SUFFICES ASSUME IInv, Next, SelectedIds <= BatchSize, NEW r \in Rows, file[r].status # "free",
                      file'[r].status = "free", file[r].parts = cf.parts[r],
                      NEW m \in file[r].parts
               PROVE  tg'[m] = "gone"
    BY DEF vars
  <2>1. file \in [Rows -> [status : {"free", "active", "pending"}, parts : SUBSET Msgs]]
    BY DEF IInv, TypeOK
  <2>2. CASE CleanFileRows
    <3>1. cf.step = "deleted" /\ tg' = tg /\ r \in DOMAIN cf.parts
      BY <2>1, <2>2 DEF CleanFileRows
    <3>2. QED
      BY <3>1 DEF IInv, CleanInv
  <2>3. ASSUME NEW u \in Uploads, FilesCreate(u) \/ FilesUpdate(u) \/ WriteNewParts(u)
        PROVE  FALSE
    BY <2>1, <2>3 DEF FilesCreate, FilesUpdate, WriteNewParts, SetParts
  <2>4. ASSUME NEW s \in Rows, FilesDelete(s)
        PROVE  FALSE
    BY <2>1, <2>4 DEF FilesDelete
  <2>5. QED
    BY <2>2, <2>3, <2>4, FileWriters
<1>2. QED
  BY <1>1, LifecycleInvariance, PTL DEF Spec, RemovedFilesLeaveNothing
=============================================================================
