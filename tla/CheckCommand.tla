---------------------------- MODULE CheckCommand ----------------------------
(***************************************************************************)
(* The command "teldrive check --clean" on one channel (cmd/check.go),     *)
(* beside the server's uploads and file operations of PartLifecycle.  It   *)
(* reads the file rows, then the messages, then the part rows, with no     *)
(* snapshot; files with a message it does not know are marked for deletion *)
(* and messages it did not come across in a file are deleted.  It leaves a *)
(* file at its first missing part, so that the parts behind that one, even *)
(* where they are there, are deleted at once with the messages of nobody.  *)
(*                                                                         *)
(* The cron cleaners and crashes are left out.  A file's size is wrong     *)
(* exactly when a part is missing.                                         *)
(***************************************************************************)
EXTENDS PartLifecycle

VARIABLE
  ck  \* step; parts of the rows loaded (files); messages of the channel (msgs);
      \* missingFiles (bad) and orphanMessages (orphans).  History: messages with a
      \* part row ever since loadFiles (listed), file rows active then and not written
      \* by the server ever since (intact).

checkVars == <<vars, ck>>

NoCheck == [step |-> "idle", files |-> [r \in {} |-> {}], msgs |-> {}, bad |-> {},
            orphans |-> {}, listed |-> {}, intact |-> {}]

CheckInit == Init /\ ck = NoCheck

Listing == {m \in Msgs : row[m] /= None}

\* What a step of the server leaves of the history.
Remember ==
  ck' = [ck EXCEPT !.listed = @ \cap Listing', !.intact = {r \in @ : file'[r] = file[r]}]

Server ==
  /\ \/ \E u \in Uploads : Upload(u) \/ FilesCreate(u) \/ FilesUpdate(u) \/ UpdateParts(u)
     \/ \E r \in Rows : FilesDelete(r)
  /\ Remember

loadFiles ==
  /\ ck.step = "idle"
  /\ LET loaded == {r \in Rows : file[r].status /= "free"} IN
       /\ loaded /= {}
       /\ ck' = [NoCheck EXCEPT !.step = "files", !.files = [r \in loaded |-> file[r].parts],
                   !.listed = Listing, !.intact = Active]
  /\ UNCHANGED vars

\* The history of the channel.  No message, or fewer than announced: the end.
loadChannelMessages ==
  /\ ck.step = "files"
  /\ LET there == {m \in Msgs : tg[m] = "there"} IN
       \/ there /= {} /\ ck' = [ck EXCEPT !.step = "messages", !.msgs = there]
       \/ ck' = NoCheck
  /\ UNCHANGED vars

\* Mutant: the messages are taken as they come.
KnownAll == ck.msgs

\* msgMap: the messages that no part row names.
Known == {m \in ck.msgs : row[m] = None}

Missing == {r \in DOMAIN ck.files : ~(ck.files[r] \subseteq Known)}

\* allPartIDs: parts are counted up to the first missing one, so that of a file
\* with a missing part some are not.
Counted(counted) ==
  LET whole == UNION {ck.files[r] : r \in DOMAIN ck.files \ Missing}
      torn  == UNION {ck.files[r] : r \in Missing}
  IN  \E some \in SUBSET torn : (torn /= {} => some \cap torn /= {}) /\ counted = whole \cup some

ComparePartRows ==
  /\ ck.step = "messages"
  /\ \E counted \in SUBSET Msgs :
       /\ Counted(counted)
       /\ ck' = IF counted = {} THEN NoCheck
                ELSE [ck EXCEPT !.step = "mark", !.bad = Missing, !.orphans = Known \ counted]
  /\ UNCHANGED vars

\* delete_files_bulk on the missing files, by id; its error ends the command.
MarkMissing ==
  /\ ck.step = "mark"
  /\ \/ /\ file' = [r \in Rows |-> IF r \in ck.bad /\ file[r].status /= "free"
                                   THEN [file[r] EXCEPT !.status = "pending"] ELSE file[r]]
        /\ ck' = [ck EXCEPT !.step = "orphans"]
     \/ ck' = NoCheck /\ UNCHANGED file
  /\ UNCHANGED <<tg, row, old, client, cron, use>>

\* DeleteMessages on the orphans, its error ignored; then the command ends.
DeleteOrphans ==
  /\ ck.step = "orphans"
  /\ \E ms \in SUBSET ck.orphans : Delete(ms)
  /\ ck' = NoCheck
  /\ UNCHANGED <<row, old, file, client, cron, use>>

Check ==
  loadFiles \/ loadChannelMessages \/ ComparePartRows \/ MarkMissing \/ DeleteOrphans

CheckNext == Server \/ Check

CheckSpec == CheckInit /\ [][CheckNext]_checkVars

-----------------------------------------------------------------------------
CheckTypeOK ==
  /\ ck.step \in {"idle", "files", "messages", "mark", "orphans"}
  /\ DOMAIN ck.files \subseteq Rows /\ ck.bad \subseteq DOMAIN ck.files
  /\ ck.msgs \subseteq Msgs /\ ck.orphans \subseteq ck.msgs
  /\ ck.listed \subseteq Listing
  /\ ck.intact \subseteq Rows /\ ck.intact \ ck.bad \subseteq Active

\* A message that has had a part row, or one and the same file row, ever since the
\* command began is not deleted as an orphan, whatever else the server does
\* between its three reads.  Two kinds can be: one that went from a part row to a file
\* row, and one of a file that the command itself has just marked, where the loop left
\* the parts behind the first missing one uncounted (check.go:222); nothing is claimed
\* of the messages of files it marks.
KeptMessagesSpared ==
  [][ck.step = "orphans" /\ ck'.step = "idle" =>
       \A m \in ck.listed \cup UNION {file[r].parts : r \in ck.intact \ ck.bad} :
         tg[m] = "there" => tg'[m] = "there"]_checkVars

\* "Check and purge incomplete files" (cmd/check.go:85): a file the command marks
\* for deletion lacks a message.
PurgesIncompleteOnly ==
  [][ck.step = "mark" /\ ck'.step = "orphans" =>
       \A r \in Rows : file'[r] /= file[r] => \E m \in file[r].parts : tg[m] /= "there"]_checkVars
=============================================================================
