-------------------------- MODULE FileCacheProofs ---------------------------
(***************************************************************************)
(* FileCache for every number of streams, writers, versions and names: an  *)
(* entry that nobody still has to delete, and that was not stored from a   *)
(* row read before a change, agrees with the row.                          *)
(***************************************************************************)
EXTENDS FileCache, TLAPS

\* The row a stream is about to store, or to store the messages of, is the row of
\* the database until it changes.
HandInv ==
  \A s \in Streams : ~stream[s].stale =>
    /\ stream[s].pc = "store" => stream[s].row = row
    /\ stream[s].pc \in {"opened", "keep"} => stream[s].row.parts = row.parts

\* A writer at rest owes nothing, and every other one owes the row entry; the
\* messages it deletes are those of a version the row had.
OweInv ==
  \A w \in Writers :
    /\ writer[w].pc = "idle" => writer[w].keys = {}
    /\ writer[w].pc # "idle" => "file" \in writer[w].keys
    /\ writer[w].pc = "committed" => writer[w].old \in 1..row.parts

IInv == TypeOK /\ HandInv /\ OweInv /\ CachedRowFollows /\ CachedPartsFollow
-----------------------------------------------------------------------------
(***************************************************************************)
(* What a step of a stream, and a change of the row, do to the streams.    *)
(***************************************************************************)
\* One stream goes on; no invalidation is forgotten.
LEMMA CallFacts ==
  ASSUME IInv, NEW s \in Streams, NEW c \in Calls,
         stream[s].pc # "drop", stream' = [stream EXCEPT ![s] = c],
         c.row = None <=> c.pc \in {"idle", "query"},
         ~c.stale => /\ c.pc = "store" => c.row = row
                     /\ c.pc \in {"opened", "keep"} => c.row.parts = row.parts,
         UNCHANGED <<row, writer>>
  PROVE  /\ stream' \in [Streams -> Calls]
         /\ \A q \in Streams : stream'[q].row = None <=> stream'[q].pc \in {"idle", "query"}
         /\ HandInv' /\ OweInv'
         /\ \A key \in {"file", "messages"} : Due(key) => Due(key)'
<1>1. stream \in [Streams -> Calls] /\ stream' \in [Streams -> Calls]
  BY DEF IInv, TypeOK
<1>2. stream'[s] = c /\ \A q \in Streams : q # s => stream'[q] = stream[q]
  BY <1>1
<1>3. \A q \in Streams : stream'[q].row = None <=> stream'[q].pc \in {"idle", "query"}
  BY <1>2 DEF IInv, TypeOK
<1>4. HandInv'
  BY <1>2 DEF IInv, HandInv
<1>5. OweInv'
  BY DEF IInv, OweInv
<1>6. \A key \in {"file", "messages"} : Due(key) => Due(key)'
  BY <1>2 DEF Due
<1>7. QED
  BY <1>1, <1>3, <1>4, <1>5, <1>6

\* A stream that goes on without storing anything.
LEMMA CallStep ==
  ASSUME IInv, NEW s \in Streams, NEW c \in Calls,
         stream[s].pc # "drop", stream' = [stream EXCEPT ![s] = c],
         c.row = None <=> c.pc \in {"idle", "query"},
         ~c.stale => /\ c.pc = "store" => c.row = row
                     /\ c.pc \in {"opened", "keep"} => c.row.parts = row.parts,
         UNCHANGED <<row, gone, cfile, cmsgs, writer>>
  PROVE  IInv'
<1>1. /\ stream' \in [Streams -> Calls]
      /\ \A q \in Streams : stream'[q].row = None <=> stream'[q].pc \in {"idle", "query"}
      /\ HandInv' /\ OweInv'
      /\ \A key \in {"file", "messages"} : Due(key) => Due(key)'
  BY CallFacts
<1>2. TypeOK'
  BY <1>1 DEF IInv, TypeOK
<1>3. CachedRowFollows' /\ CachedPartsFollow'
  BY <1>1 DEF IInv, CachedRowFollows, CachedPartsFollow
<1>4. QED
  BY <1>1, <1>2, <1>3 DEF IInv

\* The row changes: nobody has the new one in hand.
LEMMA SetRowFacts ==
  ASSUME IInv, NEW r \in FileRows, SetRow(r)
  PROVE  /\ row' = r /\ stream' \in [Streams -> Calls]
         /\ \A s \in Streams : stream'[s].row = None <=> stream'[s].pc \in {"idle", "query"}
         /\ \A s \in Streams : stream'[s].pc = stream[s].pc
         /\ HandInv'
<1>1. stream \in [Streams -> Calls] /\ row' = r
  BY DEF IInv, TypeOK, SetRow
<1>2. \A s \in Streams :
        /\ stream'[s].pc = stream[s].pc /\ stream'[s].row = stream[s].row
        /\ stream'[s].stale = (stream[s].stale \/ stream[s].row # None)
  BY <1>1 DEF SetRow, Calls
<1>3. stream' \in [Streams -> Calls]
  BY <1>1 DEF SetRow, Calls
<1>4. \A s \in Streams : stream'[s].row = None <=> stream'[s].pc \in {"idle", "query"}
  BY <1>2 DEF IInv, TypeOK
<1>5. HandInv'
  BY <1>2 DEF IInv, TypeOK, HandInv
<1>6. QED
  BY <1>1, <1>2, <1>3, <1>4, <1>5

-----------------------------------------------------------------------------
(***************************************************************************)
(* FilesStream.                                                            *)
(***************************************************************************)
\* The invariant at the start: the file has its first parts, the cache is empty.
LEMMA InitInv == Init => IInv
<1> SUFFICES ASSUME Init PROVE IInv
  OBVIOUS
<1>1. row \in FileRows
  BY VersionsAssumption DEF Init, FileRows, Versions
<1>2. Waiting \in Calls /\ Waiting.row = None /\ Waiting.pc = "idle"
  BY DEF Waiting, Calls
<1>3. Resting \in Operations /\ Resting.pc = "idle" /\ Resting.keys = {}
  BY DEF Resting, Operations
<1>4. TypeOK
  BY <1>1, <1>2, <1>3 DEF Init, TypeOK
<1>5. HandInv /\ OweInv /\ CachedRowFollows /\ CachedPartsFollow
  BY <1>2, <1>3 DEF Init, HandInv, OweInv, CachedRowFollows, CachedPartsFollow
<1>6. QED
  BY <1>4, <1>5 DEF IInv

\* Fetch of the row, without its Set (cache.go, file.go).
LEMMA FetchStep ==
  ASSUME IInv, NEW s \in Streams, RowHit(s) \/ RowMiss(s) \/ ReadRow(s)
  PROVE  IInv'
<1>1. row \in FileRows /\ stream[s] \in Calls /\ row # None
  BY NoneAssumption DEF IInv, TypeOK
<1>2. CASE RowHit(s)
  <2> DEFINE c == [pc |-> "opened", row |-> cfile.row, stale |-> cfile.row.parts # row.parts]
  <2>1. /\ stream[s].pc = "idle" /\ cfile # None /\ stream' = [stream EXCEPT ![s] = c]
        /\ UNCHANGED <<row, gone, cfile, cmsgs, writer>>
    BY <1>2 DEF RowHit
  <2>2. cfile.row \in FileRows /\ cfile.row # None
    BY <2>1, NoneAssumption DEF IInv, TypeOK
  <2>3. c \in Calls
    BY <2>2 DEF Calls
  <2>4. QED
    BY <2>1, <2>2, <2>3, CallStep
<1>3. CASE RowMiss(s)
  <2> DEFINE c == [stream[s] EXCEPT !.pc = "query"]
  <2>1. /\ stream[s].pc = "idle" /\ stream' = [stream EXCEPT ![s] = c]
        /\ UNCHANGED <<row, gone, cfile, cmsgs, writer>>
    BY <1>3 DEF RowMiss
  <2>2. c \in Calls /\ c.pc = "query" /\ c.row = stream[s].row /\ c.row = None
    BY <1>1, <2>1 DEF IInv, TypeOK, Calls
  <2> HIDE DEF c
  <2>3. QED
    BY <2>1, <2>2, CallStep
<1>4. CASE ReadRow(s)
  <2>1. PICK c \in Calls :
          /\ stream' = [stream EXCEPT ![s] = c]
          /\ \/ c.pc = "idle" /\ c.row = None
             \/ c.pc = "store" /\ c.row = row
    <3>1. Waiting \in Calls /\ Waiting.row = None /\ Waiting.pc = "idle"
      BY DEF Waiting, Calls
    <3>2. [pc |-> "store", row |-> row, stale |-> FALSE] \in Calls
      BY <1>1 DEF Calls
    <3>3. QED
      BY <1>4, <3>1, <3>2 DEF ReadRow
  <2>2. stream[s].pc = "query" /\ UNCHANGED <<row, gone, cfile, cmsgs, writer>>
    BY <1>4 DEF ReadRow
  <2>3. QED
    BY <1>1, <2>1, <2>2, CallStep
<1>5. QED
  BY <1>2, <1>3, <1>4

\* getParts without its Set, and the ends of a call.
LEMMA PartsStep ==
  ASSUME IInv, NEW s \in Streams,
         PartsHit(s) \/ CachedPartsMissing(s) \/ AskTelegram(s) \/ StreamFails(s)
  PROVE  IInv'
<1>1. Waiting \in Calls /\ Waiting.row = None /\ Waiting.pc = "idle"
  BY DEF Waiting, Calls
<1>2. CASE PartsHit(s) \/ StreamFails(s)
  <2>1. /\ stream[s].pc # "drop" /\ stream' = [stream EXCEPT ![s] = Waiting]
        /\ UNCHANGED <<row, gone, cfile, cmsgs, writer>>
    BY <1>2 DEF PartsHit, StreamFails
  <2>2. QED
    BY <1>1, <2>1, CallStep
<1>3. CASE CachedPartsMissing(s) \/ AskTelegram(s)
  <2>1. PICK pc \in {"orphan", "keep"} :
          /\ stream[s].pc = "opened" /\ stream' = [stream EXCEPT ![s].pc = pc]
          /\ UNCHANGED <<row, gone, cfile, cmsgs, writer>>
    BY <1>3 DEF CachedPartsMissing, AskTelegram
  <2> DEFINE c == [stream[s] EXCEPT !.pc = pc]
  <2>2. stream[s] \in Calls /\ stream[s].row # None
    BY <2>1 DEF IInv, TypeOK
  <2>3. c \in Calls /\ c.pc = pc /\ c.row = stream[s].row /\ c.stale = stream[s].stale
    BY <2>2 DEF Calls
  <2>4. ~c.stale => c.row.parts = row.parts
    BY <2>1, <2>3 DEF IInv, HandInv
  <2>5. stream' = [stream EXCEPT ![s] = c]
    BY <2>1
  <2> HIDE DEF c
  <2>6. QED
    BY <2>1, <2>2, <2>3, <2>4, <2>5, CallStep
<1>4. QED
  BY <1>2, <1>3

\* The two Sets of Fetch: what is stored is the row, or raced.
LEMMA StoreStep ==
  ASSUME IInv, NEW s \in Streams, StoreRow(s) \/ StoreParts(s)
  PROVE  IInv'
<1>1. stream[s] \in Calls
  BY DEF IInv, TypeOK
<1>2. CASE StoreRow(s)
  <2> DEFINE c == [stream[s] EXCEPT !.pc = "opened"]
  <2>1. /\ stream[s].pc = "store" /\ stream' = [stream EXCEPT ![s] = c]
        /\ cfile' = [row |-> stream[s].row, raced |-> stream[s].stale, missed |-> FALSE]
        /\ UNCHANGED <<row, gone, cmsgs, writer>>
    BY <1>2 DEF StoreRow
  <2>2. stream[s].row \in FileRows /\ stream[s].row # None
    BY <1>1, <2>1 DEF IInv, TypeOK, Calls
  <2>3. c \in Calls /\ c.pc = "opened" /\ c.row = stream[s].row /\ c.stale = stream[s].stale
    BY <1>1 DEF Calls
  <2>4. ~stream[s].stale => stream[s].row = row
    BY <2>1 DEF IInv, HandInv
  <2> HIDE DEF c
  <2>5. /\ stream' \in [Streams -> Calls]
        /\ \A q \in Streams : stream'[q].row = None <=> stream'[q].pc \in {"idle", "query"}
        /\ HandInv' /\ OweInv'
        /\ \A key \in {"file", "messages"} : Due(key) => Due(key)'
    BY <2>1, <2>2, <2>3, <2>4, CallFacts
  <2>6. cfile' \in [row : FileRows, raced : BOOLEAN, missed : BOOLEAN]
    BY <1>1, <2>1, <2>2 DEF Calls
  <2>7. TypeOK'
    BY <2>1, <2>5, <2>6 DEF IInv, TypeOK
  <2>8. CachedRowFollows'
    BY <2>1, <2>4 DEF CachedRowFollows
  <2>9. CachedPartsFollow'
    BY <2>1, <2>5 DEF IInv, CachedPartsFollow
  <2>10. QED
    BY <2>5, <2>7, <2>8, <2>9 DEF IInv
<1>3. CASE StoreParts(s)
  <2>1. /\ stream[s].pc = "keep" /\ stream' = [stream EXCEPT ![s] = Waiting]
        /\ cmsgs' = [parts |-> stream[s].row.parts, raced |-> stream[s].stale]
        /\ UNCHANGED <<row, gone, cfile, writer>>
    BY <1>3 DEF StoreParts
  <2>2. Waiting \in Calls /\ Waiting.row = None /\ Waiting.pc = "idle"
    BY DEF Waiting, Calls
  <2>3. /\ stream' \in [Streams -> Calls]
        /\ \A q \in Streams : stream'[q].row = None <=> stream'[q].pc \in {"idle", "query"}
        /\ HandInv' /\ OweInv'
        /\ \A key \in {"file", "messages"} : Due(key) => Due(key)'
    BY <2>1, <2>2, CallFacts
  <2>4. stream[s].row \in FileRows
    BY <1>1, <2>1 DEF IInv, TypeOK, Calls
  <2>5. cmsgs' \in [parts : Versions, raced : BOOLEAN]
    BY <1>1, <2>1, <2>4 DEF Calls, FileRows
  <2>6. TypeOK'
    BY <2>1, <2>3, <2>5 DEF IInv, TypeOK
  <2>7. CachedPartsFollow'
    BY <2>1 DEF IInv, HandInv, CachedPartsFollow
  <2>8. CachedRowFollows'
    BY <2>1, <2>3 DEF IInv, CachedRowFollows
  <2>9. QED
    BY <2>3, <2>6, <2>7, <2>8 DEF IInv
<1>4. QED
  BY <1>2, <1>3

\* deleteOrphanFile (file.go): the row is marked, then both entries are deleted.
LEMMA OrphanStep ==
  ASSUME IInv, NEW s \in Streams, MarkOrphan(s) \/ DropOrphan(s)
  PROVE  IInv'
<1>1. row \in FileRows /\ stream \in [Streams -> Calls]
  BY DEF IInv, TypeOK
<1>2. CASE MarkOrphan(s)
  <2>1. /\ stream[s].pc = "orphan" /\ row' = Deleted(row)
        /\ UNCHANGED <<gone, cfile, cmsgs, writer>>
    BY <1>2 DEF MarkOrphan
  <2>2. row' \in FileRows /\ row'.parts = row.parts
    BY <1>1, <2>1 DEF Deleted, FileRows
  <2>3. /\ stream'[s].pc = "drop" /\ stream'[s].row = stream[s].row
        /\ \A q \in Streams : q # s =>
             /\ stream'[q].pc = stream[q].pc /\ stream'[q].row = stream[q].row
             /\ stream'[q].stale = (stream[q].stale \/ stream[q].row # None)
    BY <1>1, <1>2 DEF MarkOrphan, Calls
  <2>4. stream' \in [Streams -> Calls]
    BY <1>1, <1>2 DEF MarkOrphan, Calls
  <2>5. \A q \in Streams : stream'[q].row = None <=> stream'[q].pc \in {"idle", "query"}
    BY <2>1, <2>3 DEF IInv, TypeOK
  <2>6. TypeOK'
    BY <2>1, <2>2, <2>4, <2>5 DEF IInv, TypeOK
  <2>7. HandInv'
    BY <2>3, <2>5 DEF HandInv
  <2>8. OweInv'
    BY <2>1, <2>2 DEF IInv, OweInv
  <2>9. Due("file")' /\ Due("messages")'
    BY <2>3 DEF Due
  <2>10. QED
    BY <2>6, <2>7, <2>8, <2>9 DEF IInv, CachedRowFollows, CachedPartsFollow
<1>3. CASE DropOrphan(s)
  <2>1. /\ cfile' = None /\ cmsgs' = None /\ stream' = [stream EXCEPT ![s] = Waiting]
        /\ UNCHANGED <<row, gone, writer>>
    BY <1>3 DEF DropOrphan
  <2>2. Waiting \in Calls /\ Waiting.row = None /\ Waiting.pc = "idle"
    BY DEF Waiting, Calls
  <2>3. TypeOK'
    BY <1>1, <2>1, <2>2 DEF IInv, TypeOK
  <2>4. HandInv' /\ OweInv'
    BY <1>1, <2>1, <2>2 DEF IInv, HandInv, OweInv
  <2>5. QED
    BY <2>1, <2>3, <2>4 DEF IInv, CachedRowFollows, CachedPartsFollow
<1>4. QED
  BY <1>2, <1>3

-----------------------------------------------------------------------------
(***************************************************************************)
(* Operations on the row, cleanFiles and the cache itself.                 *)
(***************************************************************************)
\* A change that leaves its invalidation for later: the row entry is owed, and the
\* list when the parts change, or else it counts as raced.
LEMMA WriteStep ==
  ASSUME IInv, NEW w \in Writers, NEW r \in FileRows, SetRow(r), r.parts >= row.parts,
         writer[w].pc = "idle",
         NEW pc \in {"committed", "written"}, NEW keys \in SUBSET {"file", "messages"},
         NEW due \in Versions \cup {None}, Begin(w, pc, keys, due), "file" \in keys,
         pc = "committed" => due \in 1..r.parts,
         \/ cmsgs' = cmsgs /\ (r.parts = row.parts \/ "messages" \in keys)
         \/ cmsgs = None /\ cmsgs' = None
         \/ cmsgs # None /\ cmsgs' = [cmsgs EXCEPT !.raced = TRUE],
         UNCHANGED <<gone, cfile>>
  PROVE  IInv'
<1>1. /\ row' = r /\ stream' \in [Streams -> Calls]
      /\ \A s \in Streams : stream'[s].row = None <=> stream'[s].pc \in {"idle", "query"}
      /\ \A s \in Streams : stream'[s].pc = stream[s].pc
      /\ HandInv'
  BY SetRowFacts
<1>2. row.parts \in Nat /\ r.parts \in Nat
  BY VersionsAssumption DEF IInv, TypeOK, FileRows, Versions
<1>3. /\ writer' \in [Writers -> Operations]
      /\ writer'[w].pc = pc /\ writer'[w].keys = keys /\ writer'[w].old = due
      /\ \A v \in Writers : v # w => writer'[v] = writer[v]
  BY DEF IInv, TypeOK, Operations, Begin
<1>4. /\ cmsgs' = None \/ cmsgs' \in [parts : Versions, raced : BOOLEAN]
      /\ cmsgs' = cmsgs \/ cmsgs' = None \/ cmsgs'.raced
  BY DEF IInv, TypeOK
<1>5. TypeOK'
  <2>1. \A v \in gone' : v <= row'.parts
    BY <1>1, <1>2, VersionsAssumption DEF IInv, TypeOK, Versions
  <2>2. QED
    BY <1>1, <1>3, <1>4, <2>1 DEF IInv, TypeOK
<1>6. OweInv'
  BY <1>1, <1>2, <1>3 DEF IInv, TypeOK, OweInv
<1>7. Due("file")' /\ (Due("messages") => Due("messages")')
  BY <1>1, <1>3 DEF IInv, OweInv, Due
<1>8. "messages" \in keys => Due("messages")'
  BY <1>3 DEF Due
<1>9. CachedRowFollows' /\ CachedPartsFollow'
  BY <1>1, <1>4, <1>7, <1>8 DEF IInv, CachedRowFollows, CachedPartsFollow
<1>10. QED
  BY <1>1, <1>5, <1>6, <1>9 DEF IInv

\* FilesCreate, FilesUpdate, FilesUpdateParts and FilesDelete, up to the cache.
LEMMA OperationStep ==
  ASSUME IInv, NEW w \in Writers,
         FilesCreate(w) \/ FilesUpdate(w) \/ FilesUpdateParts(w) \/ FilesDelete(w)
  PROVE  IInv'
<1>1. row \in FileRows /\ row.parts \in Nat \ {0}
  BY VersionsAssumption DEF IInv, TypeOK, FileRows, Versions
<1>2. ASSUME row.parts < MaxVersion
      PROVE  NewParts \in FileRows /\ NewParts.parts = row.parts + 1
  BY <1>1, <1>2, VersionsAssumption DEF NewParts, FileRows, Versions
<1>3. CASE FilesCreate(w)
  BY <1>1, <1>2, <1>3, WriteStep DEF FilesCreate
<1>4. CASE FilesUpdate(w)
  BY <1>1, <1>2, <1>4, WriteStep DEF FilesUpdate
<1>5. CASE FilesUpdateParts(w)
  <2>1. row.parts \in Versions /\ row.parts \in 1..(row.parts + 1)
    BY <1>1 DEF FileRows
  <2>2. QED
    BY <1>1, <1>2, <1>5, <2>1, WriteStep DEF FilesUpdateParts
<1>6. CASE FilesDelete(w)
  <2>1. Deleted(row) \in FileRows /\ Deleted(row).parts = row.parts
    BY <1>1 DEF Deleted, FileRows
  <2>2. QED
    BY <1>1, <1>6, <2>1, WriteStep DEF FilesDelete
<1>7. QED
  BY <1>3, <1>4, <1>5, <1>6

\* The file is marked and its entry is not purged: the entry keeps the parts.
LEMMA AboveStep ==
  ASSUME IInv, NEW w \in Writers, FilesDeleteAbove(w)
  PROVE  IInv'
<1> DEFINE r == Deleted(row)
<1>1. r \in FileRows /\ r.parts = row.parts
  BY DEF IInv, TypeOK, FileRows, Deleted
<1>2. SetRow(r) /\ UNCHANGED <<gone, cmsgs, writer>>
  BY DEF FilesDeleteAbove
<1>3. cfile' = IF cfile = None THEN None ELSE [cfile EXCEPT !.missed = TRUE]
  BY DEF FilesDeleteAbove
<1>4. row.status = "active"
  BY DEF FilesDeleteAbove
<1> HIDE DEF r
<1>5. /\ row' = r /\ stream' \in [Streams -> Calls]
      /\ \A s \in Streams : stream'[s].row = None <=> stream'[s].pc \in {"idle", "query"}
      /\ \A s \in Streams : stream'[s].pc = stream[s].pc
      /\ HandInv'
  BY <1>1, <1>2, SetRowFacts
<1>6. /\ cfile' = None \/ cfile' \in [row : FileRows, raced : BOOLEAN, missed : BOOLEAN]
      /\ cfile' = None \/ (cfile # None /\ cfile'.row = cfile.row
                            /\ cfile'.raced = cfile.raced /\ cfile'.missed)
  BY <1>3 DEF IInv, TypeOK
<1>7. TypeOK' /\ OweInv'
  BY <1>1, <1>2, <1>5, <1>6 DEF IInv, TypeOK, OweInv
<1>8. \A key \in {"file", "messages"} : Due(key)' = Due(key)
  BY <1>2, <1>5 DEF Due
<1>9. CachedRowFollows'
  BY <1>1, <1>4, <1>5, <1>6, <1>8 DEF IInv, CachedRowFollows
<1>10. CachedPartsFollow'
  BY <1>1, <1>2, <1>5, <1>8 DEF IInv, CachedPartsFollow
<1>11. QED
  BY <1>5, <1>7, <1>9, <1>10 DEF IInv

\* FilesMove with a new name: the parts and the status stay.
LEMMA RenameStep ==
  ASSUME IInv, NEW w \in Writers, FilesRename(w)
  PROVE  IInv'
<1>1. PICK n \in Names : SetRow([row EXCEPT !.name = n])
  BY DEF FilesRename
<1>2. UNCHANGED <<gone, cfile, cmsgs, writer>>
  BY DEF FilesRename
<1> DEFINE r == [row EXCEPT !.name = n]
<1>3. r \in FileRows /\ r.parts = row.parts /\ r.status = row.status
  BY DEF IInv, TypeOK, FileRows
<1> HIDE DEF r
<1>4. /\ row' = r /\ stream' \in [Streams -> Calls]
      /\ \A s \in Streams : stream'[s].row = None <=> stream'[s].pc \in {"idle", "query"}
      /\ \A s \in Streams : stream'[s].pc = stream[s].pc
      /\ HandInv'
  BY <1>1, <1>3, SetRowFacts DEF r
<1>5. TypeOK' /\ OweInv'
  BY <1>2, <1>3, <1>4 DEF IInv, TypeOK, OweInv
<1>6. CachedRowFollows' /\ CachedPartsFollow'
  BY <1>2, <1>3, <1>4 DEF IInv, CachedRowFollows, CachedPartsFollow, Due
<1>7. QED
  BY <1>4, <1>5, <1>6 DEF IInv

\* The end of an operation: the replaced messages, then the entries it owes.
LEMMA InvalidateStep ==
  ASSUME IInv, NEW w \in Writers, DeleteReplaced(w) \/ Invalidate(w)
  PROVE  IInv'
<1>1. CASE DeleteReplaced(w)
  <2>1. /\ writer[w].pc = "committed" /\ UNCHANGED <<row, cfile, cmsgs, stream>>
        /\ gone' \subseteq gone \cup {writer[w].old}
        /\ writer' = [writer EXCEPT ![w] =
             [pc |-> "written", keys |-> writer[w].keys, old |-> None]]
    BY <1>1 DEF DeleteReplaced, Begin
  <2>2. /\ writer' \in [Writers -> Operations]
        /\ writer'[w].pc = "written" /\ writer'[w].keys = writer[w].keys
        /\ \A v \in Writers : v # w => writer'[v] = writer[v]
    BY <2>1 DEF IInv, TypeOK, Operations
  <2>3. writer[w].old \in Versions /\ writer[w].old <= row.parts
    <3>1. writer[w].old \in 1..row.parts /\ row.parts \in Versions
      BY <2>1 DEF IInv, TypeOK, FileRows, OweInv
    <3>2. QED
      BY <3>1, VersionsAssumption DEF Versions
  <2>4. TypeOK'
    BY <2>1, <2>2, <2>3 DEF IInv, TypeOK
  <2>5. OweInv' /\ HandInv'
    BY <2>1, <2>2 DEF IInv, OweInv, HandInv
  <2>6. CachedRowFollows' /\ CachedPartsFollow'
    BY <2>1, <2>2 DEF IInv, CachedRowFollows, CachedPartsFollow, Due
  <2>7. QED
    BY <2>4, <2>5, <2>6 DEF IInv
<1>2. CASE Invalidate(w)
  <2>1. /\ writer[w].pc = "written" /\ writer' = [writer EXCEPT ![w] = Resting]
        /\ cfile' = (IF "file" \in writer[w].keys THEN None ELSE cfile)
        /\ cmsgs' = (IF "messages" \in writer[w].keys THEN None ELSE cmsgs)
        /\ UNCHANGED <<row, gone, stream>>
    BY <1>2 DEF Invalidate
  <2>2. Resting \in Operations /\ Resting.pc = "idle" /\ Resting.keys = {}
    BY DEF Resting, Operations
  <2>3. /\ writer' \in [Writers -> Operations] /\ writer'[w] = Resting
        /\ \A v \in Writers : v # w => writer'[v] = writer[v]
    BY <2>1, <2>2 DEF IInv, TypeOK
  <2>4. TypeOK'
    BY <2>1, <2>3 DEF IInv, TypeOK
  <2>5. OweInv' /\ HandInv'
    BY <2>1, <2>2, <2>3 DEF IInv, OweInv, HandInv
  <2>6. CachedRowFollows'
    BY <2>1, <2>3 DEF IInv, OweInv, CachedRowFollows
  <2>7. CachedPartsFollow'
    BY <2>1, <2>3 DEF IInv, CachedPartsFollow, Due
  <2>8. QED
    BY <2>4, <2>5, <2>6, <2>7 DEF IInv
<1>3. QED
  BY <1>1, <1>2

\* cleanFiles removes the row and its messages; entries are evicted; messages vanish.
LEMMA EnvironmentStep ==
  ASSUME IInv, CleanFiles \/ EvictFile \/ EvictParts \/ Vanish
  PROVE  IInv'
<1>1. row \in FileRows /\ row.parts \in Versions /\ row.parts \in Nat
  BY VersionsAssumption DEF IInv, TypeOK, FileRows, Versions
<1>2. CASE CleanFiles
  <2> DEFINE r == [row EXCEPT !.status = "removed"]
  <2>1. SetRow(r) /\ gone' = gone \cup {row.parts} /\ UNCHANGED <<cfile, cmsgs, writer>>
    BY <1>2 DEF CleanFiles
  <2>2. r \in FileRows /\ r.parts = row.parts /\ r.status = "removed"
    BY <1>1 DEF FileRows
  <2> HIDE DEF r
  <2>3. /\ row' = r /\ stream' \in [Streams -> Calls]
        /\ \A s \in Streams : stream'[s].row = None <=> stream'[s].pc \in {"idle", "query"}
        /\ \A s \in Streams : stream'[s].pc = stream[s].pc
        /\ HandInv'
    BY <2>1, <2>2, SetRowFacts
  <2>4. TypeOK' /\ OweInv'
    BY <1>1, <2>1, <2>2, <2>3 DEF IInv, TypeOK, OweInv
  <2>5. CachedRowFollows' /\ CachedPartsFollow'
    BY <2>1, <2>2, <2>3 DEF IInv, CachedRowFollows, CachedPartsFollow, Due
  <2>6. QED
    BY <2>3, <2>4, <2>5 DEF IInv
<1>3. CASE EvictFile \/ EvictParts
  <2>1. /\ cfile' = cfile \/ cfile' = None
        /\ cmsgs' = cmsgs \/ cmsgs' = None
        /\ UNCHANGED <<row, gone, stream, writer>>
    BY <1>3 DEF EvictFile, EvictParts
  <2>2. TypeOK' /\ HandInv' /\ OweInv'
    BY <2>1 DEF IInv, TypeOK, HandInv, OweInv
  <2>3. CachedRowFollows' /\ CachedPartsFollow'
    BY <2>1 DEF IInv, CachedRowFollows, CachedPartsFollow, Due
  <2>4. QED
    BY <2>2, <2>3 DEF IInv
<1>4. CASE Vanish
  <2>1. gone' = gone \cup {row.parts} /\ UNCHANGED <<row, cfile, cmsgs, stream, writer>>
    BY <1>4 DEF Vanish
  <2>2. TypeOK' /\ HandInv' /\ OweInv'
    BY <1>1, <2>1 DEF IInv, TypeOK, HandInv, OweInv
  <2>3. CachedRowFollows' /\ CachedPartsFollow'
    BY <2>1 DEF IInv, CachedRowFollows, CachedPartsFollow, Due
  <2>4. QED
    BY <2>2, <2>3 DEF IInv
<1>5. QED
  BY <1>2, <1>3, <1>4

-----------------------------------------------------------------------------
(***************************************************************************)
(* The theorems.                                                           *)
(***************************************************************************)
\* The invariant of the two entries, the streams that fill them and the operations
\* that delete them.
THEOREM EntriesInvariance == Spec => []IInv
<1>1. Init => IInv
  BY InitInv
<1>2. IInv /\ [Next]_vars => IInv'
  <2> SUFFICES ASSUME IInv, [Next]_vars PROVE IInv'
    OBVIOUS
  <2>1. ASSUME NEW s \in Streams, FilesStream(s) PROVE IInv'
    BY <2>1, FetchStep, PartsStep, StoreStep, OrphanStep DEF FilesStream
  <2>2. ASSUME NEW w \in Writers, Write(w) PROVE IInv'
    BY <2>2, OperationStep, AboveStep, RenameStep, InvalidateStep DEF Write
  <2>3. CASE UNCHANGED vars
    BY <2>3 DEF vars, IInv, TypeOK, HandInv, OweInv, CachedRowFollows, CachedPartsFollow, Due
  <2>4. QED
    BY <2>1, <2>2, <2>3, EnvironmentStep DEF Next
<1>3. QED
  BY <1>1, <1>2, PTL DEF Spec

\* The variables keep their types; messages that are gone are of versions the row had.
THEOREM EntryTypes == Spec => []TypeOK
<1>1. IInv => TypeOK
  BY DEF IInv
<1>2. QED
  BY <1>1, EntriesInvariance, PTL

\* The entry files:<id> follows the parts and the status of the row (file.go, common.go)
\* but for two things: a stream that read the row before a change and stored it after the
\* invalidation leaves an old one, and a mark through a folder above the file or a
\* FilesMove onto its name leaves an entry with the old status.
THEOREM RowEntryFollows == Spec => []CachedRowFollows
<1>1. IInv => CachedRowFollows
  BY DEF IInv
<1>2. QED
  BY <1>1, EntriesInvariance, PTL

\* The entry files:messages:<id> follows the parts of the row in the same way, except
\* after FilesUpdate, which leaves it.
THEOREM PartsEntryFollows == Spec => []CachedPartsFollow
<1>1. IInv => CachedPartsFollow
  BY DEF IInv
<1>2. QED
  BY <1>1, EntriesInvariance, PTL
=============================================================================
