---------------------------- MODULE LinearReader ----------------------------
(***************************************************************************)
(* The body of one stream: the range FilesStream takes from the header,    *)
(* cut by LinearReader into ranges of parts (internal/reader/reader.go),   *)
(* each read chunk by chunk by a tgReader (internal/reader/tg_reader.go,   *)
(* concurrency below 2).  A byte is the pair of its part and its offset.   *)
(***************************************************************************)
EXTENDS HttpRange, FiniteSets

CONSTANTS
  Files,       \* records of size, *file.Size, and parts, the sizes on Telegram
  Headers,     \* Range headers; the empty one means there is none
  MinChunk, MaxChunk, \* the smallest chunk and the largest, 1 KiB and 1 MiB in the code
  ReadSizes    \* lengths of the consumer's buffers

\* All parts have the size of the first, but a shorter last one; a record that declares
\* more than the parts hold misses whole parts.
Covered(f) ==
  IF f.parts = <<>> THEN 0 ELSE (Len(f.parts) - 1) * f.parts[1] + f.parts[Len(f.parts)]

BodyGiven ==
  /\ MinChunk \in Nat \ {0} /\ MaxChunk \in Nat \ {0} /\ ReadSizes \subseteq Nat \ {0}
  /\ Headers \subseteq Seq(Specs)
  /\ Files \subseteq [size : Nat, parts : Seq(Nat \ {0})]
  /\ \A f \in Files :
       /\ f.size > 0 => f.parts # <<>>
       /\ \A i \in 1..Len(f.parts) : IF i < Len(f.parts) THEN f.parts[i] = f.parts[1]
                                                         ELSE f.parts[i] <= f.parts[1]
       /\ f.size <= Covered(f) \/ f.parts[Len(f.parts)] = f.parts[1]

VARIABLES
  file, header, \* the request
  status,       \* 200, 206 or 416 once the header is written
  range,        \* start and end of the body
  pos,          \* index in ranges
  remaining,    \* bytes LinearReader still owes
  tr,           \* the tgReader: part, offset, limit, chunk (chunkSize), left, right (cuts),
                \* total and cur (totalParts, currentPart), buf
  out, err      \* what the consumer read, and the error of its last Read

vars == <<file, header, status, range, pos, remaining, tr, out, err>>

NoReader == [part |-> 0, offset |-> 0, limit |-> 0, chunk |-> 1, left |-> 0, right |-> 0,
             total |-> 0, cur |-> 1, buf |-> <<>>]

Init ==
  /\ file \in Files /\ header \in Headers
  /\ status = 0 /\ range = [start |-> 0, end |-> 0] /\ pos = 0 /\ remaining = 0
  /\ tr = NoReader /\ out = <<>> /\ err = "nil"

\* CalculateChunkSize halves the chunk while it exceeds end - start.
ChunkSize(start, end) ==
  LET halved[c \in 1..MaxChunk] ==
        IF c <= MinChunk \/ c <= end - start THEN c ELSE halved[c \div 2]
  IN  halved[MaxChunk]

PartSize == file.parts[1]

\* Mutant: the range of the last part is not clipped to the end of the request.
PartRangesWide(start, end) ==
  [i \in 1..((end \div PartSize) - (start \div PartSize) + 1) |->
     LET no == (start \div PartSize) + i - 1
     IN  [no |-> no, start |-> IF start > no * PartSize THEN start - no * PartSize ELSE 0,
          end |-> PartSize - 1]]

\* calculatePartByteRanges, from the size of the first part.
PartRanges(start, end) ==
  [i \in 1..((end \div PartSize) - (start \div PartSize) + 1) |->
     LET no == (start \div PartSize) + i - 1
     IN  [no |-> no, start |-> IF start > no * PartSize THEN start - no * PartSize ELSE 0,
          end |-> Least(PartSize - 1, end - no * PartSize)]]

\* Mutant: no guard in getPartReader.
PartMissingNever(no) == no < 0

\* The guard of getPartReader: the record covers more than its parts.
PartMissing(no) == no >= Len(file.parts)

\* newTGReader on part no.
NewReader(no, start, end) ==
  LET c == ChunkSize(start, end)  offset == start - (start % c)
  IN  [part |-> no, offset |-> offset, limit |-> end - start + 1, chunk |-> c,
       left |-> start - offset, right |-> (end % c) + 1, total |-> (end - offset + c) \div c,
       cur |-> 1, buf |-> <<>>]

\* The reader of ranges[p], or the error of getPartReader.
StartPart(p) ==
  LET r == PartRanges(range'.start, range'.end)[p + 1]
  IN  IF PartMissing(r.no) THEN tr' = NoReader /\ err' = "mismatch"
      ELSE tr' = NewReader(r.no, r.start, r.end) /\ err' = "nil"

\* FilesStream up to the reader.  An empty file has no body.
Respond ==
  /\ status = 0
  /\ LET kept == Parse(header, file.size)
         body(code, r) == /\ status' = code /\ range' = r
                          /\ remaining' = r.end - r.start + 1 /\ StartPart(0)
         noBody(code)  == status' = code /\ err' = "EOF" /\ UNCHANGED <<range, remaining, tr>>
     IN  IF file.size = 0 THEN noBody(200)
         ELSE IF header = <<>> THEN body(200, [start |-> 0, end |-> file.size - 1])
         ELSE IF Len(kept) # 1 THEN noBody(416)
         ELSE body(206, kept[1])
  /\ UNCHANGED <<file, header, pos, out>>

\* What Telegram has of a part from offset on, up to a chunk.
Chunk(r) ==
  LET n == Least(r.chunk, file.parts[r.part + 1] - r.offset)
  IN  [i \in 1..n |-> <<r.part, r.offset + i - 1>>]

Cut(r, chunk) ==
  IF r.total = 1 THEN SubSeq(chunk, r.left + 1, r.right)
  ELSE IF r.cur = 1 THEN SubSeq(chunk, r.left + 1, Len(chunk))
  ELSE IF r.cur = r.total THEN SubSeq(chunk, 1, r.right) ELSE chunk

\* next(): the chunk is fetched and cut.
Filled(r) ==
  IF r.buf # <<>> THEN r
  ELSE [r EXCEPT !.buf = Cut(r, Chunk(r)), !.cur = @ + 1, !.offset = @ + r.chunk]

\* LinearReader.Read of k bytes: the part's reader reports EOF with its last byte,
\* and the next part follows.
Read(k) ==
  /\ status \in {200, 206} /\ err = "nil" /\ remaining > 0
  /\ UNCHANGED <<file, header, status, range>>
  /\ LET r == Filled(tr)  n == Least(k, Len(r.buf))
     IN  /\ out' = out \o SubSeq(r.buf, 1, n)
         /\ remaining' = remaining - n
         /\ IF r.limit > n THEN /\ tr' = [r EXCEPT !.buf = SubSeq(@, n + 1, Len(@)), !.limit = @ - n]
                                /\ UNCHANGED <<pos, err>>
            ELSE IF remaining' = 0 THEN tr' = NoReader /\ err' = "EOF" /\ UNCHANGED pos
            ELSE pos' = pos + 1 /\ StartPart(pos + 1)

\* Chunk fails; FilesStream ends the stream.
ReadFails ==
  /\ status \in {200, 206} /\ err = "nil" /\ tr.buf = <<>>
  /\ err' = "failed"
  /\ UNCHANGED <<file, header, status, range, pos, remaining, tr, out>>

Next == Respond \/ (\E k \in ReadSizes : Read(k)) \/ ReadFails

Spec == Init /\ [][Next]_vars

-----------------------------------------------------------------------------
TypeOK ==
  /\ status \in {0, 200, 206, 416} /\ err \in {"nil", "EOF", "mismatch", "failed"}
  /\ range.start \in Nat /\ range.end \in Nat /\ remaining \in Nat
  /\ pos \in 0..Len(file.parts) /\ tr.limit \in Nat /\ Len(tr.buf) <= MaxChunk

\* The byte at position p of a file whose parts have the size of the first.
ByteAt(p) == <<p \div PartSize, p % PartSize>>

\* The consumer gets the bytes of its range in order, over the borders of chunks
\* and parts; all of them when the stream ends with EOF, and it never ends with
\* "file parts mismatch" when the parts cover the range.
BodyIsTheRange ==
  /\ \A i \in 1..Len(out) : out[i] = ByteAt(range.start + i - 1)
  /\ err = "EOF" /\ status # 416 /\ file.size > 0 => Len(out) = range.end - range.start + 1
  /\ err = "mismatch" => range.end >= Covered(file)

\* A record that declares more than its parts hold ends in an error after all they
\* hold was delivered, not in an index out of range (reader.go:139).
TruncatedEndsInError ==
  /\ tr # NoReader => tr.part < Len(file.parts)
  /\ err = "mismatch" =>
       Len(out) = IF range.start < Covered(file) THEN Covered(file) - range.start ELSE 0

\* One range is served as it was asked, 416 means that none can be, or several are;
\* a suffix longer than the file is not served, which the standard would.
AskedIsServed ==
  status # 0 /\ file.size > 0 =>
    LET wanted == {i \in DOMAIN header : Asked(header[i], file.size) # {}}
        long   == {i \in wanted : header[i].first = Absent /\ header[i].last > file.size}
    IN  /\ status = 206 => \E i \in wanted : range.start..range.end = Asked(header[i], file.size)
        /\ status = 416 => Cardinality(wanted \ long) # 1
=============================================================================
