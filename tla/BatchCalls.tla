----------------------------- MODULE BatchCalls -----------------------------
(***************************************************************************)
(* Requests about many messages, cut into batches that run side by side    *)
(* (GetMessages and DeleteMessages of internal/tgc/helpers.go), and        *)
(* FilesCopy (pkg/services/file.go), which fetches the messages of a file  *)
(* and sends them again one by one.  Which of the two runs is chosen in    *)
(* the initial state.                                                      *)
(***************************************************************************)
EXTENDS Integers, Sequences, FiniteSets, SequencesExt

CONSTANTS
  MaxIds,      \* bound on the messages asked for
  BatchSize,   \* 100
  Limit        \* batches at once: the number of CPUs

\* A batch holds something, and one at least runs.
BatchesGiven == MaxIds \in Nat /\ {BatchSize, Limit} \subseteq Nat \ {0}

VARIABLES
  kind, n,     \* copy or delete, and the number of messages, 1..n
  there,       \* messages that are in the channel
  batch,       \* each batch: waiting, called, answered (its error yet to be returned), done
  answer,      \* what Telegram answered it: none, ok or failed
  err,         \* the variable of DeleteMessages its batches share
  first,       \* the first error returned to the errgroup, none before
  step,        \* fetching, sending, creating, row, failed; deleting, deleted, failed
  page,        \* messageMap: the messages of each batch, 0 for an empty one
  got,         \* GetMessages: all of them
  sent         \* FilesCopy: the messages sent again, in order

vars == <<kind, n, there, batch, answer, err, first, step, page, got, sent>>

Batches == 1..((n + BatchSize - 1) \div BatchSize)

\* batchIds of batch b
IdsOf(b) ==
  LET last == IF b * BatchSize < n THEN b * BatchSize ELSE n
  IN  [i \in 1..(last - (b - 1) * BatchSize) |-> (b - 1) * BatchSize + i]

Init ==
  /\ kind \in {"copy", "delete"} /\ n \in 0..MaxIds /\ there \in SUBSET (1..n)
  /\ batch = [b \in Batches |-> "waiting"] /\ answer = [b \in Batches |-> "none"]
  /\ page = [b \in Batches |-> <<>>] /\ err = "ok" /\ first = "ok" /\ got = <<>> /\ sent = <<>>
  /\ step = IF kind = "copy" THEN "fetching" ELSE "deleting"

Fanning == step \in {"fetching", "deleting"}

\* g.Go waits while Limit batches run; batches start in order.
Start(b) ==
  /\ Fanning /\ batch[b] = "waiting" /\ \A a \in 1..(b - 1) : batch[a] # "waiting"
  /\ Cardinality({a \in Batches : batch[a] \in {"called", "answered"}}) < Limit
  /\ batch' = [batch EXCEPT ![b] = "called"]
  /\ UNCHANGED <<kind, n, there, answer, err, first, step, page, got, sent>>

\* Telegram answers.  A batch of DeleteMessages assigns the shared err.
Answer(b) ==
  /\ Fanning /\ batch[b] = "called" /\ batch' = [batch EXCEPT ![b] = "answered"]
  /\ \E a \in {"ok", "failed"} :
       /\ answer' = [answer EXCEPT ![b] = a]
       /\ err'    = IF kind = "delete" THEN a ELSE err
       /\ there'  = IF kind = "delete" /\ a = "ok" THEN there \ ToSet(IdsOf(b)) ELSE there
       /\ page'   = IF kind = "copy" /\ a = "ok"
                    THEN [page EXCEPT ![b] = [i \in DOMAIN IdsOf(b) |-> IF IdsOf(b)[i] \in there THEN IdsOf(b)[i] ELSE 0]]
                    ELSE page
  /\ UNCHANGED <<kind, n, first, step, got, sent>>

\* Mutant: the errors are not looked at.
KeepNone(e) == first

\* errgroup keeps the first error.
KeepFirst(e) == IF first = "ok" THEN e ELSE first

\* The batch returns its error: DeleteMessages reads err again, which another batch
\* may have assigned meanwhile.
Return(b) ==
  /\ Fanning /\ batch[b] = "answered" /\ batch' = [batch EXCEPT ![b] = "done"]
  /\ first' = KeepFirst(IF kind = "delete" THEN err ELSE answer[b])
  /\ UNCHANGED <<kind, n, there, answer, err, step, page, got, sent>>

\* Mutant: the map is walked in an order of its own.
JoinedBackwards == FlattenSeq([b \in Batches |-> page[Cardinality(Batches) + 1 - b]])

\* allMessages: the batches in the order of the ids.
Joined == FlattenSeq(page)

\* g.Wait
Wait ==
  /\ Fanning /\ \A b \in Batches : batch[b] = "done"
  /\ IF first = "failed" THEN step' = "failed" /\ UNCHANGED got
     ELSE IF kind = "delete" THEN step' = "deleted" /\ UNCHANGED got
     ELSE /\ step' = "sending"
          /\ got' = Joined
  /\ UNCHANGED <<kind, n, there, batch, answer, err, first, page, sent>>

\* One message is sent again; an empty one is no tg.Message (a panic, recovered by
\* the server), and an error ends the request: what was sent stays.
Send ==
  /\ step = "sending" /\ Len(sent) < Len(got)
  /\ LET m == got[Len(sent) + 1] IN
       \/ m # 0 /\ sent' = Append(sent, m) /\ UNCHANGED step
       \/ step' = "failed" /\ UNCHANGED sent
  /\ UNCHANGED <<kind, n, there, batch, answer, err, first, page, got>>

\* Every part has its copy: the folder, then the row.
Create ==
  /\ step = "sending" /\ Len(sent) = Len(got)
  /\ step' \in (IF Len(sent) = n THEN {"row", "failed"} ELSE {"failed"})
  /\ UNCHANGED <<kind, n, there, batch, answer, err, first, page, got, sent>>

\* Meanwhile somebody deletes a message.
Lose(m) ==
  /\ kind = "copy" /\ step = "fetching" /\ m \in there /\ there' = there \ {m}
  /\ UNCHANGED <<kind, n, batch, answer, err, first, step, page, got, sent>>

Next ==
  \/ \E b \in Batches : Start(b) \/ Answer(b) \/ Return(b)
  \/ \E m \in 1..n : Lose(m)
  \/ Wait \/ Send \/ Create

Spec == Init /\ [][Next]_vars

-----------------------------------------------------------------------------
TypeOK ==
  /\ there \subseteq 1..n /\ DOMAIN batch = Batches /\ DOMAIN answer = Batches
  /\ got \in Seq(0..n) /\ sent \in Seq(1..n)
  /\ {err, first} \subseteq {"ok", "failed"}

\* A copy has the parts of its source, each once and in order, whatever the order in
\* which the batches were answered: part i takes the salt of part i.
CopyInOrder == step = "row" => sent = [i \in 1..n |-> i]

\* When the messages fit in one batch, success means that they are gone.  (With more,
\* a failed batch whose err another one overwrites goes unnoticed.)
SuccessIsWhole == step = "deleted" /\ Cardinality(Batches) <= 1 => there = {}
=============================================================================
