----------------------------- MODULE MultiReader -----------------------------
(***************************************************************************)
(* The parallel reader of one stored part, internal/reader/                *)
(* tg_multi_reader.go: a consumer calling Read and Close, the fillBuffer   *)
(* goroutine that keeps an ordered window of chunk fetches, one goroutine  *)
(* per fetch with its timeout, and the source call each of them waits for, *)
(* which may return long after its fetch was given up.                     *)
(*                                                                         *)
(* A chunk is the interval of part positions that survives the cuts of its *)
(* fetch; the bytes themselves are their positions.  A channel operation   *)
(* and the local code up to the next one are a single step.                *)
(***************************************************************************)
EXTENDS Integers, Sequences, FiniteSets

CONSTANTS
  Start, End,    \* requested positions, inclusive
  ChunkSize,     \* ChunkSource.ChunkSize(start, end)
  Threads,       \* stream.multi-threads
  Buffers,       \* stream.buffers, the capacity of bufferChan
  ReadSizes      \* lengths of the slices the consumer passes to Read

\* The checks newTGMultiReader makes, and a consumer that asks for some bytes.
ASSUME RangeAssumption ==
  /\ Start \in Nat /\ End \in Nat /\ Start <= End
  /\ ChunkSize \in Nat \ {0}
  /\ Threads \in Nat \ {0}
  /\ Buffers \in Nat
  /\ ReadSizes \subseteq Nat \ {0}

Offset     == Start - (Start % ChunkSize)
LeftCut    == Start - Offset
\* Mutant: the last position of the range is left out.
RightCutExclusive == End % ChunkSize

RightCut   == (End % ChunkSize) + 1
TotalParts == (End - Offset + ChunkSize) \div ChunkSize
Window     == IF Threads < TotalParts THEN Threads ELSE TotalParts
Parts      == 0..(TotalParts - 1)

\* Mutant: the left cut is applied to every chunk.
LeftEveryChunk(p) == LeftCut

Left(p)  == IF p = 0 THEN LeftCut ELSE 0
Right(p) == IF p = TotalParts - 1 THEN RightCut ELSE ChunkSize

\* The positions chunk p holds once its fetch has cut it.
Slice(p) == [lo |-> Offset + p * ChunkSize + Left(p),
             hi |-> Offset + p * ChunkSize + Right(p) - 1]

VARIABLES
  fpc,       \* where fillBuffer is: start, wait, push, exit (deferred close), closed
  part,      \* its loop variable: the chunks before it have been pushed
  slots,     \* slots[i]: the chunk whose result channel sits in slot i
  fetch,     \* fetch[p]: the goroutine of chunk p and its result channel
  calling,   \* the chunks whose source call has not returned
  queue,     \* bufferChan
  cause,     \* the cause of the reader's context, kind "none" while it is live
  rpc,       \* the consumer: idle, or recv when Read waits in its select
  cur,       \* what is left of the current buffer, empty when lo > hi
  limit,     \* bytes still to deliver
  ret        \* what the last Read returned

vars == <<fpc, part, slots, fetch, calling, queue, cause, rpc, cur, limit, ret>>
fillerVars == <<fpc, part, slots>>
fetchVars  == <<fetch, calling>>
readerVars == <<rpc, cur, limit, ret>>

FetchErrors == {"timeout", "short", "source", "canceled"}
Results     == {"ok"} \cup FetchErrors
Failures    == FetchErrors \cup {"closed", "parent"}
NoCause     == [kind |-> "none", part |-> -1]
Live        == cause.kind = "none"

Init ==
  /\ fpc = "start" /\ part = 0
  /\ slots = [i \in 0..(Window - 1) |-> i]
  /\ fetch = [p \in Parts |-> "idle"]
  /\ calling = {}
  /\ queue = <<>>
  /\ cause = NoCause
  /\ rpc = "idle"
  /\ cur = [lo |-> Start, hi |-> Start - 1]
  /\ limit = End - Start + 1
  /\ ret = [lo |-> Start, n |-> 0, err |-> "nil"]

\* cancel(err) of context.WithCancelCause: only the first cause is kept.
Cancel(kind, p) == cause' = IF Live THEN [kind |-> kind, part |-> p] ELSE cause

(***************************************************************************)
(* The fetch goroutines and the source calls they wait for.                *)
(***************************************************************************)
Launch(ps) ==
  /\ fetch' = [p \in Parts |-> IF p \in ps THEN "running" ELSE fetch[p]]
  /\ calling' = calling \cup ps

\* The source returns; a fetch that still waits checks the length of what it got.
SourceReturn(p) ==
  /\ p \in calling
  /\ calling' = calling \ {p}
  /\ IF fetch[p] = "running"
     THEN \/ \E len \in {0, Right(p) - 1, Right(p), ChunkSize} :
               fetch' = [fetch EXCEPT ![p] = IF len < Right(p) THEN "short" ELSE "ok"]
          \/ fetch' = [fetch EXCEPT ![p] = "source"]
     ELSE UNCHANGED fetch
  /\ UNCHANGED <<fillerVars, queue, cause, readerVars>>

\* Mutant: no timer, a fetch waits for its source until the stream is closed.
FetchNoTimeout(p) ==
  /\ fetch[p] = "running" /\ ~Live
  /\ fetch' = [fetch EXCEPT ![p] = "timeout"]
  /\ UNCHANGED <<fillerVars, calling, queue, cause, readerVars>>

\* Mutant: a timeout cancels the stream at once, whatever chunk it belongs to.
FetchTimeoutFailFast(p) ==
  /\ fetch[p] = "running"
  /\ fetch' = [fetch EXCEPT ![p] = "timeout"]
  /\ Cancel("timeout", p)
  /\ UNCHANGED <<fillerVars, calling, queue, readerVars>>

\* context.WithTimeout fires: the fetch stops waiting for its source call.
FetchTimeout(p) ==
  /\ fetch[p] = "running"
  /\ fetch' = [fetch EXCEPT ![p] = "timeout"]
  /\ UNCHANGED <<fillerVars, calling, queue, cause, readerVars>>

\* The reader's context is done: so is the fetch's.
FetchCanceled(p) ==
  /\ fetch[p] = "running" /\ ~Live
  /\ fetch' = [fetch EXCEPT ![p] = "canceled"]
  /\ UNCHANGED <<fillerVars, calling, queue, cause, readerVars>>

(***************************************************************************)
(* fillBuffer.                                                             *)
(***************************************************************************)
\* Mutant: every chunk of the range is requested at once.
FillStartAll ==
  /\ fpc = "start" /\ fpc' = "wait"
  /\ Launch(Parts)
  /\ UNCHANGED <<part, slots, queue, cause, readerVars>>

\* Mutant: one request more than the window.
FillStartOneMore ==
  /\ fpc = "start" /\ fpc' = "wait"
  /\ Launch(0..Window)
  /\ UNCHANGED <<part, slots, queue, cause, readerVars>>

FillStart ==
  /\ fpc = "start"
  /\ fpc' = "wait"
  /\ Launch(0..(Window - 1))
  /\ UNCHANGED <<part, slots, queue, cause, readerVars>>

\* Mutant: the error of a chunk ends the loop without cancelling the context.
TakeResultNoCancel ==
  LET p == slots[part % Window] IN
  /\ fpc = "wait" /\ fetch[p] \in Results
  /\ fetch' = [fetch EXCEPT ![p] = "taken"]
  /\ fpc' = IF fetch[p] = "ok" THEN "push" ELSE "exit"
  /\ UNCHANGED <<part, slots, calling, queue, cause, readerVars>>

\* res = <-slots[slot]: a good chunk goes on to the buffer, an error cancels.
TakeResult ==
  LET p == slots[part % Window] IN
  /\ fpc = "wait"
  /\ fetch[p] \in Results
  /\ fetch' = [fetch EXCEPT ![p] = "taken"]
  /\ IF fetch[p] = "ok"
     THEN fpc' = "push" /\ UNCHANGED cause
     ELSE fpc' = "exit" /\ Cancel(fetch[p], p)
  /\ UNCHANGED <<part, slots, calling, queue, readerVars>>

\* Mutant: the chunk after the last one is launched too.
AdvanceTooFar ==
  /\ part' = part + 1
  /\ fpc' = IF part + 1 = TotalParts THEN "exit" ELSE "wait"
  /\ IF part + Window <= TotalParts
     THEN /\ slots' = [slots EXCEPT ![part % Window] = part + Window]
          /\ Launch({part + Window})
     ELSE UNCHANGED <<slots, fetchVars>>

\* The chunk has left: its slot takes the chunk one window further.
Advance ==
  /\ part' = part + 1
  /\ fpc' = IF part + 1 = TotalParts THEN "exit" ELSE "wait"
  /\ IF part + Window < TotalParts
     THEN /\ slots' = [slots EXCEPT ![part % Window] = part + Window]
          /\ Launch({part + Window})
     ELSE UNCHANGED <<slots, fetchVars>>

Push ==
  /\ fpc = "push"
  /\ Len(queue) < Buffers
  /\ queue' = Append(queue, Slice(slots[part % Window]))
  /\ Advance
  /\ UNCHANGED <<cause, readerVars>>

\* Mutant: the push of a chunk does not watch the context.
FillCanceledOnlyWaiting ==
  /\ fpc = "wait" /\ ~Live
  /\ fpc' = "exit"
  /\ UNCHANGED <<part, slots, fetchVars, queue, cause, readerVars>>

FillCanceled ==
  /\ fpc \in {"wait", "push"}
  /\ ~Live
  /\ fpc' = "exit"
  /\ UNCHANGED <<part, slots, fetchVars, queue, cause, readerVars>>

\* defer close(r.bufferChan)
CloseChannel ==
  /\ fpc = "exit"
  /\ fpc' = "closed"
  /\ UNCHANGED <<part, slots, fetchVars, queue, cause, readerVars>>

(***************************************************************************)
(* The consumer.                                                           *)
(***************************************************************************)

\* copy(p, cur) for a slice of k bytes, and the accounting that follows it.
CopyOut(b, k) ==
  LET size == b.hi - b.lo + 1
      n    == IF k < size THEN k ELSE size
  IN /\ cur' = [b EXCEPT !.lo = b.lo + n]
     /\ limit' = limit - n
     /\ ret' = [lo |-> b.lo, n |-> n, err |-> IF limit - n <= 0 THEN "EOF" ELSE "nil"]
     /\ rpc' = "idle"

ReturnError(err) ==
  /\ ret' = [lo |-> End + 1 - limit, n |-> 0, err |-> err]
  /\ rpc' = "idle"
  /\ UNCHANGED <<cur, limit>>

ReadAtEOF ==
  /\ rpc = "idle" /\ limit <= 0
  /\ ReturnError("EOF")
  /\ UNCHANGED <<fillerVars, fetchVars, queue, cause>>

ReadBuffered(k) ==
  /\ rpc = "idle" /\ limit > 0 /\ cur.lo <= cur.hi
  /\ CopyOut(cur, k)
  /\ UNCHANGED <<fillerVars, fetchVars, queue, cause>>

ReadBlock ==
  /\ rpc = "idle" /\ limit > 0 /\ cur.lo > cur.hi
  /\ rpc' = "recv"
  /\ UNCHANGED <<fillerVars, fetchVars, queue, cause, cur, limit, ret>>

ReadReceive(k) ==
  /\ rpc = "recv" /\ queue /= <<>>
  /\ queue' = Tail(queue)
  /\ CopyOut(Head(queue), k)
  /\ UNCHANGED <<fillerVars, fetchVars, cause>>

\* On an empty channel a send hands its chunk to the Read that waits: the only
\* way a channel without a buffer passes one.
Handoff(k) ==
  /\ queue = <<>>
  /\ fpc = "push" /\ rpc = "recv"
  /\ CopyOut(Slice(slots[part % Window]), k)
  /\ Advance
  /\ UNCHANGED <<queue, cause>>

ReadClosed ==
  /\ rpc = "recv" /\ queue = <<>> /\ fpc = "closed"
  /\ ReturnError(IF Live THEN "abandoned" ELSE cause.kind)
  /\ UNCHANGED <<fillerVars, fetchVars, queue, cause>>

ReadCanceled ==
  /\ rpc = "recv" /\ ~Live
  /\ ReturnError(cause.kind)
  /\ UNCHANGED <<fillerVars, fetchVars, queue, cause>>

Close ==
  /\ rpc = "idle"
  /\ Cancel("closed", -1)
  /\ UNCHANGED <<fillerVars, fetchVars, queue, readerVars>>

\* The context of the HTTP request ends, at any moment.
ParentCancel ==
  /\ Cancel("parent", -1)
  /\ UNCHANGED <<fillerVars, fetchVars, queue, readerVars>>

------------------------------------------------------------------------------
Filler == FillStart \/ TakeResult \/ Push \/ FillCanceled \/ CloseChannel

\* A fetch ends on its own: its timer fires or its context is done.
FetchEnds(p) == FetchTimeout(p) \/ FetchCanceled(p)

Read == \/ ReadAtEOF \/ ReadBlock \/ ReadClosed \/ ReadCanceled
        \/ \E k \in ReadSizes : ReadBuffered(k) \/ ReadReceive(k) \/ Handoff(k)

Next ==
  \/ Filler
  \/ \E p \in Parts : SourceReturn(p) \/ FetchEnds(p)
  \/ Read
  \/ Close \/ ParentCancel

\* Goroutines run, timers fire.  No source call has to return, nobody has to
\* close and the consumer need not read on.
Fairness == WF_vars(Filler) /\ \A p \in Parts : WF_vars(FetchEnds(p))

Spec == Init /\ [][Next]_vars /\ Fairness

------------------------------------------------------------------------------
Block == [lo : Nat, hi : Int]

TypeOK ==
  /\ fpc \in {"start", "wait", "push", "exit", "closed"}
  /\ part \in 0..TotalParts
  /\ slots \in [0..(Window - 1) -> Parts]
  /\ fetch \in [Parts -> {"idle", "running", "taken"} \cup Results]
  /\ calling \subseteq Parts
  /\ queue \in Seq(Block)
  /\ cause \in [kind : {"none"} \cup Failures, part : Parts \cup {-1}]
  /\ rpc \in {"idle", "recv"}
  /\ cur \in Block
  /\ limit \in Int
  /\ ret \in [lo : Int, n : Nat, err : {"nil", "EOF", "abandoned"} \cup Failures]

\* The chunks the consumer has received, and those fetched or being fetched.
Taken    == part - Len(queue)
Launched == {p \in Parts : fetch[p] /= "idle"}

\* Read never ends a stream with ErrStreamAbandoned (tg_multi_reader.go:207):
\* when bufferChan is closed and drained before the last byte, a cause has been
\* recorded first, so the consumer learns why the stream stopped.
NeverAbandoned == ret.err /= "abandoned"

\* The comment of fillBuffer (lines 226-228) and TestMultiReaderBoundedPrefetch:
\* a stalled consumer bounds memory to the window plus bufferChan, next to the
\* buffer it is reading from.
BoundedPrefetch == Cardinality(Launched) - Taken <= Window + Buffers

\* At most `concurrency` requests are outstanding at Telegram at any time,
\* those of fetches that timed out and were given up included.
RequestWindow == Cardinality(calling) <= Threads

\* An error the source or the timer raised is reported for the earliest chunk
\* that failed: every chunk before it was fetched and handed on, so retrying
\* from the first undelivered byte loses nothing.
FailureInOrder ==
  cause.part /= -1 =>
    /\ part = cause.part
    /\ \A p \in Parts : p < cause.part => fetch[p] = "taken" /\ p \notin calling

\* Refinement: the bytes handed out are those of the ordered stream.
Stream == INSTANCE OrderedStream WITH pos <- End + 1 - limit
OrderedDelivery == Stream!Spec

\* A consumer that keeps reading gets to io.EOF or to an error, whatever the
\* source does: lost answers included, since every fetch has a timer.
StreamEnds == WF_vars(Read) => <>(ret.err /= "nil")

\* Once the context is done no goroutine of the reader stays behind, even if
\* the consumer never calls Read again.
GoroutinesEnd ==
  ~Live ~> (fpc = "closed" /\ \A p \in Parts : fetch[p] /= "running")
==============================================================================
