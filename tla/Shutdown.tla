------------------------------ MODULE Shutdown ------------------------------
(***************************************************************************)
(* The end of the server (cmd/run.go) and the event recorder               *)
(* (internal/events/recorder.go) that handlers feed: a queue of limited    *)
(* length and one goroutine that writes its events.  When the context is   *)
(* done the queue is closed first, then the HTTP server drains, then the   *)
(* cached Telegram clients are closed.                                     *)
(***************************************************************************)
EXTENDS Integers, Sequences

CONSTANTS
  Handlers,   \* requests that change files; each records one event, named after it
  Capacity,   \* of the queue, 1000
  Blank       \* the zero event, received from a closed queue

\* An event is not the zero event, nor a state of the writer.
EventsNamed == Handlers \cap {Blank, "waiting", "ended"} = {} /\ Capacity \in Nat

VARIABLES
  ctx,        \* live or done
  main,       \* runApplication: serving, draining, timedout, drained, exited
  handler,    \* new, in, changed, dropped, recorded, panicked, ended
  queue, open,
  writer,     \* processEvents: waiting, ended, or the event it writes
  written,    \* the events in the table, oldest first
  accepted,   \* history: events put in the queue
  lost        \* history: events whose write failed

vars == <<ctx, main, handler, queue, open, writer, written, accepted, lost>>

Init ==
  /\ ctx = "live" /\ main = "serving" /\ handler = [h \in Handlers |-> "new"]
  /\ queue = <<>> /\ open = TRUE /\ writer = "waiting"
  /\ written = <<>> /\ accepted = <<>> /\ lost = {}

Running == main # "exited"

\* A request comes, and commits its change, or fails before it does.
Begin(h) ==
  /\ handler[h] = "new" /\ main = "serving"
  /\ handler' = [handler EXCEPT ![h] = "in"]
  /\ UNCHANGED <<ctx, main, queue, open, writer, written, accepted, lost>>

Change(h) ==
  /\ Running /\ handler[h] = "in"
  /\ \E to \in {"changed", "ended"} : handler' = [handler EXCEPT ![h] = to]
  /\ UNCHANGED <<ctx, main, queue, open, writer, written, accepted, lost>>

\* Mutant: the queue has no limit.
PutAnyway(h) == queue' = Append(queue, h)

\* Mutant: a full queue loses its oldest event.
PutOldest(h) == queue' = Append(IF Len(queue) < Capacity THEN queue ELSE Tail(queue), h)

Put(h) == Len(queue) < Capacity /\ queue' = Append(queue, h)

\* Record: queued; dropped when the queue is full; a panic once it is closed, which
\* chi's Recoverer turns into an error although the change was committed.
Record(h) ==
  /\ Running /\ handler[h] = "changed"
  /\ \/ /\ open /\ Put(h) /\ accepted' = Append(accepted, h)
        /\ handler' = [handler EXCEPT ![h] = "recorded"]
     \/ /\ open /\ Len(queue) = Capacity
        /\ handler' = [handler EXCEPT ![h] = "dropped"] /\ UNCHANGED <<queue, accepted>>
     \/ /\ ~open
        /\ handler' = [handler EXCEPT ![h] = "panicked"] /\ UNCHANGED <<queue, accepted>>
  /\ UNCHANGED <<ctx, main, open, writer, written, lost>>

Answer(h) ==
  /\ Running /\ handler[h] \in {"recorded", "dropped", "panicked"}
  /\ handler' = [handler EXCEPT ![h] = "ended"]
  /\ UNCHANGED <<ctx, main, queue, open, writer, written, accepted, lost>>

\* processEvents chooses freely between a done context and an event.
Receive ==
  /\ Running /\ writer = "waiting"
  /\ \/ queue # <<>> /\ writer' = Head(queue) /\ queue' = Tail(queue)
     \/ queue = <<>> /\ ~open /\ writer' = Blank /\ UNCHANGED queue
  /\ UNCHANGED <<ctx, main, handler, open, written, accepted, lost>>

\* Create fails: the event is logged and dropped.
Failed ==
  /\ Running /\ writer \in Handlers
  /\ writer' = "waiting" /\ lost' = lost \cup {writer}
  /\ UNCHANGED <<ctx, main, handler, queue, open, written, accepted>>

\* The event is in the table; the zero event of a closed queue is nobody's.
Written ==
  /\ Running /\ writer \notin {"waiting", "ended"} /\ writer' = "waiting"
  /\ written' = IF writer = Blank THEN written ELSE Append(written, writer)
  /\ UNCHANGED <<ctx, main, handler, queue, open, accepted, lost>>

Save == Written \/ Failed

WriterEnds ==
  /\ Running /\ writer = "waiting" /\ ctx = "done" /\ writer' = "ended"
  /\ UNCHANGED <<ctx, main, handler, queue, open, written, accepted, lost>>

Signal ==
  /\ ctx = "live" /\ ctx' = "done"
  /\ UNCHANGED <<main, handler, queue, open, writer, written, accepted, lost>>

\* eventRecorder.Shutdown, and srv.Shutdown begins: no new request.
ShutdownBegins ==
  /\ main = "serving" /\ ctx = "done" /\ main' = "draining" /\ open' = FALSE
  /\ UNCHANGED <<ctx, handler, queue, writer, written, accepted, lost>>

Drained == \A h \in Handlers : handler[h] \in {"new", "ended"}

\* Shutdown returns when the last handler ended.
Drain == main = "draining" /\ Drained /\ main' = "drained"

\* Mutant: Shutdown waits with the background context.
NoTimeout == FALSE

\* Or after GracefulShutdown.
Timeout == main = "draining" /\ main' = "timedout"

ShutdownReturns ==
  /\ Drain \/ Timeout
  /\ UNCHANGED <<ctx, handler, queue, open, writer, written, accepted, lost>>

\* The deferred CloseLiveClients, and the process ends.
Exit ==
  /\ main \in {"drained", "timedout"} /\ main' = "exited"
  /\ UNCHANGED <<ctx, handler, queue, open, writer, written, accepted, lost>>

Next ==
  \/ \E h \in Handlers : Begin(h) \/ Change(h) \/ Record(h) \/ Answer(h)
  \/ Receive \/ Save \/ WriterEnds \/ Signal \/ ShutdownBegins \/ ShutdownReturns \/ Exit

\* A write to the database ends, the writer and main go on; a handler may hang.
Fairness ==
  /\ WF_vars(Receive \/ Save \/ WriterEnds) /\ WF_vars(ShutdownBegins)
  /\ WF_vars(ShutdownReturns) /\ WF_vars(Exit)

Spec == Init /\ [][Next]_vars /\ Fairness

-----------------------------------------------------------------------------
TypeOK ==
  /\ ctx \in {"live", "done"} /\ main \in {"serving", "draining", "timedout", "drained", "exited"}
  /\ queue \in Seq(Handlers) /\ Len(queue) <= Capacity
  /\ writer \in Handlers \cup {Blank, "waiting", "ended"}
  /\ {written, accepted} \subseteq Seq(Handlers) /\ lost \subseteq Handlers /\ open \in BOOLEAN
  /\ handler \in [Handlers ->
                    {"new", "in", "changed", "dropped", "recorded", "panicked", "ended"}]

\* Accepted events the writer has not done with.
Pending == (IF writer \in Handlers THEN <<writer>> ELSE <<>>) \o queue

Done == Len(accepted) - Len(Pending)

\* Between the queue and the table no event is overtaken or repeated, and the one way to
\* lose one is a write that fails: what was accepted is written, in order and once,
\* except for events whose write failed, and then come the one being written and the
\* queue.
AcceptedInOrder ==
  /\ Done >= 0 /\ \A i \in DOMAIN Pending : Pending[i] = accepted[Done + i]
  /\ \E at \in [DOMAIN written -> 1..Done] :
       /\ \A i, j \in DOMAIN written : i < j => at[i] < at[j]
       /\ \A i \in DOMAIN written : written[i] = accepted[at[i]]
       /\ \A k \in 1..Done : accepted[k] \in lost \/ \E i \in DOMAIN written : at[i] = k

\* While the server runs an accepted event gets its turn: it is written or, when that
\* fails, dropped.
AcceptedTaken ==
  \A h \in Handlers :
    [](handler[h] = "recorded" =>
         <>(ctx = "done" \/ h \in lost \/ \E i \in DOMAIN written : written[i] = h))

\* A server told to stop does so, whatever its handlers do.
ShutdownEnds == (ctx = "done") ~> (main = "exited")
=============================================================================
