-------------------------- MODULE ChannelRollover ---------------------------
(***************************************************************************)
(* The channel a user's uploads go to: GetChannelForUpload under the       *)
(* user's mutex, with the creation of a new channel when the current one   *)
(* is near its limit (internal/tgc/channel_manager.go), beside requests    *)
(* that read, choose or delete the channel without that mutex              *)
(* (pkg/services/user.go).                                                 *)
(***************************************************************************)
EXTENDS Integers

CONSTANTS
  Channels,   \* ids Telegram may give
  Uploads,    \* parts being uploaded
  Readers,    \* UsersStats and FilesCreate, which call CurrentChannel
  Setters,    \* UsersUpdateChannel
  MaxFills,   \* bound on how often a channel reaches its limit
  None

\* A request is of one kind.
RequestsApart ==
  /\ Uploads \cap Readers = {} /\ Uploads \cap Setters = {} /\ Readers \cap Setters = {}
  /\ None \notin Channels /\ MaxFills \in Nat

VARIABLES
  tg,         \* a channel is new (not created), there or gone
  row,        \* its row in teldrive.channels: none, plain or selected
  full,       \* channels whose files have ChannelLimit parts or more
  near,       \* nearLimitCache: the answers not yet expired
  cached,     \* users:channel in the cache, which never expires
  p,          \* each request: its step (pc), the channel it found, made or chose (ch), and
              \* the rows its transaction unselects (olds)
  fills, made, crossed   \* history: channels that filled up; rows of new channels; whether
              \* the user chose a channel ("chosen"), whether the last choice failed to
              \* unselect the others ("left") and whether a selection met another one, a
              \* stale fill of the cache or a deletion ("yes"), where the run ends

vars == <<tg, row, full, near, cached, p, fills, made, crossed>>
db == <<tg, row, full, near>>

Requests == Uploads \cup Readers \cup Setters
Idle == [pc |-> "idle", ch |-> None, olds |-> {}]
Selected == {c \in Channels : row[c] = "selected"}
Choosing == {q \in Requests : p[q].pc \in {"commit", "inserted", "upserted", "unselected"}}

Init ==
  /\ tg = [c \in Channels |-> "new"] /\ row = [c \in Channels |-> "none"]
  /\ full = {} /\ near = [c \in {} |-> FALSE] /\ cached = None
  /\ p = [q \in Requests |-> Idle]
  /\ fills = 0 /\ made = 0 /\ crossed = "no"

Goto(q, pc, c) == p' = [p EXCEPT ![q].pc = pc, ![q].ch = c]

Crossed(now) == crossed' = IF now THEN "yes" ELSE crossed

\* A selection is complete, unless it met another one: nothing is left of a failed one.
Completed(q) ==
  crossed' = IF Choosing # {q} THEN "yes" ELSE IF crossed = "left" THEN "chosen" ELSE crossed

\* Mutant: getUserRolloverMutex hands out a mutex of its own to each request.
MutexOwn == TRUE

MutexFree == \A u \in Uploads : p[u].pc \in {"idle", "done"}

Start(q) ==
  /\ p[q].pc = "idle" /\ q \notin Setters
  /\ q \in Uploads => MutexFree
  /\ Goto(q, "lookup", None)
  /\ UNCHANGED <<db, cached, fills, made, crossed>>

\* CurrentChannel by cache.Fetch: the cached channel, or the rows are read.
Lookup(q) ==
  /\ p[q].pc = "lookup"
  /\ \/ /\ cached # None /\ Goto(q, "found", cached)
     \/ /\ cached = None /\ \E c \in Selected : Goto(q, "fetched", c)
     \/ /\ cached = None /\ Selected = {}
        /\ Goto(q, IF q \in Uploads THEN "create" ELSE "done", None)
     \/ /\ cached = None /\ Goto(q, "done", None)                \* the database fails
  /\ UNCHANGED <<db, cached, fills, made, crossed>>

\* Fetch caches what it read, which may be out of date.
Fill(q) ==
  /\ p[q].pc = "fetched" /\ Goto(q, "found", p[q].ch)
  /\ cached' = p[q].ch
  /\ Crossed(row[p[q].ch] # "selected" \/ Choosing # {})
  /\ UNCHANGED <<db, fills, made>>

\* isChannelNearLimit: a cached answer, the rows, or FALSE when they cannot be read.
Decide(q) ==
  /\ p[q].pc = "found"
  /\ LET c == p[q].ch
         go(b) == Goto(q, IF b THEN "create" ELSE "done", c)
     IN  IF q \notin Uploads THEN Goto(q, "done", c) /\ UNCHANGED near
         ELSE IF c \in DOMAIN near THEN go(near[c]) /\ UNCHANGED near
         ELSE \/ /\ go(c \in full)
                 /\ near' = [d \in DOMAIN near \cup {c} |-> IF d = c THEN c \in full ELSE near[d]]
              \/ go(FALSE) /\ UNCHANGED near
  /\ UNCHANGED <<tg, row, full, cached, fills, made, crossed>>

\* CreateNewChannel: the channel on Telegram, then the bots; a failure leaves it there.
Create(u) ==
  /\ p[u].pc = "create"
  /\ \/ /\ \E c \in Channels :
             /\ tg[c] = "new" /\ tg' = [tg EXCEPT ![c] = "there"]
             /\ Goto(u, "commit", c) \/ Goto(u, "done", None)
     \/ Goto(u, "done", None) /\ UNCHANGED tg
  /\ UNCHANGED <<row, full, near, cached, fills, made, crossed>>

\* The transaction: what is selected now is unselected, and locked until it ends.
Unselect(u) ==
  /\ p[u].pc = "commit" /\ u \in Uploads
  /\ p' = [p EXCEPT ![u].pc = "inserted", ![u].olds = Selected]
  /\ Crossed(Choosing # {u})
  /\ UNCHANGED <<db, cached, fills, made>>

\* The new row, and the commit; or an error.
Commit(u) ==
  /\ p[u].pc = "inserted"
  /\ \/ /\ row' = [c \in Channels |-> IF c = p[u].ch THEN "selected"
                                      ELSE IF c \in p[u].olds /\ row[c] # "none" THEN "plain"
                                      ELSE row[c]]
        /\ p' = [p EXCEPT ![u].pc = "committed", ![u].olds = {}]
        /\ made' = made + 1 /\ Completed(u)
     \/ /\ p' = [p EXCEPT ![u] = [Idle EXCEPT !.pc = "done"]]
        /\ Crossed(Choosing # {u}) /\ UNCHANGED <<row, made>>
  /\ UNCHANGED <<tg, full, near, cached, fills>>

Invalidated == None

Invalidate(u) ==
  /\ p[u].pc = "committed" /\ Goto(u, "done", p[u].ch)
  /\ cached' = Invalidated
  /\ UNCHANGED <<db, fills, made, crossed>>

\* UsersUpdateChannel: the upsert, the other rows, the cache, one after the other.
Upsert(s) ==
  /\ p[s].pc = "idle" /\ s \in Setters
  /\ \E c \in Channels :
       /\ tg[c] = "there" /\ \A u \in Uploads : c \notin p[u].olds
       /\ row' = [row EXCEPT ![c] = "selected"] /\ Goto(s, "upserted", c)
  /\ crossed' = IF Choosing # {} THEN "yes" ELSE IF crossed = "left" THEN "left" ELSE "chosen"
  /\ UNCHANGED <<tg, full, near, cached, fills, made>>

\* Mutant: the rows of the other channels are left alone.
OthersKept(c) == row

Others(c) == [d \in Channels |-> IF d # c /\ row[d] = "selected" THEN "plain" ELSE row[d]]

\* The error of this update is not looked at: the other rows may stay selected.
UnselectOthers(s) ==
  /\ p[s].pc = "upserted" /\ Goto(s, "unselected", p[s].ch)
  /\ \/ row' = Others(p[s].ch) /\ Completed(s)
     \/ row' = row /\ crossed' = IF Choosing # {s} THEN "yes" ELSE "left"
  /\ UNCHANGED <<tg, full, near, cached, fills, made>>

SetCache(s) ==
  /\ p[s].pc = "unselected" /\ Goto(s, "done", p[s].ch)
  /\ cached' = p[s].ch
  /\ Crossed(Choosing # {s} \/ row[p[s].ch] # "selected")
  /\ UNCHANGED <<db, fills, made>>

\* UsersDeleteChannel; the cache is left as it is.
DeleteChannel ==
  /\ \E c \in Channels :
       /\ tg[c] = "there" /\ \A u \in Uploads : c \notin p[u].olds
       /\ tg' = [tg EXCEPT ![c] = "gone"] /\ row' = [row EXCEPT ![c] = "none"]
  /\ crossed' = "yes"
  /\ UNCHANGED <<full, near, cached, p, fills, made>>

\* Files fill the channel; a minute passes.
FillUp ==
  /\ fills < MaxFills /\ fills' = fills + 1
  /\ \E c \in Channels \ full : tg[c] = "there" /\ full' = full \cup {c}
  /\ UNCHANGED <<tg, row, near, cached, p, made, crossed>>

Expire ==
  /\ \E c \in DOMAIN near : near' = [d \in DOMAIN near \ {c} |-> near[d]]
  /\ UNCHANGED <<tg, row, full, cached, p, fills, made, crossed>>

Next ==
  /\ crossed # "yes"
  /\ \/ \E q \in Requests : Start(q) \/ Lookup(q) \/ Fill(q) \/ Decide(q)
     \/ \E u \in Uploads : Create(u) \/ Unselect(u) \/ Commit(u) \/ Invalidate(u)
     \/ \E s \in Setters : Upsert(s) \/ UnselectOthers(s) \/ SetCache(s)
     \/ DeleteChannel \/ FillUp \/ Expire

Spec == Init /\ [][Next]_vars

-----------------------------------------------------------------------------
TypeOK ==
  /\ tg \in [Channels -> {"new", "there", "gone"}]
  /\ row \in [Channels -> {"none", "plain", "selected"}]
  /\ full \subseteq Channels /\ DOMAIN near \subseteq Channels
  /\ cached \in Channels \cup {None} /\ fills \in 0..MaxFills /\ made \in Nat
  /\ \A q \in Requests : p[q].ch \in Channels \cup {None} /\ p[q].olds \subseteq Channels

\* However many parts are uploaded at once, a channel that fills up is replaced by
\* one new channel, as long as nobody else chose, deleted or looked up the channel
\* meanwhile: UsersStats can cache the old channel again after the rollover.  Channels
\* whose row was committed are counted; CreateNewChannel leaves on Telegram, and in no
\* row, one whose creation fails after its first step.
OneChannelPerFill == crossed = "no" => made <= fills + 1

\* Between requests the cache names a selected channel and no other is selected, with the
\* same exceptions: UsersUpdateChannel and the rollover do not exclude each other, and
\* two calls of it can leave none selected.  After an UsersUpdateChannel that failed to
\* unselect the others, which it does not report, several stay selected until the next
\* choice or rollover that succeeds; the cache names one of them.
SelectionAgrees ==
  crossed # "yes" /\ (\A q \in Requests : p[q].pc \in {"idle", "done"}) =>
    /\ crossed # "left" => \A c, d \in Selected : c = d
    /\ cached # None => cached \in Selected
=============================================================================
