------------------------------ MODULE Sessions ------------------------------
(***************************************************************************)
(* The web sessions of one user: rows of teldrive.sessions, one per        *)
(* Telegram session, and two kinds of cache entries without expiration:    *)
(* sessions:<hash>, read by every request (internal/auth/auth.go), and the *)
(* list users:sessions:<user> (pkg/services/user.go, auth.go).  Nothing is *)
(* locked: each call is its database and cache accesses, one at a time.    *)
(* The cache itself does not fail, and entries are not evicted.            *)
(***************************************************************************)
EXTENDS FiniteSets

CONSTANTS
  Hashes,   \* sessions, by the hash of their Telegram session
  Calls,    \* requests
  None

VARIABLES
  tg,       \* what Telegram has of a session: new, live or ended
  rows,     \* hashes with a row
  cached,   \* hashes with an entry sessions:<hash>
  list,     \* what users:sessions:<user> holds, or None
  call,     \* a request: its step (pc), the session that authenticates it (by), the
            \* session it is about (on), the rows it read (seen)
  out, off  \* history: sessions logged out, and removed, with no fill of their entry
            \* in flight

vars == <<tg, rows, cached, list, call, out, off>>

Idle == [pc |-> "idle", by |-> None, on |-> None, seen |-> {}]

Init ==
  /\ tg = [h \in Hashes |-> "new"] /\ rows = {} /\ cached = {} /\ list = None
  /\ call = [c \in Calls |-> Idle] /\ out = {} /\ off = {}

Goto(c, pc) == call' = [call EXCEPT ![c].pc = pc]
End(c)      == call' = [call EXCEPT ![c] = Idle]

\* A client signs in on Telegram (AuthWs) and is given a session.
SignIn(h) ==
  /\ tg[h] = "new" /\ tg' = [tg EXCEPT ![h] = "live"]
  /\ UNCHANGED <<rows, cached, list, call, out, off>>

\* Telegram is asked before the row is made; a second row of a hash is refused.  The two
\* are one step: the answer only gives the row its date, and the properties speak of rows
\* and entries, not of sessions that Telegram ended in between.
AuthLogin(c, h) ==
  /\ call[c].pc = "idle" /\ tg[h] = "live" /\ h \notin rows
  /\ rows' = rows \cup {h} /\ out' = out \ {h} /\ off' = off \ {h}
  /\ UNCHANGED <<tg, cached, list, call>>

\* GetSessionByHash: the entry; else the row, and the entry is to be made.
Authenticate(c, h) ==
  /\ call[c].pc = "idle"
  /\ h \in cached \cup rows
  /\ call' = [call EXCEPT ![c] = [pc |-> IF h \in cached THEN "in" ELSE "fill", by |-> h,
                                  on |-> None, seen |-> {}]]
  /\ UNCHANGED <<tg, rows, cached, list, out, off>>

FillSession(c) ==
  /\ call[c].pc = "fill" /\ Goto(c, "in")
  /\ cached' = cached \cup {call[c].by}
  /\ UNCHANGED <<tg, rows, list, out, off>>

\* Any other request, AuthSession among them.
Serve(c) ==
  /\ call[c].pc = "in" /\ End(c)
  /\ UNCHANGED <<tg, rows, cached, list, out, off>>

\* UsersListSessions: the list, or Telegram (an ended session is no error) and the rows.
ListSessions(c) ==
  /\ call[c].pc = "in"
  /\ \/ End(c)                                       \* the entry, or an error
     \/ list = None /\ call' = [call EXCEPT ![c].pc = "listed", ![c].seen = rows]
  /\ UNCHANGED <<tg, rows, cached, list, out, off>>

FillList(c) ==
  /\ call[c].pc = "listed" /\ End(c)
  /\ list' = call[c].seen
  /\ UNCHANGED <<tg, rows, cached, out, off>>

\* AuthLogout and UsersRemoveSession begin alike: the session is ended on Telegram,
\* whether that succeeds or not.
Leave(c, pc, h) ==
  /\ call[c].pc = "in"
  /\ call' = [call EXCEPT ![c].pc = pc, ![c].on = h]
  /\ tg' = [tg EXCEPT ![h] = "ended"] \/ UNCHANGED tg
  /\ UNCHANGED <<rows, cached, list, out, off>>

Logout(c) == Leave(c, "logout", call[c].by)

RemoveSession(c) == \E h \in rows : Leave(c, "remove", h)

\* The row; an error here is ignored.
RowDeleted(c) ==
  /\ call[c].pc \in {"logout", "remove"}
  /\ rows' \in {rows, rows \ {call[c].on}}
  /\ Goto(c, IF call[c].pc = "logout" THEN "loggedout" ELSE "removed")
  /\ UNCHANGED <<tg, cached, list, out, off>>

\* Mutant: the entry of the session is left, as by UsersRemoveSession.
EntryKept(c) == cached

EntryDeleted(c) == cached \ {call[c].on}

\* The key of the list is made of claims.ID, which no login sets: the list stays.
LogoutEnds(c) ==
  /\ call[c].pc = "loggedout" /\ End(c)
  /\ cached' = EntryDeleted(c)
  /\ LET h == call[c].on IN
       out' = IF h \in rows \/ \E d \in Calls : call[d].pc = "fill" /\ call[d].by = h
              THEN out ELSE out \cup {h}
  /\ UNCHANGED <<tg, rows, list, off>>

\* Mutant: the list is left, as by AuthLogout.
ListKept == list

ListDeleted == None

RemoveEnds(c) ==
  /\ call[c].pc = "removed" /\ End(c)
  /\ list' = ListDeleted
  /\ LET h == call[c].on IN
       off' = IF h \in rows \/ \E d \in Calls : call[d].pc = "listed" /\ h \in call[d].seen
              THEN off ELSE off \cup {h}
  /\ UNCHANGED <<tg, rows, cached, out>>

Next ==
  \/ \E h \in Hashes : SignIn(h)
  \/ \E c \in Calls, h \in Hashes : AuthLogin(c, h) \/ Authenticate(c, h)
  \/ \E c \in Calls :
       \/ FillSession(c) \/ Serve(c) \/ ListSessions(c) \/ FillList(c) \/ Logout(c)
       \/ RemoveSession(c) \/ RowDeleted(c) \/ LogoutEnds(c) \/ RemoveEnds(c)

Spec == Init /\ [][Next]_vars

-----------------------------------------------------------------------------
Requests ==
  [pc : {"idle", "fill", "in", "listed", "logout", "remove", "loggedout", "removed"},
   by : Hashes \cup {None}, on : Hashes \cup {None}, seen : SUBSET Hashes]

TypeOK ==
  /\ tg \in [Hashes -> {"new", "live", "ended"}]
  /\ rows \subseteq Hashes /\ cached \subseteq Hashes
  /\ list \in (SUBSET Hashes) \cup {None}
  /\ call \in [Calls -> Requests]
  /\ out \subseteq Hashes /\ off \subseteq Hashes

\* A session that was logged out authenticates no request until it logs in again,
\* unless its row could not be deleted or another request was between its row and
\* its entry.  (UsersRemoveSession promises less: it leaves the entry.)
LogoutFinal == \A h \in out : h \notin rows \cup cached

\* A session that was removed is not in the cached list any more, unless its row
\* could not be deleted or a listing had read it.  (AuthLogout leaves the list.)
RemovedLeavesList == list # None => off \cap list = {}

\* A session that logged out authenticates nobody, and one that was removed leaves the
\* cached list (AuthLogout, UsersRemoveSession).
SessionsEnd == LogoutFinal /\ RemovedLeavesList
=============================================================================
