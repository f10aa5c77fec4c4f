---------------------------- MODULE ServiceProofs ----------------------------
(***************************************************************************)
(* The safety of components that share nothing: the sessions of bots,      *)
(* whose proofs have a module of their own, and those of the web, the      *)
(* channel of a user's uploads, the command that checks the files beside   *)
(* the server, the calls on a Telegram client, the recorder of events, the *)
(* scan detector, messages in batches, and encrypted parts.  Bots and      *)
(* bodies of streams are in StreamProofs.                                  *)
(***************************************************************************)
EXTENDS Services, Lists, WellFoundedInduction, FiniteSetTheorems,
        SequenceTheorems, TLAPS

-----------------------------------------------------------------------------
\* A component begins as it does alone, and takes its own steps or none.
\* Sessions of bots.
LEMMA TrustRuns == Spec => Auth!Spec
<1>1. Init => Auth!Init
  BY DEF Init
<1>2. [Next]_vars => [Auth!Next]_Auth!vars
  BY DEF Next, vars, authVars, Auth!vars
<1> QED
  BY <1>1, <1>2, PTL DEF Spec, Auth!Spec

\* Channels of a user.
LEMMA ChannelsRun == Spec => Rollover!Spec
<1>1. Init => Rollover!Init
  BY DEF Init
<1>2. [Next]_vars => [Rollover!Next]_Rollover!vars
  BY DEF Next, vars, channelsVars, Rollover!vars
<1> QED
  BY <1>1, <1>2, PTL DEF Spec, Rollover!Spec

\* The check command.
LEMMA CheckRuns == Spec => Check!CheckInit /\ [][Check!CheckNext]_Check!checkVars
<1>1. Init => Check!CheckInit
  BY DEF Init
<1>2. [Next]_vars => [Check!CheckNext]_Check!checkVars
  BY DEF Next, vars, checkVars, Check!checkVars, Check!vars
<1> QED
  BY <1>1, <1>2, PTL DEF Spec

\* Sessions of the web.
LEMMA SessionsRun == Spec => Web!Spec
<1>1. Init => Web!Init
  BY DEF Init
<1>2. [Next]_vars => [Web!Next]_Web!vars
  BY DEF Next, vars, sessionsVars, Web!vars
<1> QED
  BY <1>1, <1>2, PTL DEF Spec, Web!Spec

\* Calls on a client.
LEMMA CallsRun == Spec => Rpc!Init /\ [][Rpc!Next]_Rpc!vars
<1>1. Init => Rpc!Init
  BY DEF Init
<1>2. [Next]_vars => [Rpc!Next]_Rpc!vars
  BY DEF Next, vars, callsVars, Rpc!vars
<1> QED
  BY <1>1, <1>2, PTL DEF Spec

\* Events of the server.
LEMMA EventsRun == Spec => Server!Init /\ [][Server!Next]_Server!vars
<1>1. Init => Server!Init
  BY DEF Init
<1>2. [Next]_vars => [Server!Next]_Server!vars
  BY DEF Next, vars, serverVars, Server!vars
<1> QED
  BY <1>1, <1>2, PTL DEF Spec

\* The scan detector and the throttle.
LEMMA ThrottleRuns == Spec => Scan!Init /\ [][Scan!Next]_Scan!vars
<1>1. Init => Scan!Init
  BY DEF Init
<1>2. [Next]_vars => [Scan!Next]_Scan!vars
  BY DEF Next, vars, throttleVars, Scan!vars
<1> QED
  BY <1>1, <1>2, PTL DEF Spec

\* Batches of messages.
LEMMA BatchesRun == Spec => Batched!Init /\ [][Batched!Next]_Batched!vars
<1>1. Init => Batched!Init
  BY DEF Init
<1>2. [Next]_vars => [Batched!Next]_Batched!vars
  BY DEF Next, vars, batchesVars, Batched!vars
<1> QED
  BY <1>1, <1>2, PTL DEF Spec

\* Work of RunWithAuth that is refused ends the trust in the sessions of a bot, none that
\* was replaced or deleted is loaded, and a client does not delete its own good session:
\* for any clients and sessions of the bot, live clients among them (RunWithAuth,
\* authorizeBot, kvStorage.Set, AuthRecovery.Handle).
THEOREM TrustHolds == Spec => TrustEarned
BY TrustRuns, KeysAssumption, Auth!TrustIsEarned DEF TrustEarned

-----------------------------------------------------------------------------
(***************************************************************************)
(* Sessions for every set of sessions and of requests: what a logout and a *)
(* removal leave behind.  The histories out and off only say what is in    *)
(* the tables now; the invariant adds what the requests in flight may      *)
(* still write.                                                            *)
(***************************************************************************)
\* A request in flight knows the session that authenticated it, and the one it ends.
RequestInv ==
  \A c \in WebCalls :
    /\ call[c].pc # "idle" => call[c].by \in Hashes
    /\ call[c].pc \in {"logout", "remove", "loggedout", "removed"} => call[c].on \in Hashes

\* A session that was logged out has no row, no entry, and no request about to make one.
OutInv ==
  \A h \in out :
    /\ h \notin rows /\ h \notin entries
    /\ \A c \in WebCalls : ~(call[c].pc = "fill" /\ call[c].by = h)

\* A session that was removed has no row, is not in the list, and no listing has read it.
OffInv ==
  \A h \in off :
    /\ h \notin rows
    /\ list # None => h \notin list
    /\ \A c \in WebCalls : ~(call[c].pc = "listed" /\ h \in call[c].seen)

SessionsInv == Web!TypeOK /\ RequestInv /\ OutInv /\ OffInv

\* No session, no request: the server starts with nothing to keep.
LEMMA SessionsBegin == Web!Init => SessionsInv
  BY DEF Web!Init, Web!Idle, SessionsInv, Web!Requests, Web!TypeOK, RequestInv, OutInv, OffInv

\* A sign-in on Telegram, and the login that makes the row (auth.go).
LEMMA LoginStep ==
  ASSUME SessionsInv, NEW h \in Hashes, Web!SignIn(h) \/ \E c \in WebCalls : Web!AuthLogin(c, h)
  PROVE  SessionsInv'
<1> USE DEF SessionsInv, Web!Requests
<1>1. CASE Web!SignIn(h)
  BY <1>1 DEF Web!SignIn, Web!TypeOK, RequestInv, OutInv, OffInv
<1>2. CASE \E c \in WebCalls : Web!AuthLogin(c, h)
  BY <1>2 DEF Web!AuthLogin, Web!TypeOK, RequestInv, OutInv, OffInv
<1>3. QED
  BY <1>1, <1>2

\* GetSessionByHash: only a session with a row or an entry gets its entry made.
LEMMA AuthenticateStep ==
  ASSUME SessionsInv, NEW c \in WebCalls,
         Web!FillSession(c) \/ \E h \in Hashes : Web!Authenticate(c, h)
  PROVE  SessionsInv'
<1> USE DEF SessionsInv, Web!Requests
<1>1. CASE \E h \in Hashes : Web!Authenticate(c, h)
  <2>1. PICK h \in Hashes : Web!Authenticate(c, h)
    BY <1>1
  <2>2. /\ call' = [call EXCEPT ![c] =
                      [pc |-> IF h \in entries THEN "in" ELSE "fill",
                       by |-> h, on |-> None, seen |-> {}]]
        /\ h \in entries \cup rows
        /\ UNCHANGED <<signed, rows, entries, list, out, off>>
    BY <2>1 DEF Web!Authenticate
  <2>3. Web!TypeOK' /\ RequestInv'
    BY <2>2 DEF Web!TypeOK, RequestInv
  <2>4. OutInv' /\ OffInv'
    BY <2>2 DEF Web!TypeOK, OutInv, OffInv
  <2>5. QED
    BY <2>3, <2>4
<1>2. CASE Web!FillSession(c)
  <2>1. /\ call[c].pc = "fill" /\ call' = [call EXCEPT ![c].pc = "in"]
        /\ entries' = entries \cup {call[c].by} /\ UNCHANGED <<signed, rows, list, out, off>>
    BY <1>2 DEF Web!FillSession, Web!Goto
  <2>2. call[c].by \in Hashes /\ call[c].by \notin out
    BY <2>1 DEF RequestInv, OutInv
  <2>3. Web!TypeOK' /\ RequestInv'
    BY <2>1, <2>2 DEF Web!TypeOK, RequestInv
  <2>4. OutInv' /\ OffInv'
    BY <2>1, <2>2 DEF Web!TypeOK, OutInv, OffInv
  <2>5. QED
    BY <2>3, <2>4
<1>3. QED
  BY <1>1, <1>2

\* A request that ends, and the listing of the sessions, which reads the rows opened.
LEMMA ListingStep ==
  ASSUME SessionsInv, NEW c \in WebCalls, Web!Serve(c) \/ Web!ListSessions(c) \/ Web!FillList(c)
  PROVE  SessionsInv'
<1> USE DEF SessionsInv, Web!Requests
<1>1. CASE /\ call[c].pc = "in" /\ Web!End(c)
           /\ UNCHANGED <<signed, rows, entries, list, out, off>>
  BY <1>1 DEF Web!End, Web!Idle, Web!TypeOK, RequestInv, OutInv, OffInv
<1>2. CASE /\ call[c].pc = "in"
           /\ call' = [call EXCEPT ![c].pc = "listed", ![c].seen = rows]
           /\ UNCHANGED <<signed, rows, entries, list, out, off>>
  <2> DEFINE opened == [call[c] EXCEPT !.pc = "listed"]
             asked == [opened EXCEPT !.seen = rows]
  <2>1. call[c] \in Web!Requests /\ rows \in SUBSET Hashes
    BY DEF Web!TypeOK
  <2>2. opened \in Web!Requests /\ opened.pc = "listed" /\ opened.by = call[c].by
    BY <2>1
  <2>3. call' = [call EXCEPT ![c] = asked]
    BY <1>2, <2>1 DEF Web!TypeOK
  <2> HIDE DEF opened
  <2>4. /\ asked \in Web!Requests /\ asked.pc = "listed" /\ asked.by = call[c].by
        /\ asked.seen = rows
    BY <2>1, <2>2
  <2> HIDE DEF asked
  <2>5. /\ call' \in [WebCalls -> Web!Requests] /\ call'[c] = asked
        /\ \A b \in WebCalls : b # c => call'[b] = call[b]
    BY <2>3, <2>4 DEF Web!TypeOK
  <2>6. Web!TypeOK' /\ RequestInv'
    BY <1>2, <2>4, <2>5 DEF Web!TypeOK, RequestInv
  <2>7. OutInv' /\ OffInv'
    BY <1>2, <2>4, <2>5 DEF OutInv, OffInv
  <2>8. QED
    BY <2>6, <2>7
<1>3. CASE Web!FillList(c)
  <2>1. /\ call[c].pc = "listed" /\ call' = [call EXCEPT ![c] = Web!Idle]
        /\ list' = call[c].seen /\ UNCHANGED <<signed, rows, entries, out, off>>
    BY <1>3 DEF Web!FillList, Web!End
  <2>2. \A h \in off : h \notin list'
    BY <2>1 DEF OffInv
  <2>3. QED
    BY <2>1, <2>2 DEF Web!Idle, Web!TypeOK, RequestInv, OutInv, OffInv
<1>4. QED
  BY <1>1, <1>2, <1>3 DEF Web!Serve, Web!ListSessions

\* AuthLogout and UsersRemoveSession up to the row: nothing is removed from the caches.
LEMMA LeaveStep ==
  ASSUME SessionsInv, NEW c \in WebCalls, Web!Logout(c) \/ Web!RemoveSession(c) \/ Web!RowDeleted(c)
  PROVE  SessionsInv'
<1> USE DEF SessionsInv, Web!Requests
<1>1. ASSUME NEW pc \in {"logout", "remove"}, NEW h \in Hashes, Web!Leave(c, pc, h)
      PROVE  SessionsInv'
  <2>1. /\ call[c].pc = "in" /\ UNCHANGED <<rows, entries, list, out, off>>
        /\ call' = [call EXCEPT ![c].pc = pc, ![c].on = h]
        /\ signed' \in {signed, [signed EXCEPT ![h] = "ended"]}
    BY <1>1 DEF Web!Leave
  <2>2. signed' \in [Hashes -> {"new", "live", "ended"}]
    BY <2>1 DEF Web!TypeOK
  <2>3. Web!TypeOK'
    <3> DEFINE left == [call EXCEPT ![c].pc = pc]
    <3>1. left \in [WebCalls -> Web!Requests]
      BY DEF Web!TypeOK
    <3>2. call' = [left EXCEPT ![c].on = h]
      BY <2>1 DEF Web!TypeOK
    <3>3. call' \in [WebCalls -> Web!Requests]
      <4> HIDE DEF left
      <4>1. QED
        BY <3>1, <3>2
    <3>4. QED
      BY <2>1, <2>2, <3>3 DEF Web!TypeOK
  <2>4. RequestInv'
    BY <2>1 DEF Web!TypeOK, RequestInv
  <2>5. OutInv' /\ OffInv'
    BY <2>1 DEF Web!TypeOK, OutInv, OffInv
  <2>6. QED
    BY <2>3, <2>4, <2>5
<1>2. CASE Web!Logout(c)
  <2>1. call[c].by \in Hashes
    BY <1>2 DEF Web!Logout, Web!Leave, RequestInv
  <2>2. QED
    BY <1>1, <1>2, <2>1 DEF Web!Logout
<1>3. CASE Web!RemoveSession(c)
  BY <1>1, <1>3 DEF Web!RemoveSession, Web!TypeOK
<1>4. CASE Web!RowDeleted(c)
  BY <1>4 DEF Web!RowDeleted, Web!Goto, Web!TypeOK, RequestInv, OutInv, OffInv
<1>5. QED
  BY <1>2, <1>3, <1>4

\* The end of AuthLogout: the entry is deleted.
LEMMA LogoutEndsStep ==
  ASSUME SessionsInv, NEW c \in WebCalls, Web!LogoutEnds(c)
  PROVE  SessionsInv'
<1> USE DEF SessionsInv, Web!Requests
<1>1. /\ call[c].pc = "loggedout" /\ call' = [call EXCEPT ![c] = Web!Idle]
      /\ entries' = entries \ {call[c].on} /\ UNCHANGED <<signed, rows, list, off>>
  BY DEF Web!LogoutEnds, Web!End, Web!EntryDeleted
<1>2. \/ out' = out
      \/ /\ out' = out \cup {call[c].on} /\ call[c].on \notin rows
         /\ \A d \in WebCalls : ~(call[d].pc = "fill" /\ call[d].by = call[c].on)
  BY DEF Web!LogoutEnds
<1>3. call[c].on \in Hashes
  BY <1>1 DEF RequestInv
<1>4. Web!TypeOK' /\ RequestInv'
  BY <1>1, <1>2, <1>3 DEF Web!Idle, Web!TypeOK, RequestInv
<1>5. OutInv' /\ OffInv'
  BY <1>1, <1>2 DEF Web!Idle, Web!TypeOK, OutInv, OffInv
<1>6. QED
  BY <1>4, <1>5

\* The end of UsersRemoveSession: the list is deleted.
LEMMA RemoveEndsStep ==
  ASSUME SessionsInv, NEW c \in WebCalls, Web!RemoveEnds(c)
  PROVE  SessionsInv'
<1> USE DEF SessionsInv, Web!Requests
<1>1. /\ call[c].pc = "removed" /\ call' = [call EXCEPT ![c] = Web!Idle]
      /\ list' = None /\ UNCHANGED <<signed, rows, entries, out>>
  BY DEF Web!RemoveEnds, Web!End, Web!ListDeleted
<1>2. \/ off' = off
      \/ /\ off' = off \cup {call[c].on} /\ call[c].on \notin rows
         /\ \A d \in WebCalls : ~(call[d].pc = "listed" /\ call[c].on \in call[d].seen)
  BY DEF Web!RemoveEnds
<1>3. call[c].on \in Hashes
  BY <1>1 DEF RequestInv
<1>4. Web!TypeOK' /\ RequestInv'
  BY <1>1, <1>2, <1>3 DEF Web!Idle, Web!TypeOK, RequestInv
<1>5. OutInv' /\ OffInv'
  BY <1>1, <1>2 DEF Web!Idle, Web!TypeOK, OutInv, OffInv
<1>6. QED
  BY <1>4, <1>5

\* The invariant of the sessions, whatever requests interleave (auth.go, user.go).
THEOREM SessionsInvariance == Spec => []SessionsInv
<1>1. Web!Init => SessionsInv
  BY SessionsBegin
<1>2. SessionsInv /\ [Web!Next]_Web!vars => SessionsInv'
  <2> SUFFICES ASSUME SessionsInv, [Web!Next]_Web!vars PROVE SessionsInv'
    OBVIOUS
  <2>1. CASE UNCHANGED Web!vars
    BY <2>1 DEF Web!vars, SessionsInv, Web!TypeOK, RequestInv, OutInv, OffInv
  <2>2. ASSUME NEW h \in Hashes, Web!SignIn(h)
        PROVE  SessionsInv'
    BY <2>2, LoginStep
  <2>3. ASSUME NEW c \in WebCalls, NEW h \in Hashes, Web!AuthLogin(c, h) \/ Web!Authenticate(c, h)
        PROVE  SessionsInv'
    BY <2>3, LoginStep, AuthenticateStep
  <2>4. ASSUME NEW c \in WebCalls,
               \/ Web!FillSession(c) \/ Web!Serve(c) \/ Web!ListSessions(c)
               \/ Web!FillList(c) \/ Web!Logout(c) \/ Web!RemoveSession(c)
               \/ Web!RowDeleted(c) \/ Web!LogoutEnds(c) \/ Web!RemoveEnds(c)
        PROVE  SessionsInv'
    BY <2>4, AuthenticateStep, ListingStep, LeaveStep, LogoutEndsStep, RemoveEndsStep
  <2>5. QED
    BY <2>1, <2>2, <2>3, <2>4 DEF Web!Next
<1>3. QED
  BY <1>1, <1>2, SessionsRun, PTL DEF Web!Spec

\* AuthLogout is final: with no request between the row and the entry of the session
\* and the row deleted, the session authenticates nobody until it logs in again.
THEOREM LogoutIsFinal == Spec => []Web!LogoutFinal
<1>1. SessionsInv => Web!LogoutFinal
  BY DEF SessionsInv, OutInv, Web!LogoutFinal
<1>2. QED
  BY <1>1, SessionsInvariance, PTL

\* UsersRemoveSession takes the session out of the cached list for good, unless a
\* listing had read it or its row could not be deleted.
THEOREM RemovedIsUnlisted == Spec => []Web!RemovedLeavesList
<1>1. SessionsInv => Web!RemovedLeavesList
  BY DEF SessionsInv, OffInv, Web!RemovedLeavesList
<1>2. QED
  BY <1>1, SessionsInvariance, PTL

\* A session that logged out authenticates nobody, and one that was removed is listed no
\* more: for any sessions and requests (AuthLogout, UsersRemoveSession).
THEOREM EndedSessions == Spec => []SessionsEnd
<1>1. Web!LogoutFinal /\ Web!RemovedLeavesList => SessionsEnd
  BY DEF SessionsEnd, Web!SessionsEnd
<1>2. QED
  BY <1>1, LogoutIsFinal, RemovedIsUnlisted, PTL

-----------------------------------------------------------------------------
(***************************************************************************)
(* The channel of a user's uploads.  A run ends when a choice met another  *)
(* one; the invariant is about the rest of it.                             *)
(***************************************************************************)
\* The steps of a request; it has its step, its channel and the rows it unselects.
Stages == {"idle", "lookup", "fetched", "found", "create", "commit", "inserted", "committed",
           "upserted", "unselected", "done"}
Selection == [pc : Stages, ch : Channels \cup {None}, olds : SUBSET Channels]

\* Uploads exclude each other; readers only read, and setters only choose.
StepInv ==
  /\ p \in [Rollover!Requests -> Selection]
  /\ \A u, v \in Uploads : p[u].pc \in {"idle", "done"} \/ p[v].pc \in {"idle", "done"} \/ u = v
  /\ \A u \in Uploads : p[u].pc \notin {"upserted", "unselected"}
  /\ \A r \in Readers : p[r].pc \in {"idle", "lookup", "fetched", "found", "done"}
  /\ \A s \in Setters : p[s].pc \in {"idle", "upserted", "unselected", "done"}
  /\ \A q \in Rollover!Requests :
       p[q].ch \in Channels \/ p[q].pc \in {"idle", "lookup", "create", "done"}

\* One channel is selected, or the choice of one has only begun or left the others.
SelectedInv ==
  /\ crossed # "left" /\ (\A s \in Setters : p[s].pc # "upserted") =>
       \A c, d \in Channels : chosen[c] = "selected" /\ chosen[d] = "selected" => c = d
  /\ \A s \in Setters : p[s].pc \in {"upserted", "unselected"} => chosen[p[s].ch] = "selected"
  /\ \A u \in Uploads : p[u].pc = "inserted" =>
       /\ p[u].olds = Rollover!Selected
       /\ \A s \in Setters : p[s].pc \notin {"upserted", "unselected"}

\* The cache agrees with the rows, or is about to be written.
CachedInv ==
  cached # None =>
    \/ chosen[cached] = "selected"
    \/ \E u \in Uploads : p[u].pc = "committed"
    \/ \E s \in Setters : p[s].pc \in {"upserted", "unselected"}

\* As long as nobody chooses a channel, an upload works on the one that is selected, and
\* replaces it only when it is full.
FullInv ==
  /\ \A c \in DOMAIN near : near[c] => c \in full
  /\ \A c \in full : channel[c] # "new"
  /\ \A s \in Setters : p[s].pc = "idle"
  /\ \A u \in Uploads : p[u].pc \in {"fetched", "found"} => chosen[p[u].ch] = "selected"
  /\ \A u \in Uploads :
       p[u].pc \in {"create", "commit", "inserted"} => Rollover!Selected \subseteq full

\* A channel that was made took the place of one that had filled up, but the first.
CountInv ==
  /\ made <= fills + 1
  /\ Rollover!Selected \subseteq full => made <= fills
  /\ \A u \in Uploads : p[u].pc \in {"commit", "inserted"} /\ p[u].ch \in full => made + 1 <= fills

ChannelInv ==
  /\ Rollover!TypeOK /\ crossed \in {"no", "chosen", "left", "yes"} /\ StepInv
  /\ crossed # "yes" => SelectedInv /\ CachedInv
  /\ crossed = "no" => FullInv /\ CountInv

\* A record of a request with another step, or another channel.
LEMMA SelectionSet ==
  ASSUME NEW rec \in Selection, NEW s \in Stages, NEW c \in Channels \cup {None}
  PROVE  /\ [rec EXCEPT !.pc = s] = [pc |-> s, ch |-> rec.ch, olds |-> rec.olds]
         /\ [rec EXCEPT !.ch = c] = [pc |-> rec.pc, ch |-> c, olds |-> rec.olds]
         /\ [pc |-> s, ch |-> rec.ch, olds |-> rec.olds] \in Selection
         /\ [pc |-> s, ch |-> c, olds |-> rec.olds] \in Selection
BY DEF Selection

\* A request goes on to a step and a channel.
LEMMA GotoOK ==
  ASSUME p \in [Rollover!Requests -> Selection], NEW q \in Rollover!Requests, NEW s \in Stages,
         NEW c \in Channels \cup {None}, Rollover!Goto(q, s, c)
  PROVE  /\ p' \in [Rollover!Requests -> Selection]
         /\ p'[q].pc = s /\ p'[q].ch = c /\ p'[q].olds = p[q].olds
         /\ \A r \in Rollover!Requests \ {q} : p'[r] = p[r]
<1> DEFINE one == [p EXCEPT ![q].pc = s]
           mid == [pc |-> s, ch |-> p[q].ch, olds |-> p[q].olds]
           new == [pc |-> s, ch |-> c, olds |-> p[q].olds]
<1>1. one = [p EXCEPT ![q] = [p[q] EXCEPT !.pc = s]]
  OBVIOUS
<1>2. /\ one[q] = mid /\ mid \in Selection
      /\ one \in [Rollover!Requests -> Selection]
      /\ \A r \in Rollover!Requests \ {q} : one[r] = p[r]
  <2>1. [p[q] EXCEPT !.pc = s] = mid /\ mid \in Selection
    BY SelectionSet
  <2>2. one = [p EXCEPT ![q] = mid]
    BY <1>1, <2>1
  <2> HIDE DEF one, mid
  <2> QED
    BY <2>1, <2>2
<1>3. p' = [one EXCEPT ![q].ch = c]
  BY DEF Rollover!Goto
<1> HIDE DEF one
<1>4. [one EXCEPT ![q].ch = c] = [one EXCEPT ![q] = [one[q] EXCEPT !.ch = c]]
  OBVIOUS
<1>5. [one[q] EXCEPT !.ch = c] = new /\ new \in Selection
  BY <1>2, SelectionSet
<1>6. p' = [one EXCEPT ![q] = new]
  BY <1>3, <1>4, <1>5
<1> QED
  BY <1>2, <1>5, <1>6

\* A request begins, or a reader and an upload look the channel up.
LEMMA StartStep ==
  ASSUME Rollover!RequestsApart, ChannelInv, crossed # "yes", NEW q \in Rollover!Requests,
         Rollover!Start(q)
  PROVE  ChannelInv'
<1>1. p' \in [Rollover!Requests -> Selection] /\ p'[q].pc = "lookup" /\ p'[q].ch = None
      /\ p'[q].olds = p[q].olds /\ \A r \in Rollover!Requests \ {q} : p'[r] = p[r]
  BY GotoOK DEF Rollover!Start, ChannelInv, StepInv, Stages
<1>2. /\ q \notin Setters /\ p[q].pc = "idle" /\ (q \in Uploads => Rollover!MutexFree)
      /\ UNCHANGED <<channel, chosen, full, near, cached, fills, made, crossed>>
  BY DEF Rollover!Start, Rollover!db
<1>3. Rollover!TypeOK'
  BY <1>1, <1>2 DEF ChannelInv, Rollover!TypeOK, Selection
<1>4. StepInv'
  BY <1>1, <1>2 DEF ChannelInv, StepInv, Rollover!MutexFree, Rollover!Requests,
     Rollover!RequestsApart
<1>5. SelectedInv'
  BY <1>1, <1>2 DEF ChannelInv, SelectedInv, Rollover!Requests, Rollover!Selected
<1>6. CachedInv'
  BY <1>1, <1>2 DEF ChannelInv, CachedInv, Rollover!Requests
<1>7. crossed = "no" => FullInv' /\ CountInv'
  BY <1>1, <1>2 DEF ChannelInv, FullInv, CountInv, Rollover!Requests, Rollover!Selected
<1> QED
  BY <1>2, <1>3, <1>4, <1>5, <1>6, <1>7 DEF ChannelInv

\* The channel of a user is looked up.
LEMMA LookupStep ==
  ASSUME Rollover!RequestsApart, ChannelInv, crossed # "yes", NEW q \in Rollover!Requests,
         Rollover!Lookup(q)
  PROVE  ChannelInv'
<1>1. PICK s \in {"found", "fetched", "create", "done"}, c \in Channels \cup {None} :
        /\ Rollover!Goto(q, s, c)
        /\ s = "found" => c = cached /\ c # None
        /\ s = "fetched" => c \in Rollover!Selected
        /\ s = "create" => q \in Uploads /\ Rollover!Selected = {}
  BY DEF Rollover!Lookup, Rollover!Selected, ChannelInv, Rollover!TypeOK
<1>2. /\ p' \in [Rollover!Requests -> Selection] /\ p'[q].pc = s /\ p'[q].ch = c
      /\ p'[q].olds = p[q].olds /\ \A r \in Rollover!Requests \ {q} : p'[r] = p[r]
  BY <1>1, GotoOK DEF ChannelInv, StepInv, Stages
<1>3. /\ p[q].pc = "lookup" /\ q \notin Setters
      /\ UNCHANGED <<channel, chosen, full, near, cached, fills, made, crossed>>
  BY DEF Rollover!Lookup, Rollover!db, ChannelInv, StepInv
<1>4. Rollover!TypeOK'
  BY <1>2, <1>3 DEF ChannelInv, Rollover!TypeOK, Selection
<1>5. StepInv'
  BY <1>1, <1>2, <1>3 DEF ChannelInv, StepInv, Rollover!Requests, Rollover!RequestsApart,
     Rollover!Selected
<1>6. SelectedInv'
  BY <1>1, <1>2, <1>3 DEF ChannelInv, SelectedInv, Rollover!Requests, Rollover!Selected
<1>7. CachedInv'
  BY <1>1, <1>2, <1>3 DEF ChannelInv, CachedInv, Rollover!Requests
<1>8. ASSUME crossed = "no"
      PROVE  FullInv' /\ CountInv'
  <2>1. q \in Uploads /\ s = "found" => chosen[c] = "selected"
    BY <1>1, <1>3, <1>8 DEF ChannelInv, StepInv, CachedInv, FullInv
  <2> QED
    BY <1>1, <1>2, <1>3, <1>8, <2>1 DEF ChannelInv, FullInv, CountInv, Rollover!Requests,
       Rollover!Selected
<1> QED
  BY <1>3, <1>4, <1>5, <1>6, <1>7, <1>8 DEF ChannelInv

\* Fetch puts what it read into the cache.
LEMMA FillStep ==
  ASSUME Rollover!RequestsApart, ChannelInv, crossed # "yes", NEW q \in Rollover!Requests,
         Rollover!Fill(q)
  PROVE  ChannelInv'
<1>1. /\ p[q].pc = "fetched" /\ p[q].ch \in Channels /\ cached' = p[q].ch /\ q \notin Setters
      /\ crossed' = IF chosen[p[q].ch] # "selected" \/ Rollover!Choosing # {}
                    THEN "yes" ELSE crossed
      /\ UNCHANGED <<channel, chosen, full, near, fills, made>>
  BY DEF Rollover!Fill, Rollover!Crossed, Rollover!db, ChannelInv, StepInv
<1>2. /\ p' \in [Rollover!Requests -> Selection] /\ p'[q].pc = "found" /\ p'[q].ch = p[q].ch
      /\ p'[q].olds = p[q].olds /\ \A r \in Rollover!Requests \ {q} : p'[r] = p[r]
  BY <1>1, GotoOK DEF Rollover!Fill, ChannelInv, StepInv, Stages
<1>3. Rollover!TypeOK' /\ crossed' \in {"no", "chosen", "left", "yes"}
  BY <1>1, <1>2 DEF ChannelInv, Rollover!TypeOK, Selection
<1>4. StepInv'
  BY <1>1, <1>2 DEF ChannelInv, StepInv, Rollover!Requests, Rollover!RequestsApart
<1>5. crossed' # "yes" => SelectedInv'
  BY <1>1, <1>2 DEF ChannelInv, SelectedInv, Rollover!Requests, Rollover!Selected
<1>6. crossed' # "yes" => CachedInv'
  BY <1>1, <1>2 DEF CachedInv
<1>7. crossed' = "no" => FullInv' /\ CountInv'
  BY <1>1, <1>2 DEF ChannelInv, FullInv, CountInv, Rollover!Requests, Rollover!Selected
<1> QED
  BY <1>3, <1>4, <1>5, <1>6, <1>7 DEF ChannelInv

\* isChannelNearLimit decides whether an upload replaces the channel.
LEMMA DecideStep ==
  ASSUME Rollover!RequestsApart, ChannelInv, crossed # "yes", NEW q \in Rollover!Requests,
         Rollover!Decide(q)
  PROVE  ChannelInv'
<1> DEFINE c == p[q].ch
<1>1. /\ p[q].pc = "found" /\ c \in Channels /\ q \notin Setters
      /\ UNCHANGED <<channel, chosen, full, cached, fills, made, crossed>>
  BY DEF Rollover!Decide, ChannelInv, StepInv
<1>2. PICK s \in {"create", "done"} :
        /\ Rollover!Goto(q, s, c)
        /\ s = "create" => q \in Uploads /\ (c \in full \/ (c \in DOMAIN near /\ near[c]))
  BY DEF Rollover!Decide
<1>3. \/ near' = near
      \/ near' = [d \in DOMAIN near \cup {c} |-> IF d = c THEN c \in full ELSE near[d]]
  BY DEF Rollover!Decide
<1>4. /\ p' \in [Rollover!Requests -> Selection] /\ p'[q].pc = s /\ p'[q].ch = c
      /\ p'[q].olds = p[q].olds /\ \A r \in Rollover!Requests \ {q} : p'[r] = p[r]
  BY <1>1, <1>2, GotoOK DEF ChannelInv, StepInv, Stages
<1> HIDE DEF c
<1>5. Rollover!TypeOK'
  BY <1>1, <1>3, <1>4 DEF ChannelInv, Rollover!TypeOK, Selection
<1>6. StepInv'
  BY <1>1, <1>2, <1>4 DEF ChannelInv, StepInv, Rollover!Requests, Rollover!RequestsApart
<1>7. SelectedInv'
  BY <1>1, <1>2, <1>4 DEF ChannelInv, SelectedInv, Rollover!Requests, Rollover!Selected
<1>8. CachedInv'
  BY <1>1, <1>2, <1>4 DEF ChannelInv, CachedInv, Rollover!Requests
<1>9. ASSUME crossed = "no"
      PROVE  FullInv' /\ CountInv'
  <2>1. ASSUME NEW d \in DOMAIN near', near'[d]
        PROVE  d \in full'
    <3>1. /\ full' = full /\ \A e \in DOMAIN near : near[e] => e \in full
      BY <1>1, <1>9 DEF ChannelInv, FullInv
    <3>2. CASE near' = near
      BY <2>1, <3>1, <3>2, Zenon
    <3>3. CASE near' = [e \in DOMAIN near \cup {c} |-> IF e = c THEN c \in full ELSE near[e]]
      <4>1. d \in DOMAIN near \cup {c}
        BY <2>1, <3>3, Zenon
      <4>2. IF d = c THEN c \in full ELSE near[d]
        BY <2>1, <3>3, <4>1, Zenon
      <4> QED
        BY <3>1, <4>1, <4>2, Zenon
    <3> QED
      BY <1>3, <3>2, <3>3
  <2>2. s = "create" => Rollover!Selected \subseteq full
    BY <1>1, <1>2, <1>9 DEF ChannelInv, FullInv, SelectedInv, Rollover!Selected, c
  <2> QED
    BY <1>1, <1>2, <1>4, <1>9, <2>1, <2>2 DEF ChannelInv, FullInv, CountInv, Rollover!Requests,
       Rollover!Selected
<1> QED
  BY <1>1, <1>5, <1>6, <1>7, <1>8, <1>9 DEF ChannelInv

\* A channel is made on Telegram; the row is to follow.
LEMMA CreateStep ==
  ASSUME Rollover!RequestsApart, ChannelInv, crossed # "yes", NEW u \in Uploads,
         Rollover!Create(u)
  PROVE  ChannelInv'
<1>1. /\ p[u].pc = "create" /\ u \in Rollover!Requests /\ u \notin Setters
      /\ UNCHANGED <<chosen, full, near, cached, fills, made, crossed>>
  BY DEF Rollover!Create, Rollover!Requests, Rollover!RequestsApart
<1>2. PICK s \in {"commit", "done"}, c \in Channels \cup {None} :
        /\ Rollover!Goto(u, s, c)
        /\ s = "commit" => c \in Channels /\ channel[c] = "new"
  BY DEF Rollover!Create
<1>3. \/ channel' = channel
      \/ \E d \in Channels : channel' = [channel EXCEPT ![d] = "there"]
  BY DEF Rollover!Create
<1>4. /\ p' \in [Rollover!Requests -> Selection] /\ p'[u].pc = s /\ p'[u].ch = c
      /\ p'[u].olds = p[u].olds /\ \A r \in Rollover!Requests \ {u} : p'[r] = p[r]
  BY <1>1, <1>2, GotoOK DEF ChannelInv, StepInv, Stages
<1>5. Rollover!TypeOK'
  BY <1>1, <1>3, <1>4 DEF ChannelInv, Rollover!TypeOK, Selection
<1>6. StepInv'
  BY <1>1, <1>2, <1>4 DEF ChannelInv, StepInv, Rollover!Requests, Rollover!RequestsApart
<1>7. SelectedInv'
  BY <1>1, <1>2, <1>4 DEF ChannelInv, SelectedInv, Rollover!Requests, Rollover!Selected
<1>8. CachedInv'
  BY <1>1, <1>2, <1>4 DEF ChannelInv, CachedInv, Rollover!Requests
<1>9. ASSUME crossed = "no"
      PROVE  FullInv' /\ CountInv'
  <2>1. \A d \in full' : channel'[d] # "new"
    BY <1>1, <1>3, <1>9 DEF ChannelInv, FullInv, Rollover!TypeOK
  <2>2. s = "commit" => c \notin full
    BY <1>2, <1>9 DEF ChannelInv, FullInv
  <2> QED
    BY <1>1, <1>2, <1>4, <1>9, <2>1, <2>2 DEF ChannelInv, FullInv, CountInv, Rollover!Requests,
       Rollover!Selected
<1> QED
  BY <1>1, <1>5, <1>6, <1>7, <1>8, <1>9 DEF ChannelInv

\* A transaction notes the rows that it unselects, and forgets them at its end.
Noted(q, s, o) == p' = [p EXCEPT ![q].pc = s, ![q].olds = o]

\* A record of a request with other rows.
LEMMA OldsSet ==
  ASSUME NEW rec \in Selection, NEW o \in SUBSET Channels
  PROVE  /\ [rec EXCEPT !.olds = o] = [pc |-> rec.pc, ch |-> rec.ch, olds |-> o]
         /\ [pc |-> rec.pc, ch |-> rec.ch, olds |-> o] \in Selection
BY DEF Selection

\* It does nothing else to the request.
LEMMA TransactionOK ==
  ASSUME p \in [Rollover!Requests -> Selection], NEW q \in Rollover!Requests, NEW s \in Stages,
         NEW o \in SUBSET Channels, Noted(q, s, o)
  PROVE  /\ p' \in [Rollover!Requests -> Selection]
         /\ p'[q].pc = s /\ p'[q].ch = p[q].ch /\ p'[q].olds = o
         /\ \A r \in Rollover!Requests \ {q} : p'[r] = p[r]
<1> DEFINE one == [p EXCEPT ![q].pc = s]
           mid == [pc |-> s, ch |-> p[q].ch, olds |-> p[q].olds]
           new == [pc |-> s, ch |-> p[q].ch, olds |-> o]
<1>1. one = [p EXCEPT ![q] = [p[q] EXCEPT !.pc = s]]
  OBVIOUS
<1>2. /\ one[q] = mid /\ mid \in Selection
      /\ one \in [Rollover!Requests -> Selection]
      /\ \A r \in Rollover!Requests \ {q} : one[r] = p[r]
  <2>1. [p[q] EXCEPT !.pc = s] = mid /\ mid \in Selection
    <3>1. p[q] \in Selection /\ p[q].ch \in Channels \cup {None}
      BY DEF Selection
    <3> QED
      BY <3>1, SelectionSet
  <2>2. one = [p EXCEPT ![q] = mid]
    BY <1>1, <2>1
  <2> HIDE DEF one, mid
  <2> QED
    BY <2>1, <2>2
<1>3. p' = [one EXCEPT ![q].olds = o]
  BY DEF Noted
<1> HIDE DEF one
<1>4. [one EXCEPT ![q].olds = o] = [one EXCEPT ![q] = [one[q] EXCEPT !.olds = o]]
  OBVIOUS
<1>5. [one[q] EXCEPT !.olds = o] = new /\ new \in Selection
  <2>1. [mid EXCEPT !.olds = o] = [pc |-> mid.pc, ch |-> mid.ch, olds |-> o]
        /\ [pc |-> mid.pc, ch |-> mid.ch, olds |-> o] \in Selection
    <3> HIDE DEF mid
    <3> QED
      BY <1>2, OldsSet
  <2> QED
    BY <1>2, <2>1
<1>6. p' = [one EXCEPT ![q] = new]
  BY <1>3, <1>4, <1>5
<1> QED
  BY <1>2, <1>5, <1>6

\* The transaction of a new channel unselects the rows that are selected.
LEMMA UnselectStep ==
  ASSUME Rollover!RequestsApart, ChannelInv, crossed # "yes", NEW u \in Uploads,
         Rollover!Unselect(u)
  PROVE  ChannelInv'
<1>1. /\ p[u].pc = "commit" /\ u \in Rollover!Requests /\ u \notin Setters
      /\ crossed' = IF Rollover!Choosing # {u} THEN "yes" ELSE crossed
      /\ UNCHANGED <<channel, chosen, full, near, cached, fills, made>>
  BY DEF Rollover!Unselect, Rollover!Crossed, Rollover!db, Rollover!Requests, Rollover!RequestsApart
<1>2. /\ p' \in [Rollover!Requests -> Selection] /\ p'[u].pc = "inserted" /\ p'[u].ch = p[u].ch
      /\ p'[u].olds = Rollover!Selected /\ \A r \in Rollover!Requests \ {u} : p'[r] = p[r]
  <2>1. Noted(u, "inserted", Rollover!Selected)
    BY DEF Noted, Rollover!Unselect
  <2> QED
    BY <1>1, <2>1, TransactionOK DEF Rollover!Selected, ChannelInv, StepInv, Stages
<1>3. Rollover!TypeOK' /\ crossed' \in {"no", "chosen", "left", "yes"}
  BY <1>1, <1>2 DEF ChannelInv, Rollover!TypeOK, Selection
<1>4. StepInv'
  BY <1>1, <1>2 DEF ChannelInv, StepInv, Rollover!Requests, Rollover!RequestsApart
<1>5. ASSUME crossed' # "yes"
      PROVE  SelectedInv'
  <2>1. \A s \in Setters : p'[s] = p[s] /\ p[s].pc \notin {"upserted", "unselected"}
    BY <1>1, <1>2, <1>5 DEF Rollover!Choosing, Rollover!Requests
  <2> QED
    BY <1>1, <1>2, <1>5, <2>1 DEF ChannelInv, SelectedInv, StepInv, Rollover!Requests, Rollover!Selected
<1>6. CachedInv'
  BY <1>1, <1>2 DEF ChannelInv, CachedInv, Rollover!Requests
<1>7. crossed' = "no" => FullInv' /\ CountInv'
  BY <1>1, <1>2 DEF ChannelInv, FullInv, CountInv, Rollover!Requests, Rollover!Selected
<1> QED
  BY <1>1, <1>3, <1>4, <1>5, <1>6, <1>7 DEF ChannelInv

\* The new row is selected, or the transaction fails.
LEMMA CommitStep ==
  ASSUME Rollover!RequestsApart, ChannelInv, crossed # "yes", NEW u \in Uploads,
         Rollover!Commit(u)
  PROVE  ChannelInv'
<1>1. /\ p[u].pc = "inserted" /\ u \in Rollover!Requests /\ u \notin Setters /\ p[u].ch \in Channels
      /\ crossed' = "yes" \/ Rollover!Choosing = {u}
      /\ UNCHANGED <<channel, full, near, cached, fills>>
  BY DEF Rollover!Commit, Rollover!Crossed, Rollover!Completed, Rollover!Requests, Rollover!RequestsApart,
     ChannelInv, StepInv
<1>2. CASE /\ chosen' = [c \in Channels |->
                           IF c = p[u].ch THEN "selected"
                           ELSE IF c \in p[u].olds /\ chosen[c] # "none"
                           THEN "plain" ELSE chosen[c]]
           /\ p' = [p EXCEPT ![u].pc = "committed", ![u].olds = {}]
           /\ made' = made + 1 /\ Rollover!Completed(u)
  <2>0. crossed' = "yes" \/ crossed' = crossed \/ (crossed = "left" /\ crossed' = "chosen")
    BY <1>2 DEF Rollover!Completed
  <2>1. /\ p' \in [Rollover!Requests -> Selection] /\ p'[u].pc = "committed" /\ p'[u].ch = p[u].ch
        /\ p'[u].olds = {} /\ \A r \in Rollover!Requests \ {u} : p'[r] = p[r]
    <3>1. Noted(u, "committed", {})
      BY <1>2 DEF Noted
    <3> QED
      BY <1>1, <3>1, TransactionOK DEF ChannelInv, StepInv, Stages
  <2>2. Rollover!TypeOK' /\ crossed' \in {"no", "chosen", "left", "yes"}
    BY <1>1, <1>2, <2>0, <2>1 DEF ChannelInv, Rollover!TypeOK, Selection
  <2>3. StepInv'
    BY <1>1, <2>1 DEF ChannelInv, StepInv, Rollover!Requests, Rollover!RequestsApart
  <2>4. \A c \in Channels : chosen'[c] = "selected" => c = p[u].ch
    BY <1>1, <1>2 DEF ChannelInv, SelectedInv, Rollover!Selected
  <2>5. ASSUME crossed' # "yes"
        PROVE  SelectedInv'
    <3>1. \A s \in Setters : p'[s] = p[s] /\ p[s].pc \notin {"upserted", "unselected"}
      BY <1>1, <2>1, <2>5 DEF Rollover!Choosing, Rollover!Requests
    <3>2. \A v \in Uploads : p'[v].pc # "inserted"
      BY <1>1, <2>1 DEF ChannelInv, StepInv, Rollover!Requests
    <3> QED
      BY <2>4, <3>1, <3>2 DEF SelectedInv
  <2>6. CachedInv'
    BY <2>1 DEF CachedInv
  <2>7. ASSUME crossed' = "no"
        PROVE  FullInv' /\ CountInv'
    <3>1. crossed = "no" /\ FullInv /\ CountInv
      BY <2>0, <2>7 DEF ChannelInv
    <3>2. \A v \in Uploads : p'[v].pc \in {"idle", "done", "committed"}
      BY <1>1, <2>1 DEF ChannelInv, StepInv, Rollover!Requests
    <3>3. FullInv'
      BY <1>1, <2>1, <3>1, <3>2 DEF FullInv, Rollover!Requests
    <3>4. made <= fills /\ (p[u].ch \in full => made + 1 <= fills) /\ fills \in Int /\ made \in Int
      BY <1>1, <3>1 DEF FullInv, CountInv, ChannelInv, Rollover!TypeOK
    <3>5. Rollover!Selected' \subseteq full' => p[u].ch \in full
      BY <1>1, <1>2 DEF Rollover!Selected
    <3>6. made' <= fills' + 1 /\ (Rollover!Selected' \subseteq full' => made' <= fills')
      BY <1>1, <1>2, <3>4, <3>5
    <3> QED
      BY <3>2, <3>3, <3>6 DEF CountInv
  <2> QED
    BY <1>1, <2>2, <2>3, <2>5, <2>6, <2>7 DEF ChannelInv
<1>3. CASE /\ p' = [p EXCEPT ![u] = [Rollover!Idle EXCEPT !.pc = "done"]]
           /\ Rollover!Crossed(Rollover!Choosing # {u}) /\ UNCHANGED <<chosen, made>>
  <2>0. crossed' = "yes" \/ crossed' = crossed
    BY <1>3 DEF Rollover!Crossed
  <2>1. /\ p' \in [Rollover!Requests -> Selection] /\ p'[u].pc = "done"
        /\ \A r \in Rollover!Requests \ {u} : p'[r] = p[r]
    <3>1. [Rollover!Idle EXCEPT !.pc = "done"] = [pc |-> "done", ch |-> None, olds |-> {}]
      BY DEF Rollover!Idle
    <3>2. [pc |-> "done", ch |-> None, olds |-> {}] \in Selection
      BY DEF Selection, Stages
    <3> QED
      BY <1>1, <1>3, <3>1, <3>2 DEF ChannelInv, StepInv
  <2>2. Rollover!TypeOK' /\ crossed' \in {"no", "chosen", "left", "yes"}
    BY <1>1, <1>3, <2>0, <2>1 DEF ChannelInv, Rollover!TypeOK, Selection
  <2>3. StepInv'
    BY <1>1, <2>1 DEF ChannelInv, StepInv, Rollover!Requests, Rollover!RequestsApart
  <2>4. crossed' # "yes" => SelectedInv'
    BY <2>0, <1>1, <1>3, <2>1 DEF ChannelInv, SelectedInv, Rollover!Requests, Rollover!Selected
  <2>5. CachedInv'
    BY <1>1, <1>3, <2>1 DEF ChannelInv, CachedInv, Rollover!Requests
  <2>6. crossed' = "no" => FullInv' /\ CountInv'
    BY <2>0, <1>1, <1>3, <2>1 DEF ChannelInv, FullInv, CountInv, Rollover!Requests, Rollover!Selected
  <2> QED
    BY <1>1, <2>2, <2>3, <2>4, <2>5, <2>6 DEF ChannelInv
<1> QED
  BY <1>2, <1>3 DEF Rollover!Commit

\* The cache forgets the channel that was replaced.
LEMMA InvalidateStep ==
  ASSUME Rollover!RequestsApart, ChannelInv, crossed # "yes", NEW u \in Uploads,
         Rollover!Invalidate(u)
  PROVE  ChannelInv'
<1>1. /\ p[u].pc = "committed" /\ u \in Rollover!Requests /\ u \notin Setters
      /\ p[u].ch \in Channels /\ cached' = None
      /\ UNCHANGED <<channel, chosen, full, near, fills, made, crossed>>
  BY DEF Rollover!Invalidate, Rollover!Invalidated, Rollover!db, Rollover!Requests,
     Rollover!RequestsApart, ChannelInv, StepInv
<1>2. /\ p' \in [Rollover!Requests -> Selection] /\ p'[u].pc = "done" /\ p'[u].ch = p[u].ch
      /\ p'[u].olds = p[u].olds /\ \A r \in Rollover!Requests \ {u} : p'[r] = p[r]
  BY <1>1, GotoOK DEF Rollover!Invalidate, ChannelInv, StepInv, Stages
<1>3. Rollover!TypeOK' /\ CachedInv'
  BY <1>1, <1>2 DEF ChannelInv, Rollover!TypeOK, Selection, CachedInv
<1>4. StepInv'
  BY <1>1, <1>2 DEF ChannelInv, StepInv, Rollover!Requests, Rollover!RequestsApart
<1>5. SelectedInv'
  BY <1>1, <1>2 DEF ChannelInv, SelectedInv, Rollover!Requests, Rollover!Selected
<1>6. crossed = "no" => FullInv' /\ CountInv'
  BY <1>1, <1>2 DEF ChannelInv, FullInv, CountInv, Rollover!Requests, Rollover!Selected
<1> QED
  BY <1>1, <1>3, <1>4, <1>5, <1>6 DEF ChannelInv

\* The user chooses a channel, whose row is selected beside the one that was.
LEMMA UpsertStep ==
  ASSUME Rollover!RequestsApart, ChannelInv, crossed # "yes", NEW q \in Setters,
         Rollover!Upsert(q)
  PROVE  ChannelInv'
<1>1. PICK c \in Channels :
        chosen' = [chosen EXCEPT ![c] = "selected"] /\ Rollover!Goto(q, "upserted", c)
  BY DEF Rollover!Upsert
<1>2. /\ p[q].pc = "idle" /\ q \in Rollover!Requests /\ q \notin Uploads /\ q \notin Readers
      /\ crossed' = IF Rollover!Choosing # {} THEN "yes"
                    ELSE IF crossed = "left" THEN "left" ELSE "chosen"
      /\ UNCHANGED <<channel, full, near, cached, fills, made>>
  BY DEF Rollover!Upsert, Rollover!Requests, Rollover!RequestsApart
<1>3. /\ p' \in [Rollover!Requests -> Selection] /\ p'[q].pc = "upserted" /\ p'[q].ch = c
      /\ p'[q].olds = p[q].olds /\ \A r \in Rollover!Requests \ {q} : p'[r] = p[r]
  BY <1>1, <1>2, GotoOK DEF ChannelInv, StepInv, Stages
<1>4. Rollover!TypeOK' /\ crossed' \in {"no", "chosen", "left", "yes"} /\ crossed' # "no"
  BY <1>1, <1>2, <1>3 DEF ChannelInv, Rollover!TypeOK, Selection
<1>5. StepInv'
  BY <1>2, <1>3 DEF ChannelInv, StepInv, Rollover!Requests
<1>6. ASSUME crossed' # "yes"
      PROVE  SelectedInv' /\ CachedInv'
  <2>1. /\ \A s \in Setters \ {q} : p'[s] = p[s] /\ p[s].pc \notin {"upserted", "unselected"}
        /\ \A u \in Uploads : p'[u] = p[u] /\ p[u].pc # "inserted"
    BY <1>2, <1>3, <1>6 DEF Rollover!Choosing, Rollover!Requests
  <2>2. chosen'[c] = "selected"
    BY <1>1 DEF ChannelInv, Rollover!TypeOK
  <2> QED
    BY <1>2, <1>3, <2>1, <2>2 DEF SelectedInv, CachedInv
<1> QED
  BY <1>4, <1>5, <1>6 DEF ChannelInv

\* The other rows are unselected.
LEMMA OthersStep ==
  ASSUME Rollover!RequestsApart, ChannelInv, crossed # "yes", NEW q \in Setters,
         Rollover!UnselectOthers(q)
  PROVE  ChannelInv'
<1> DEFINE c == p[q].ch
<1>1. /\ p[q].pc = "upserted" /\ q \in Rollover!Requests /\ q \notin Uploads /\ q \notin Readers
      /\ c \in Channels
      /\ \/ /\ chosen' = [d \in Channels |->
                           IF d # c /\ chosen[d] = "selected" THEN "plain" ELSE chosen[d]]
            /\ crossed' \in {"yes", "chosen", crossed}
         \/ chosen' = chosen /\ crossed' \in {"yes", "left"}
      /\ crossed' = "yes" \/ Rollover!Choosing = {q}
      /\ UNCHANGED <<channel, full, near, cached, fills, made>>
  BY DEF Rollover!UnselectOthers, Rollover!Others, Rollover!Completed, Rollover!Requests,
     Rollover!RequestsApart, ChannelInv, StepInv
<1>2. /\ p' \in [Rollover!Requests -> Selection] /\ p'[q].pc = "unselected" /\ p'[q].ch = c
      /\ p'[q].olds = p[q].olds /\ \A r \in Rollover!Requests \ {q} : p'[r] = p[r]
  BY <1>1, GotoOK DEF Rollover!UnselectOthers, ChannelInv, StepInv, Stages
<1>3. /\ Rollover!TypeOK' /\ crossed' \in {"no", "chosen", "left", "yes"}
      /\ crossed # "no" /\ crossed' # "no"
  BY <1>1, <1>2 DEF ChannelInv, Rollover!TypeOK, Selection, FullInv
<1>4. StepInv'
  BY <1>1, <1>2 DEF ChannelInv, StepInv, Rollover!Requests
<1>5. ASSUME crossed' # "yes"
      PROVE  SelectedInv' /\ CachedInv'
  <2>1. /\ \A s \in Setters \ {q} : p'[s] = p[s] /\ p[s].pc \notin {"upserted", "unselected"}
        /\ \A u \in Uploads : p'[u] = p[u] /\ p[u].pc # "inserted"
    BY <1>1, <1>2, <1>5 DEF Rollover!Choosing, Rollover!Requests
  <2>2. /\ chosen'[c] = "selected"
        /\ crossed' # "left" => \A d \in Channels : chosen'[d] = "selected" => d = c
    BY <1>1, <1>5 DEF ChannelInv, SelectedInv
  <2> HIDE DEF c
  <2> QED
    BY <1>1, <1>2, <2>1, <2>2 DEF SelectedInv, CachedInv
<1> QED
  BY <1>3, <1>4, <1>5 DEF ChannelInv

\* The cache gets the channel that was chosen.
LEMMA SetCacheStep ==
  ASSUME Rollover!RequestsApart, ChannelInv, crossed # "yes", NEW q \in Setters,
         Rollover!SetCache(q)
  PROVE  ChannelInv'
<1> DEFINE c == p[q].ch
<1>1. /\ p[q].pc = "unselected" /\ q \in Rollover!Requests /\ q \notin Uploads /\ q \notin Readers
      /\ c \in Channels /\ cached' = c
      /\ crossed' = IF Rollover!Choosing # {q} \/ chosen[c] # "selected" THEN "yes" ELSE crossed
      /\ UNCHANGED <<channel, chosen, full, near, fills, made>>
  BY DEF Rollover!SetCache, Rollover!Crossed, Rollover!db, Rollover!Requests,
     Rollover!RequestsApart, ChannelInv, StepInv
<1>2. /\ p' \in [Rollover!Requests -> Selection] /\ p'[q].pc = "done" /\ p'[q].ch = c
      /\ p'[q].olds = p[q].olds /\ \A r \in Rollover!Requests \ {q} : p'[r] = p[r]
  BY <1>1, GotoOK DEF Rollover!SetCache, ChannelInv, StepInv, Stages
<1>3. /\ Rollover!TypeOK' /\ crossed' \in {"no", "chosen", "left", "yes"}
      /\ crossed # "no" /\ crossed' # "no"
  BY <1>1, <1>2 DEF ChannelInv, Rollover!TypeOK, Selection, FullInv
<1>4. StepInv'
  BY <1>1, <1>2 DEF ChannelInv, StepInv, Rollover!Requests
<1>5. crossed' # "yes" => CachedInv'
  BY <1>1 DEF CachedInv
<1>6. crossed' # "yes" => SelectedInv'
  BY <1>1, <1>2 DEF ChannelInv, SelectedInv, Rollover!Requests, Rollover!Selected
<1> QED
  BY <1>3, <1>4, <1>5, <1>6 DEF ChannelInv

\* Steps of nobody's request: a channel is deleted, which ends the run, a channel fills
\* up, an answer expires.
LEMMA OutsideStep ==
  ASSUME Rollover!RequestsApart, ChannelInv, crossed # "yes",
         Rollover!DeleteChannel \/ Rollover!FillUp \/ Rollover!Expire
  PROVE  ChannelInv'
<1>1. StepInv' /\ p' = p
  BY DEF Rollover!DeleteChannel, Rollover!FillUp, Rollover!Expire, ChannelInv, StepInv
<1>2. CASE Rollover!DeleteChannel
  BY <1>1, <1>2 DEF Rollover!DeleteChannel, ChannelInv, Rollover!TypeOK
<1>3. CASE Rollover!FillUp
  <2>1. PICK c \in Channels \ full : channel[c] = "there" /\ full' = full \cup {c}
    BY <1>3 DEF Rollover!FillUp
  <2>2. /\ fills < MaxFills /\ fills' = fills + 1
        /\ UNCHANGED <<channel, chosen, near, cached, made, crossed>>
    BY <1>3 DEF Rollover!FillUp
  <2>3. Rollover!TypeOK'
    BY <1>1, <2>1, <2>2 DEF ChannelInv, Rollover!TypeOK, Rollover!RequestsApart
  <2>4. SelectedInv' /\ CachedInv'
    BY <1>1, <2>2 DEF ChannelInv, SelectedInv, CachedInv, Rollover!Selected
  <2>5. ASSUME crossed = "no"
        PROVE  FullInv' /\ CountInv'
    <3>1. FullInv /\ CountInv /\ fills \in Int /\ made \in Int
      BY <2>5 DEF ChannelInv, Rollover!TypeOK
    <3>2. FullInv'
      BY <1>1, <2>1, <2>2, <3>1 DEF FullInv, Rollover!Selected
    <3>3. CountInv'
      BY <1>1, <2>1, <2>2, <3>1 DEF FullInv, CountInv
    <3> QED
      BY <3>2, <3>3
  <2> QED
    BY <1>1, <2>2, <2>3, <2>4, <2>5 DEF ChannelInv
<1>4. CASE Rollover!Expire
  <2>1. /\ UNCHANGED <<channel, chosen, full, cached, fills, made, crossed>>
        /\ \E c \in DOMAIN near : near' = [d \in DOMAIN near \ {c} |-> near[d]]
    BY <1>4 DEF Rollover!Expire
  <2>2. Rollover!TypeOK'
    BY <1>1, <2>1 DEF ChannelInv, Rollover!TypeOK
  <2>3. SelectedInv' /\ CachedInv'
    BY <1>1, <2>1 DEF ChannelInv, SelectedInv, CachedInv, Rollover!Selected
  <2>4. ASSUME crossed = "no"
        PROVE  FullInv' /\ CountInv'
    <3>1. \A d \in DOMAIN near' : d \in DOMAIN near /\ near'[d] = near[d]
      BY <2>1
    <3> QED
      BY <1>1, <2>1, <2>4, <3>1 DEF ChannelInv, FullInv, CountInv, Rollover!Selected
  <2> QED
    BY <1>1, <2>1, <2>2, <2>3, <2>4 DEF ChannelInv
<1> QED
  BY <1>2, <1>3, <1>4

\* The invariant is one.
THEOREM ChannelInvariance == Spec => []ChannelInv
<1>1. Rollover!Init => ChannelInv
  <2> SUFFICES ASSUME Rollover!Init
               PROVE  ChannelInv
    OBVIOUS
  <2>1. Rollover!Selected = {}
    BY DEF Rollover!Init, Rollover!Selected
  <2>2. \A q \in Rollover!Requests : p[q] = [pc |-> "idle", ch |-> None, olds |-> {}]
    BY DEF Rollover!Init, Rollover!Idle
  <2>3. Rollover!TypeOK
    BY <2>2, RequestsAssumption DEF Rollover!Init, Rollover!TypeOK, Rollover!RequestsApart
  <2>4. StepInv
    BY <2>2 DEF Rollover!Init, Rollover!Idle, StepInv, Selection, Stages, Rollover!Requests
  <2>5. SelectedInv /\ CachedInv
    BY <2>2 DEF Rollover!Init, SelectedInv, CachedInv, Rollover!Requests
  <2>6. FullInv /\ CountInv
    BY <2>1, <2>2 DEF Rollover!Init, FullInv, CountInv, Rollover!Requests
  <2> QED
    BY <2>3, <2>4, <2>5, <2>6 DEF Rollover!Init, ChannelInv
<1>2. ChannelInv /\ [Rollover!Next]_Rollover!vars => ChannelInv'
  <2> SUFFICES ASSUME ChannelInv, [Rollover!Next]_Rollover!vars
               PROVE  ChannelInv'
    OBVIOUS
  <2>1. CASE UNCHANGED Rollover!vars
    BY <2>1 DEF Rollover!vars, ChannelInv, Rollover!TypeOK, StepInv, SelectedInv, CachedInv,
       FullInv, CountInv, Rollover!Selected
  <2>2. CASE Rollover!Next
    <3>1. crossed # "yes"
      BY <2>2 DEF Rollover!Next
    <3>2. ASSUME NEW q \in Rollover!Requests,
                 Rollover!Start(q) \/ Rollover!Lookup(q) \/ Rollover!Fill(q) \/ Rollover!Decide(q)
          PROVE  ChannelInv'
      BY <3>1, <3>2, RequestsAssumption, StartStep, LookupStep, FillStep, DecideStep
    <3>3. ASSUME NEW u \in Uploads,
                 \/ Rollover!Create(u) \/ Rollover!Unselect(u)
                 \/ Rollover!Commit(u) \/ Rollover!Invalidate(u)
          PROVE  ChannelInv'
      BY <3>1, <3>3, RequestsAssumption, CreateStep, UnselectStep, CommitStep, InvalidateStep
    <3>4. ASSUME NEW s \in Setters,
                 Rollover!Upsert(s) \/ Rollover!UnselectOthers(s) \/ Rollover!SetCache(s)
          PROVE  ChannelInv'
      BY <3>1, <3>4, RequestsAssumption, UpsertStep, OthersStep, SetCacheStep
    <3> QED
      BY <2>2, <3>1, <3>2, <3>3, <3>4, RequestsAssumption, OutsideStep DEF Rollover!Next
  <2> QED
    BY <2>1, <2>2
<1> QED
  BY <1>1, <1>2, ChannelsRun, PTL DEF Rollover!Spec

\* However many parts are uploaded at once, and however the steps of their requests mix, a
\* channel that fills up is replaced by one new channel; when no request is under way the
\* cache names a selected channel, and one is selected at most, unless the last choice
\* failed to unselect the others (GetChannelForUpload, CreateNewChannel,
\* UsersUpdateChannel).  Choices that met another one are excepted.
THEOREM OneChannelSelected == Spec => []OneChannel
<1>1. ASSUME ChannelInv
      PROVE  Rollover!OneChannelPerFill
  BY <1>1 DEF ChannelInv, CountInv, Rollover!OneChannelPerFill
<1>2. ASSUME ChannelInv, crossed # "yes", \A q \in Rollover!Requests : p[q].pc \in {"idle", "done"}
      PROVE  /\ crossed # "left" => \A c, d \in Rollover!Selected : c = d
             /\ cached # None => cached \in Rollover!Selected
  BY <1>2 DEF ChannelInv, SelectedInv, CachedInv, Rollover!TypeOK, Rollover!Requests,
     Rollover!Selected
<1>3. ASSUME ChannelInv
      PROVE  Rollover!SelectionAgrees
  BY <1>2, <1>3 DEF Rollover!SelectionAgrees
<1>4. ChannelInv => OneChannel
  BY <1>1, <1>3 DEF OneChannel
<1> QED
  BY <1>4, ChannelInvariance, PTL

-----------------------------------------------------------------------------
(***************************************************************************)
(* The check command.  It decides on messages and rows that it read at     *)
(* different times; what it may conclude is what the history of the rows   *)
(* says has not changed since.                                             *)
(***************************************************************************)
\* The record of the command has its fields.
CheckShape ==
  ck = [step |-> ck.step, files |-> ck.files, msgs |-> ck.msgs, bad |-> ck.bad,
        orphans |-> ck.orphans, listed |-> ck.listed, intact |-> ck.intact]

\* The rows that nobody has written since the command read them, itself included.
Unmarked == IF ck.step = "orphans" THEN ck.intact \ ck.bad ELSE ck.intact

\* A row unwritten since the command read it still has the parts that it read.
ReadInv ==
  \A r \in Unmarked : r \in Rows /\ r \in DOMAIN ck.files /\ ck.files[r] = file[r].parts

\* A message listed all along has its part row, and is not taken for an orphan.
ListedInv == ck.listed \subseteq Check!Listing /\ ck.orphans \cap ck.listed = {}

\* Nor is a part of an unwritten file that lacks none; the others are being marked.
OrphanInv ==
  ck.step \in {"mark", "orphans"} =>
    \A r \in ck.intact \ ck.bad : ck.files[r] \subseteq Msgs \ ck.orphans

CheckInv == CheckShape /\ ReadInv /\ ListedInv /\ OrphanInv

\* A step of the server takes from the history what it changed.
LEMMA ServerStep ==
  ASSUME CheckInv, Check!Server
  PROVE  CheckInv'
<1>1. ck' = [ck EXCEPT !.listed = @ \cap Check!Listing', !.intact = {r \in @ : file'[r] = file[r]}]
  BY DEF Check!Server, Check!Remember
<1>2. ck' = [step |-> ck.step, files |-> ck.files, msgs |-> ck.msgs, bad |-> ck.bad,
             orphans |-> ck.orphans, listed |-> ck.listed \cap Check!Listing',
             intact |-> {r \in ck.intact : file'[r] = file[r]}]
  BY <1>1 DEF CheckInv, CheckShape
<1>3. /\ ck'.step = ck.step /\ ck'.files = ck.files /\ ck'.bad = ck.bad
      /\ ck'.orphans = ck.orphans /\ ck'.listed = ck.listed \cap Check!Listing'
      /\ ck'.intact = {r \in ck.intact : file'[r] = file[r]}
  BY <1>2
<1>4. CheckShape'
  BY <1>2 DEF CheckShape
<1>5. ReadInv'
  BY <1>3 DEF CheckInv, ReadInv, Unmarked
<1>6. ListedInv'
  BY <1>3 DEF CheckInv, ListedInv
<1>7. OrphanInv'
  BY <1>3 DEF CheckInv, OrphanInv
<1> QED
  BY <1>4, <1>5, <1>6, <1>7 DEF CheckInv

\* Between runs the command knows nothing.
LEMMA IdleCheck ==
  ASSUME ck' = Check!NoCheck
  PROVE  CheckInv'
<1>1. /\ CheckShape' /\ ck'.step = "idle" /\ ck'.intact = {} /\ ck'.orphans = {} /\ ck'.listed = {}
  BY DEF Check!NoCheck, CheckShape
<1> QED
  BY <1>1 DEF CheckInv, ReadInv, Unmarked, ListedInv, OrphanInv

\* loadFiles: all rows are read, the active ones and the listed messages remembered.
LEMMA LoadFilesStep ==
  ASSUME CheckInv, Check!loadFiles
  PROVE  CheckInv'
<1> DEFINE live == {r \in Rows : file[r].status /= "free"}
           held == [r \in live |-> file[r].parts]
<1>1. /\ ck' = [Check!NoCheck EXCEPT !.step = "files", !.files = held,
                  !.listed = Check!Listing, !.intact = Check!Active]
      /\ file' = file /\ row' = row
  BY DEF Check!loadFiles, Check!vars
<1>2. ck' = [step |-> "files", files |-> held, msgs |-> {}, bad |-> {}, orphans |-> {},
             listed |-> Check!Listing, intact |-> Check!Active]
  BY <1>1 DEF Check!NoCheck
<1>3. Check!Active \subseteq live
  BY DEF Check!Active
<1>4. \A r \in live : r \in Rows /\ r \in DOMAIN held /\ held[r] = file[r].parts
  OBVIOUS
<1> HIDE DEF live, held
<1>5. /\ ck'.step = "files" /\ ck'.files = held /\ ck'.orphans = {}
      /\ ck'.listed = Check!Listing /\ ck'.intact = Check!Active
  BY <1>2
<1>6. CheckShape'
  BY <1>2 DEF CheckShape
<1>7. ReadInv'
  BY <1>1, <1>3, <1>4, <1>5 DEF ReadInv, Unmarked
<1>8. ListedInv'
  BY <1>1, <1>5 DEF ListedInv, Check!Listing
<1>9. OrphanInv'
  BY <1>5 DEF OrphanInv
<1> QED
  BY <1>6, <1>7, <1>8, <1>9 DEF CheckInv

\* loadChannelMessages: the messages come later than the rows, which changes nothing of
\* what is remembered.
LEMMA LoadMessagesStep ==
  ASSUME CheckInv, Check!loadChannelMessages
  PROVE  CheckInv'
<1>1. CASE ck' = Check!NoCheck
  BY <1>1, IdleCheck
<1>2. ASSUME NEW seen, ck' = [ck EXCEPT !.step = "messages", !.msgs = seen]
      PROVE  CheckInv'
  <2>1. ck' = [step |-> "messages", files |-> ck.files, msgs |-> seen, bad |-> ck.bad,
               orphans |-> ck.orphans, listed |-> ck.listed, intact |-> ck.intact]
    BY <1>2 DEF CheckInv, CheckShape
  <2>2. /\ ck'.step = "messages" /\ ck'.files = ck.files /\ ck'.orphans = ck.orphans
        /\ ck'.listed = ck.listed /\ ck'.intact = ck.intact
    BY <2>1
  <2>3. file' = file /\ row' = row /\ ck.step = "files"
    BY DEF Check!loadChannelMessages, Check!vars
  <2>4. Unmarked' = Unmarked
    BY <2>2, <2>3 DEF Unmarked
  <2>5. CheckShape' /\ ReadInv' /\ OrphanInv'
    BY <2>1, <2>2, <2>3, <2>4 DEF CheckInv, CheckShape, ReadInv, OrphanInv
  <2>6. ListedInv'
    BY <2>2, <2>3 DEF CheckInv, ListedInv, Check!Listing
  <2> QED
    BY <2>5, <2>6 DEF CheckInv
<1> QED
  BY <1>1, <1>2 DEF Check!loadChannelMessages

\* The part rows are read last: a message listed all along is known there, and the
\* parts of a row that lacks none are all counted.
LEMMA CompareStep ==
  ASSUME CheckInv, Check!ComparePartRows
  PROVE  CheckInv'
<1>1. PICK counted \in SUBSET Msgs :
        /\ Check!Counted(counted)
        /\ ck' = IF counted = {} THEN Check!NoCheck
                 ELSE [ck EXCEPT !.step = "mark", !.bad = Check!Missing,
                                 !.orphans = Check!Known \ counted]
  BY DEF Check!ComparePartRows
<1>2. file' = file /\ row' = row /\ ck.step = "messages"
  BY DEF Check!ComparePartRows, Check!vars
<1>3. CASE counted = {}
  BY <1>1, <1>3, IdleCheck
<1>4. CASE counted # {}
  <2>1. ck' = [step |-> "mark", files |-> ck.files, msgs |-> ck.msgs, bad |-> Check!Missing,
               orphans |-> Check!Known \ counted, listed |-> ck.listed, intact |-> ck.intact]
    BY <1>1, <1>4 DEF CheckInv, CheckShape
  <2>2. /\ ck'.step = "mark" /\ ck'.files = ck.files /\ ck'.bad = Check!Missing
        /\ ck'.orphans = Check!Known \ counted
        /\ ck'.listed = ck.listed /\ ck'.intact = ck.intact
    BY <2>1
  <2>3. \A r \in DOMAIN ck.files \ Check!Missing : ck.files[r] \subseteq counted
    BY <1>1 DEF Check!Counted
  <2>4. Unmarked' = Unmarked /\ Unmarked = ck.intact
    BY <1>2, <2>2 DEF Unmarked
  <2>5. CheckShape' /\ ReadInv'
    BY <1>2, <2>1, <2>2, <2>4 DEF CheckInv, CheckShape, ReadInv
  <2>6. ListedInv'
    BY <1>2, <2>2 DEF CheckInv, ListedInv, Check!Listing, Check!Known
  <2>7. OrphanInv'
    <3>1. ASSUME NEW r \in ck'.intact \ ck'.bad
          PROVE  ck'.files[r] \subseteq Msgs \ ck'.orphans
      <4>1. r \in DOMAIN ck.files
        BY <2>2, <2>4, <3>1 DEF CheckInv, ReadInv
      <4>2. ck.files[r] \subseteq counted /\ counted \subseteq Msgs
        BY <2>2, <2>3, <3>1, <4>1
      <4> QED
        BY <2>2, <4>2
    <3> QED
      BY <3>1 DEF OrphanInv
  <2> QED
    BY <2>5, <2>6, <2>7 DEF CheckInv
<1> QED
  BY <1>3, <1>4

\* The files with a missing part are written, and are not remembered any more.
LEMMA MarkStep ==
  ASSUME CheckInv, Check!MarkMissing
  PROVE  CheckInv'
<1>1. CASE ck' = Check!NoCheck
  BY <1>1, IdleCheck
<1>2. ASSUME file' = [r \in Rows |-> IF r \in ck.bad /\ file[r].status /= "free"
                                     THEN [file[r] EXCEPT !.status = "pending"] ELSE file[r]],
             ck' = [ck EXCEPT !.step = "orphans"]
      PROVE  CheckInv'
  <2>1. ck' = [step |-> "orphans", files |-> ck.files, msgs |-> ck.msgs, bad |-> ck.bad,
               orphans |-> ck.orphans, listed |-> ck.listed, intact |-> ck.intact]
    BY <1>2 DEF CheckInv, CheckShape
  <2>2. /\ ck'.step = "orphans" /\ ck'.files = ck.files /\ ck'.bad = ck.bad
        /\ ck'.orphans = ck.orphans /\ ck'.listed = ck.listed /\ ck'.intact = ck.intact
    BY <2>1
  <2>3. \A r \in Rows \ ck.bad : file'[r] = file[r]
    BY <1>2
  <2>4. row' = row /\ ck.step = "mark"
    BY DEF Check!MarkMissing
  <2>5. CheckShape' /\ ReadInv'
    BY <2>1, <2>2, <2>3 DEF CheckInv, CheckShape, ReadInv, Unmarked
  <2>6. ListedInv'
    BY <2>2, <2>4 DEF CheckInv, ListedInv, Check!Listing
  <2>7. OrphanInv'
    BY <2>2, <2>4 DEF CheckInv, OrphanInv
  <2> QED
    BY <2>5, <2>6, <2>7 DEF CheckInv
<1> QED
  BY <1>1, <1>2 DEF Check!MarkMissing

\* The invariant holds of every run of the command beside the server.
THEOREM CheckInvariance == Spec => []CheckInv
<1>1. Check!CheckInit => CheckInv
  BY DEF Check!CheckInit, Check!NoCheck, CheckInv, CheckShape, ReadInv, Unmarked, ListedInv,
     OrphanInv
<1>2. CheckInv /\ [Check!CheckNext]_Check!checkVars => CheckInv'
  <2> SUFFICES ASSUME CheckInv, [Check!CheckNext]_Check!checkVars PROVE CheckInv'
    OBVIOUS
  <2>1. CASE Check!Server
    BY <2>1, ServerStep
  <2>2. CASE Check!Check
    BY <2>2, IdleCheck, LoadFilesStep, LoadMessagesStep, CompareStep, MarkStep
       DEF Check!Check, Check!DeleteOrphans
  <2>3. CASE UNCHANGED Check!checkVars
    BY <2>3 DEF Check!checkVars, Check!vars, CheckInv, CheckShape, ReadInv, Unmarked, ListedInv,
       OrphanInv, Check!Listing
  <2> QED
    BY <2>1, <2>2, <2>3 DEF Check!CheckNext
<1> QED
  BY <1>1, <1>2, CheckRuns, PTL

\* The command takes for an orphan no message with a part row, nor one of a file row that
\* neither the server nor the command itself wrote, ever since it began, whatever the
\* server does between its reads (check --clean, DeleteMessages).
THEOREM InUseSpared == Spec => KeptMessagesSpared
<1>1. CheckInv /\ [Check!CheckNext]_Check!checkVars =>
        [ck.step = "orphans" /\ ck'.step = "idle" =>
           \A m \in ck.listed \cup UNION {file[r].parts : r \in ck.intact \ ck.bad} :
             tg[m] = "there" => tg'[m] = "there"]_Check!checkVars
  <2> SUFFICES ASSUME CheckInv, Check!CheckNext, ck.step = "orphans", ck'.step = "idle",
                      NEW m \in ck.listed \cup UNION {file[r].parts : r \in ck.intact \ ck.bad},
                      tg[m] = "there"
               PROVE  tg'[m] = "there"
    OBVIOUS
  <2>1. Check!DeleteOrphans
    <3>1. ASSUME Check!Server
          PROVE  FALSE
      <4>1. ck' = [step |-> ck.step, files |-> ck.files, msgs |-> ck.msgs, bad |-> ck.bad,
                   orphans |-> ck.orphans, listed |-> ck.listed \cap Check!Listing',
                   intact |-> {r \in ck.intact : file'[r] = file[r]}]
        BY <3>1 DEF Check!Server, Check!Remember, CheckInv, CheckShape
      <4> QED
        BY <4>1
    <3> QED
      BY <3>1 DEF Check!CheckNext, Check!Check, Check!loadFiles, Check!loadChannelMessages,
         Check!ComparePartRows, Check!MarkMissing
  <2>2. m \in Msgs \ ck.orphans
    BY DEF CheckInv, ReadInv, Unmarked, ListedInv, OrphanInv, Check!Listing
  <2>3. PICK ms \in SUBSET ck.orphans :
          tg' = [k \in Msgs |-> IF k \in ms /\ tg[k] = "there" THEN "gone" ELSE tg[k]]
    BY <2>1 DEF Check!DeleteOrphans, Check!Delete
  <2> QED
    BY <2>2, <2>3
<1> QED
  BY <1>1, CheckInvariance, CheckRuns, PTL DEF KeptMessagesSpared, Check!KeptMessagesSpared

-----------------------------------------------------------------------------
(***************************************************************************)
(* Calls on a client through retry, recovery and AuthRecovery.             *)
(***************************************************************************)
\* The record of a call, of its fields.
CallOf(kd, pc, retries, max, restarts, result, executed, during) ==
  [kind |-> kd, pc |-> pc, retries |-> retries, max |-> max, restarts |-> restarts,
   result |-> result, executed |-> executed, during |-> during]

\* The record of a call has its fields.  A change that was executed for sure was not
\* again, and one attempt at most went out in this cooldown.
Fine(rec) ==
  /\ rec = CallOf(rec.kind, rec.pc, rec.retries, rec.max, rec.restarts, rec.result,
                  rec.executed, rec.during)
  /\ rec.kind \in {"read", "auth", "change"}
  /\ rec.retries \in 0..MaxTries /\ rec.max \in 1..MaxTries
  /\ rec.restarts \in 0..MaxRestarts
  /\ rec.executed \in {"unclear", "once", "again"} /\ rec.during \in 0..2
  /\ rec.kind = "read" \/ rec.executed # "again"
  /\ rec.kind = "auth" \/ rec.during <= 1

\* A change that may be sent again was not executed, for all that is known.
Repeatable(rec) == rec.kind = "read" \/ rec.executed = "unclear"

\* A call before its end has attempts left, and one that passed AuthRecovery passed
\* before the cooldown, or logs in.
CallOK(rec) ==
  /\ Fine(rec)
  /\ rec.pc \in {"idle", "try", "passed", "sent", "delay", "wait", "done"}
  /\ rec.pc # "done" => Repeatable(rec)
  /\ rec.pc \in {"idle", "try", "passed", "sent", "delay"} => rec.retries < rec.max
  /\ rec.pc = "passed" => rec.kind = "auth" \/ rec.during = 0

\* The invariant.
CallsInv ==
  /\ cooling \in BOOLEAN
  /\ request = [c \in Calls |-> request[c]] /\ \A c \in Calls : CallOK(request[c])
  /\ cooling \/ \A c \in Calls : request[c].during = 0

\* The call ends (Done).
LEMMA DoneOK ==
  ASSUME Rpc!LimitsGiven, NEW rec, Fine(rec), NEW r
  PROVE  CallOK(Rpc!Done(rec, r)) /\ Rpc!Done(rec, r).during = rec.during
BY DEF Rpc!Done, Rpc!LimitsGiven, Fine, CallOf, CallOK

\* A record with other fields: pc; executed; during.
LEMMA CallFields ==
  ASSUME NEW rec, Fine(rec), NEW v
  PROVE  /\ [rec EXCEPT !.pc = v] =
              CallOf(rec.kind, v, rec.retries, rec.max, rec.restarts, rec.result,
                     rec.executed, rec.during)
         /\ [rec EXCEPT !.executed = v] =
              CallOf(rec.kind, rec.pc, rec.retries, rec.max, rec.restarts, rec.result,
                     v, rec.during)
         /\ [rec EXCEPT !.during = v] =
              CallOf(rec.kind, rec.pc, rec.retries, rec.max, rec.restarts, rec.result,
                     rec.executed, v)
BY DEF Fine, CallOf

\* recovery starts the call over, or gives it up (Recover).
LEMMA RecoverOK ==
  ASSUME Rpc!LimitsGiven, NEW rec, Fine(rec), Repeatable(rec)
  PROVE  CallOK(Rpc!Recover(rec)) /\ Rpc!Recover(rec).during = rec.during
<1>1. CASE rec.restarts < MaxRestarts
  <2>1. Rpc!Recover(rec) =
          CallOf(rec.kind, "wait", rec.retries, rec.max, rec.restarts + 1, rec.result,
                 rec.executed, rec.during)
    BY <1>1 DEF Rpc!Recover, Fine, CallOf
  <2> QED
    BY <1>1, <2>1 DEF Rpc!LimitsGiven, Fine, Repeatable, CallOK, CallOf
<1>2. CASE ~(rec.restarts < MaxRestarts)
  BY <1>2, DoneOK DEF Rpc!Recover
<1> QED
  BY <1>1, <1>2

\* retry counts an attempt (Again).
LEMMA AgainOK ==
  ASSUME Rpc!LimitsGiven, NEW rec, Fine(rec), Repeatable(rec), rec.retries < rec.max,
         NEW max \in 1..rec.max
  PROVE  /\ Fine(Rpc!Again(rec, max)) /\ Repeatable(Rpc!Again(rec, max))
         /\ Rpc!Again(rec, max).during = rec.during
         /\ Rpc!Again(rec, max).pc # "spent" => CallOK(Rpc!Again(rec, max))
<1> DEFINE to == IF rec.retries + 1 < max THEN "delay" ELSE "spent"
<1>1. Rpc!Again(rec, max) =
        CallOf(rec.kind, to, rec.retries + 1, max, rec.restarts, rec.result, rec.executed,
               rec.during)
  BY DEF Rpc!Again, Fine, CallOf
<1> QED
  BY <1>1 DEF Rpc!LimitsGiven, Fine, Repeatable, CallOK, CallOf

\* What an attempt leaves, executed for sure, in doubt, or not.
LEMMA GotOK ==
  ASSUME NEW rec, CallOK(rec), rec.pc = "sent",
         NEW after \in Rpc!Doubtful(rec) \cup {Rpc!Executed(rec)}
  PROVE  /\ Fine(after) /\ after.retries = rec.retries /\ after.max = rec.max
         /\ after.kind = rec.kind /\ after.during = rec.during
         /\ after.kind = "read" \/ after \in Rpc!Doubtful(rec) => Repeatable(after)
<1>1. PICK v \in {"unclear", "once", "again"} :
        /\ after = CallOf(rec.kind, rec.pc, rec.retries, rec.max, rec.restarts, rec.result,
                          v, rec.during)
        /\ rec.kind = "read" \/ v # "again"
        /\ rec.kind = "read" \/ (after \in Rpc!Doubtful(rec) => v = "unclear")
  <2>1. Fine(rec) /\ (rec.kind = "read" \/ rec.executed = "unclear")
    BY DEF CallOK, Repeatable
  <2>2. CASE after \in Rpc!Doubtful(rec)
    <3>1. CASE after = rec
      BY <2>1, <3>1 DEF Fine
    <3>2. CASE after = [rec EXCEPT !.executed = IF rec.executed = "unclear"
                                                THEN "unclear" ELSE "again"]
      BY <2>1, <3>2, CallFields
    <3> QED
      BY <2>2, <3>1, <3>2 DEF Rpc!Doubtful
  <2>3. CASE after \notin Rpc!Doubtful(rec)
    <3>1. after = [rec EXCEPT !.executed = IF rec.executed = "unclear" THEN "once" ELSE "again"]
      BY <2>3 DEF Rpc!Executed
    <3> QED
      BY <2>1, <2>3, <3>1, CallFields
  <2> QED
    BY <2>2, <2>3
<1> QED
  BY <1>1 DEF CallOK, Fine, Repeatable, CallOf

\* A new loop of retry starts with all its attempts.
LEMMA RestartOK ==
  ASSUME Rpc!LimitsGiven, NEW rec, Fine(rec), Repeatable(rec)
  PROVE  /\ CallOK([rec EXCEPT !.pc = "try", !.retries = 0, !.max = MaxTries])
         /\ [rec EXCEPT !.pc = "try", !.retries = 0, !.max = MaxTries].during = rec.during
<1>1. [rec EXCEPT !.pc = "try", !.retries = 0, !.max = MaxTries] =
        CallOf(rec.kind, "try", 0, MaxTries, rec.restarts, rec.result, rec.executed, rec.during)
  <2> DEFINE one == [rec EXCEPT !.pc = "try"]
             two == [one EXCEPT !.retries = 0]
  <2>1. one = CallOf(rec.kind, "try", rec.retries, rec.max, rec.restarts, rec.result,
                     rec.executed, rec.during)
    BY CallFields
  <2>2. two = CallOf(rec.kind, "try", 0, rec.max, rec.restarts, rec.result, rec.executed,
                     rec.during)
    <3> HIDE DEF one
    <3> QED
      BY <2>1 DEF CallOf
  <2>3. [two EXCEPT !.max = MaxTries] =
          CallOf(rec.kind, "try", 0, MaxTries, rec.restarts, rec.result, rec.executed,
                 rec.during)
    <3> HIDE DEF two
    <3> QED
      BY <2>2 DEF CallOf
  <2> QED
    BY <2>3
<1> QED
  BY <1>1 DEF Rpc!LimitsGiven, CallOK, Fine, Repeatable, CallOf

\* A step of one call leaves the others as they are.
LEMMA SetOK ==
  ASSUME CallsInv, NEW c \in Calls, NEW rec, CallOK(rec), rec.during = request[c].during,
         Rpc!Set(c, rec), cooling' = cooling
  PROVE  CallsInv'
<1>1. cooling' \in BOOLEAN /\ request' = [request EXCEPT ![c] = rec]
  BY DEF CallsInv, Rpc!Set
<1>2. ASSUME NEW d \in Calls
      PROVE  request'[d] = IF d = c THEN rec ELSE request[d]
  BY <1>1 DEF CallsInv
<1>3. request' = [d \in Calls |-> request'[d]]
  BY <1>1 DEF CallsInv
<1> QED
  BY <1>1, <1>2, <1>3 DEF CallsInv

\* The same for a step that ends the cooldown's absence.
LEMMA SetCooling ==
  ASSUME CallsInv, NEW c \in Calls, NEW rec, CallOK(rec), Rpc!Set(c, rec), cooling' = TRUE
  PROVE  CallsInv'
<1>1. request' = [request EXCEPT ![c] = rec]
  BY DEF Rpc!Set
<1>2. ASSUME NEW d \in Calls
      PROVE  request'[d] = IF d = c THEN rec ELSE request[d]
  BY <1>1 DEF CallsInv
<1>3. request' = [d \in Calls |-> request'[d]]
  BY <1>1 DEF CallsInv
<1> QED
  BY <1>2, <1>3 DEF CallsInv

\* An attempt passes AuthRecovery, or is refused there.
LEMMA PassStep ==
  ASSUME Rpc!LimitsGiven, CallsInv, NEW c \in Calls, Rpc!Pass(c)
  PROVE  CallsInv'
<1> DEFINE rec == request[c]
<1>1. /\ CallOK(rec) /\ Fine(rec) /\ rec.pc \in {"idle", "try"} /\ cooling' = cooling
      /\ Repeatable(rec)
  BY DEF Rpc!Pass, CallsInv, CallOK
<1>2. CASE Rpc!Held(c)
  <2>1. Rpc!Set(c, Rpc!Recover(rec))
    BY <1>2 DEF Rpc!Pass
  <2> QED
    BY <1>1, <2>1, RecoverOK, SetOK
<1>3. CASE ~Rpc!Held(c)
  <2>1. Rpc!Set(c, [rec EXCEPT !.pc = "passed"])
    BY <1>3 DEF Rpc!Pass
  <2>2. [rec EXCEPT !.pc = "passed"] =
          CallOf(rec.kind, "passed", rec.retries, rec.max, rec.restarts, rec.result,
                 rec.executed, rec.during)
    BY <1>1, CallFields
  <2>3. rec.kind = "auth" \/ rec.during = 0
    BY <1>3 DEF Rpc!Held, CallsInv
  <2>4. /\ CallOK([rec EXCEPT !.pc = "passed"])
        /\ [rec EXCEPT !.pc = "passed"].during = rec.during
    BY <1>1, <2>2, <2>3 DEF CallOK, Fine, Repeatable, CallOf
  <2> QED
    BY <1>1, <2>1, <2>4, SetOK
<1> QED
  BY <1>2, <1>3

\* It goes out, in a cooldown that began meanwhile for the first time.
LEMMA SendStep ==
  ASSUME Rpc!LimitsGiven, CallsInv, NEW c \in Calls, Rpc!Send(c)
  PROVE  CallsInv'
<1> DEFINE rec == request[c]
           times == IF cooling /\ rec.during < 2 THEN rec.during + 1 ELSE rec.during
           to == [rec EXCEPT !.pc = "sent", !.during = times]
<1>1. CallOK(rec) /\ Fine(rec) /\ rec.pc = "passed" /\ cooling' = cooling
  BY DEF Rpc!Send, CallsInv, CallOK
<1>2. Rpc!Set(c, to)
  BY DEF Rpc!Send
<1>3. to = CallOf(rec.kind, "sent", rec.retries, rec.max, rec.restarts, rec.result,
                  rec.executed, times)
  <2> HIDE DEF times
  <2> DEFINE one == [rec EXCEPT !.pc = "sent"]
  <2>1. one = CallOf(rec.kind, "sent", rec.retries, rec.max, rec.restarts, rec.result,
                     rec.executed, rec.during)
    BY <1>1, CallFields
  <2>2. [one EXCEPT !.during = times] =
          CallOf(rec.kind, "sent", rec.retries, rec.max, rec.restarts, rec.result,
                 rec.executed, times)
    <3> HIDE DEF one
    <3> QED
      BY <2>1 DEF CallOf
  <2> QED
    BY <2>2
<1>4. /\ times \in 0..2 /\ (rec.kind = "auth" \/ times <= 1)
      /\ ~cooling => times = rec.during
  BY <1>1 DEF CallOK, Fine
<1> HIDE DEF times
<1>5. CallOK(to) /\ to.during = times
  BY <1>1, <1>3, <1>4 DEF CallOK, Fine, Repeatable, CallOf
<1>6. CASE cooling
  BY <1>1, <1>2, <1>5, <1>6, SetCooling
<1>7. CASE ~cooling
  BY <1>1, <1>2, <1>4, <1>5, <1>7, SetOK
<1> QED
  BY <1>6, <1>7

\* What Telegram or the connection answers to an attempt, and what the middlewares make
\* of it.
LEMMA AnswerStep ==
  ASSUME Rpc!LimitsGiven, CallsInv, NEW c \in Calls,
         \/ Rpc!Answered(c) \/ Rpc!Internal(c) \/ Rpc!TimesOut(c)
         \/ Rpc!ConnectionDies(c) \/ Rpc!Breaks(c) \/ Rpc!Rejected(c)
  PROVE  CallsInv'
<1> DEFINE rec == request[c]
<1>1. /\ CallOK(rec) /\ Fine(rec) /\ rec.pc = "sent" /\ Repeatable(rec)
      /\ rec.retries < rec.max /\ rec.max \in 1..rec.max
  <2>1. CallOK(rec)
    BY DEF CallsInv
  <2>2. rec.pc = "sent"
    BY DEF Rpc!Answered, Rpc!Internal, Rpc!TimesOut, Rpc!ConnectionDies, Rpc!Breaks,
       Rpc!Rejected
  <2>3. rec.max \in 1..rec.max
    BY <2>1 DEF CallOK, Fine
  <2> QED
    BY <2>1, <2>2, <2>3 DEF CallOK
<1>2. CASE Rpc!Answered(c)
  BY <1>1, <1>2, GotOK, DoneOK, SetOK DEF Rpc!Answered
<1>3. CASE Rpc!Internal(c)
  <2>1. PICK after \in Rpc!Doubtful(rec) :
          LET again == Rpc!Again(after, after.max)
          IN  Rpc!Set(c, IF again.pc = "spent" THEN Rpc!Done(again, "error") ELSE again)
    BY <1>3 DEF Rpc!Internal
  <2> DEFINE again == Rpc!Again(after, after.max)
  <2>2. /\ Fine(after) /\ Repeatable(after) /\ after.retries < after.max /\ after.max \in 1..after.max
        /\ after.during = rec.during
    BY <1>1, GotOK
  <2>3. /\ Fine(again) /\ (again.pc # "spent" => CallOK(again))
        /\ again.during = rec.during
    BY <2>2, AgainOK
  <2>4. Rpc!Set(c, IF again.pc = "spent" THEN Rpc!Done(again, "error") ELSE again)
    BY <2>1
  <2>5. cooling' = cooling
    BY <1>3 DEF Rpc!Internal
  <2> HIDE DEF again
  <2> QED
    BY <2>3, <2>4, <2>5, DoneOK, SetOK
<1>4. CASE Rpc!TimesOut(c)
  <2>1. PICK after \in {rec, Rpc!Executed(rec)} :
          LET max == IF after.max < 3 THEN after.max ELSE 3
              again == Rpc!Again(after, max)
          IN  Rpc!Set(c, IF Rpc!RetriesTimeout(after) /\ again.pc # "spent"
                         THEN again ELSE Rpc!Done(after, "error"))
    BY <1>4 DEF Rpc!TimesOut
  <2> DEFINE max == IF after.max < 3 THEN after.max ELSE 3
             again == Rpc!Again(after, max)
  <2>2. /\ Fine(after) /\ after.retries < after.max /\ after.during = rec.during
        /\ after.kind = "read" => Repeatable(after)
    <3>1. after \in Rpc!Doubtful(rec) \cup {Rpc!Executed(rec)}
      BY DEF Rpc!Doubtful
    <3> QED
      BY <1>1, <3>1, GotOK
  <2>3. max \in 1..after.max
    BY <2>2 DEF Fine
  <2>4. cooling' = cooling
    BY <1>4 DEF Rpc!TimesOut
  <2>5. CASE after.kind = "read" /\ again.pc # "spent"
    <3>1. Rpc!Set(c, again)
      BY <2>1, <2>5 DEF Rpc!RetriesTimeout
    <3>2. CallOK(again) /\ again.during = rec.during
      BY <2>2, <2>3, <2>5, AgainOK
    <3> QED
      BY <2>4, <3>1, <3>2, SetOK
  <2>6. CASE ~(after.kind = "read" /\ again.pc # "spent")
    <3>1. Rpc!Set(c, Rpc!Done(after, "error"))
      BY <2>1, <2>6 DEF Rpc!RetriesTimeout
    <3> QED
      BY <2>2, <2>4, <3>1, DoneOK, SetOK
  <2> QED
    BY <2>5, <2>6
<1>5. CASE Rpc!ConnectionDies(c)
  <2>1. PICK after \in Rpc!Doubtful(rec) :
          LET again == Rpc!Again(after, after.max)
          IN  Rpc!Set(c, IF again.pc = "spent" THEN Rpc!Recover(again) ELSE again)
    BY <1>5 DEF Rpc!ConnectionDies
  <2> DEFINE again == Rpc!Again(after, after.max)
  <2>2. /\ Fine(after) /\ Repeatable(after) /\ after.retries < after.max /\ after.max \in 1..after.max
        /\ after.during = rec.during
    BY <1>1, GotOK
  <2>3. Rpc!Set(c, IF again.pc = "spent" THEN Rpc!Recover(again) ELSE again)
    BY <2>1
  <2>4. /\ Fine(again) /\ Repeatable(again) /\ (again.pc # "spent" => CallOK(again))
        /\ again.during = rec.during
    BY <2>2, AgainOK
  <2>5. cooling' = cooling
    BY <1>5 DEF Rpc!ConnectionDies
  <2> HIDE DEF again
  <2> QED
    BY <2>3, <2>4, <2>5, RecoverOK, SetOK
<1>6. CASE Rpc!Breaks(c)
  <2>1. PICK after \in Rpc!Doubtful(rec) : Rpc!Set(c, Rpc!Recover(after))
    BY <1>6 DEF Rpc!Breaks
  <2>2. Fine(after) /\ Repeatable(after) /\ after.during = rec.during
    BY <1>1, GotOK
  <2>3. CallOK(Rpc!Recover(after)) /\ Rpc!Recover(after).during = rec.during
    BY <2>2, RecoverOK
  <2>4. cooling' = cooling
    BY <1>6 DEF Rpc!Breaks
  <2> QED
    BY <2>1, <2>3, <2>4, SetOK
<1>7. CASE Rpc!Rejected(c)
  <2>1. \A r : CallOK(Rpc!Done(rec, r)) /\ Rpc!Done(rec, r).during = rec.during
    BY <1>1, DoneOK
  <2>2. CASE Rpc!Set(c, Rpc!Done(rec, "error")) /\ cooling' = cooling
    BY <2>1, <2>2, SetOK
  <2>3. CASE Rpc!Set(c, Rpc!Done(rec, "auth")) /\ cooling' = TRUE
    BY <2>1, <2>3, SetCooling
  <2> QED
    BY <1>7, <2>2, <2>3 DEF Rpc!Rejected
<1> QED
  BY <1>2, <1>3, <1>4, <1>5, <1>6, <1>7

\* The delay of retry is over, or recovery starts a new loop.
LEMMA ResumeStep ==
  ASSUME Rpc!LimitsGiven, CallsInv, NEW c \in Calls, Rpc!Resume(c)
  PROVE  CallsInv'
<1> DEFINE rec == request[c]
<1>1. CallOK(rec) /\ Fine(rec) /\ rec.pc \in {"delay", "wait"} /\ cooling' = cooling
  BY DEF Rpc!Resume, CallsInv, CallOK
<1>2. CASE rec.pc = "delay"
  <2>1. [rec EXCEPT !.pc = "try"] =
          CallOf(rec.kind, "try", rec.retries, rec.max, rec.restarts, rec.result,
                 rec.executed, rec.during)
    BY <1>1, CallFields
  <2>2. CallOK([rec EXCEPT !.pc = "try"]) /\ [rec EXCEPT !.pc = "try"].during = rec.during
    BY <1>1, <1>2, <2>1 DEF CallOK, Fine, Repeatable, CallOf
  <2> QED
    BY <1>1, <1>2, <2>2, SetOK DEF Rpc!Resume
<1>3. CASE rec.pc = "wait"
  <2>1. Rpc!Set(c, [rec EXCEPT !.pc = "try", !.retries = 0, !.max = MaxTries])
    BY <1>3 DEF Rpc!Resume
  <2>2. Repeatable(rec)
    BY <1>1, <1>3 DEF CallOK
  <2> QED
    BY <1>1, <2>1, <2>2, RestartOK, SetOK
<1> QED
  BY <1>1, <1>2, <1>3

\* The cooldown is over, and its attempts are counted no more.
LEMMA CooldownStep ==
  ASSUME CallsInv, Rpc!CooldownEnds
  PROVE  CallsInv'
<1>1. cooling' = FALSE /\ request' = [c \in Calls |-> [request[c] EXCEPT !.during = 0]]
  BY DEF Rpc!CooldownEnds
<1>2. ASSUME NEW c \in Calls
      PROVE  CallOK(request'[c]) /\ request'[c].during = 0
  <2> DEFINE rec == request[c]
  <2>1. CallOK(rec) /\ Fine(rec)
    BY DEF CallsInv, CallOK
  <2>2. request'[c] = [rec EXCEPT !.during = 0]
    BY <1>1
  <2>3. request'[c] = CallOf(rec.kind, rec.pc, rec.retries, rec.max, rec.restarts, rec.result,
                             rec.executed, 0)
    BY <2>1, <2>2, CallFields
  <2> QED
    BY <2>1, <2>3 DEF CallOK, Fine, Repeatable, CallOf
<1> QED
  BY <1>1, <1>2 DEF CallsInv

\* The invariant is one.
THEOREM CallsInvariance == Spec => []CallsInv
<1>1. Rpc!Init => CallsInv
  <2>1. ASSUME NEW kd \in {"read", "auth", "change"}
        PROVE  CallOK(Rpc!Fresh(kd)) /\ Rpc!Fresh(kd).during = 0
    BY LimitsAssumption DEF Rpc!Fresh, Rpc!LimitsGiven, CallOK, Fine, Repeatable, CallOf
  <2> QED
    BY <2>1 DEF Rpc!Init, Rpc!Kinds, CallsInv
<1>2. CallsInv /\ [Rpc!Next]_Rpc!vars => CallsInv'
  <2> SUFFICES ASSUME CallsInv, [Rpc!Next]_Rpc!vars
               PROVE  CallsInv'
    OBVIOUS
  <2>1. ASSUME NEW c \in Calls, Rpc!Step(c)
        PROVE  CallsInv'
    BY <2>1, LimitsAssumption, PassStep, SendStep, AnswerStep, ResumeStep DEF Rpc!Step
  <2>2. ASSUME NEW c \in Calls, Rpc!Cancel(c)
        PROVE  CallsInv'
    BY <2>2, LimitsAssumption, DoneOK, SetOK DEF Rpc!Cancel, CallsInv, CallOK
  <2>3. CASE Rpc!CooldownEnds
    BY <2>3, CooldownStep
  <2>4. CASE UNCHANGED Rpc!vars
    BY <2>4 DEF Rpc!vars, CallsInv
  <2> QED
    BY <2>1, <2>2, <2>3, <2>4 DEF Rpc!Next
<1> QED
  BY <1>1, <1>2, CallsRun, PTL

\* A change that was executed for sure is not executed again, whatever Telegram and the
\* connection answer: what is repeated was in doubt, an internal error or a connection
\* that broke over it.  And from a refusal to the end of the cooldown each other call
\* reaches Telegram once at most, with an attempt that had passed AuthRecovery before:
\* for any number of calls, attempts and restarts (retry, recovery, AuthRecovery.Handle).
THEOREM CallsAreSafe == Spec => []CallsSafe
<1>1. CallsInv => CallsSafe
  BY DEF CallsInv, CallOK, Fine, CallsSafe, Rpc!CallsSafe, Rpc!RepeatedInDoubtOnly,
     Rpc!NoStorm
<1> QED
  BY <1>1, CallsInvariance, PTL

-----------------------------------------------------------------------------
(***************************************************************************)
(* The recorder of events, up to the end of the server.                    *)
(***************************************************************************)
\* A list of what was written is one of the first d events, in order and once each, but
\* for those lost.
Wrote(d, ws, as, gone) ==
  \E at \in [DOMAIN ws -> 1..d] :
    /\ \A i, j \in DOMAIN ws : i < j => at[i] < at[j]
    /\ \A i \in DOMAIN ws : ws[i] = as[at[i]]
    /\ \A k \in 1..d : as[k] \in gone \/ \E i \in DOMAIN ws : at[i] = k

\* The last of the events follow the first d.
Follow(d, ps, as) ==
  /\ d \in Nat /\ d + Len(ps) = Len(as)
  /\ \A i \in 1..Len(ps) : ps[i] = as[d + i]

\* AcceptedInOrder, of values.
Ordered(ws, ps, as, gone) == \E d \in Nat : Follow(d, ps, as) /\ Wrote(d, ws, as, gone)

\* It is what AcceptedInOrder says.
LEMMA OrderedMeans ==
  ASSUME Server!TypeOK
  PROVE  Server!AcceptedInOrder <=> Ordered(written, Server!Pending, accepted, lost)
<1>1. Server!Pending \in Seq(Handlers) /\ accepted \in Seq(Handlers) /\ written \in Seq(Handlers)
  BY DEF Server!TypeOK, Server!Pending
<1> DEFINE ps == Server!Pending
           d == Len(accepted) - Len(ps)
<1>2. d \in Int /\ Server!Done = d /\ DOMAIN ps = 1..Len(ps)
  BY <1>1 DEF Server!Done
<1>3. \A e \in Nat : Follow(e, ps, accepted) => e = d
  BY <1>1 DEF Follow
<1>4. ASSUME Server!AcceptedInOrder
      PROVE  Ordered(written, ps, accepted, lost)
  <2>1. d >= 0 /\ \A i \in 1..Len(ps) : ps[i] = accepted[d + i]
    BY <1>2, <1>4 DEF Server!AcceptedInOrder
  <2> HIDE DEF ps
  <2>3. Len(ps) \in Nat /\ Len(accepted) \in Nat
    BY <1>1
  <2>4. d \in Nat /\ d + Len(ps) = Len(accepted)
    BY <2>1, <2>3
  <2>5. d \in Nat /\ Follow(d, ps, accepted)
    BY <2>1, <2>4 DEF Follow
  <2>2. Wrote(d, written, accepted, lost)
    BY <1>2, <1>4 DEF Server!AcceptedInOrder, Wrote
  <2> QED
    BY <2>2, <2>5 DEF Ordered
<1>5. ASSUME Ordered(written, ps, accepted, lost)
      PROVE  Server!AcceptedInOrder
  <2>1. d \in Nat /\ Follow(d, ps, accepted) /\ Wrote(d, written, accepted, lost)
    BY <1>3, <1>5 DEF Ordered
  <2>2. Server!Done >= 0 /\ \A i \in DOMAIN ps : ps[i] = accepted[Server!Done + i]
    BY <1>2, <2>1 DEF Follow
  <2> QED
    BY <1>2, <2>1, <2>2 DEF Wrote, Server!AcceptedInOrder
<1> QED
  BY <1>4, <1>5

\* A list with one more event at its end.
LEMMA AppendedAt ==
  ASSUME NEW s \in Seq(Handlers), NEW h \in Handlers
  PROVE  /\ Append(s, h) \in Seq(Handlers) /\ Len(s) \in Nat
         /\ Len(Append(s, h)) = Len(s) + 1
         /\ DOMAIN s = 1..Len(s) /\ DOMAIN Append(s, h) = 1..(Len(s) + 1)
         /\ Append(s, h)[Len(s) + 1] = h
         /\ \A k \in 1..Len(s) : Append(s, h)[k] = s[k]
OBVIOUS

\* A list with one more event before it.
LEMMA PrecededAt ==
  ASSUME NEW s \in Seq(Handlers), NEW h \in Handlers
  PROVE  /\ Len(s) \in Nat /\ Len(<<h>> \o s) = Len(s) + 1
         /\ (<<h>> \o s)[1] = h
         /\ \A k \in 1..Len(s) : (<<h>> \o s)[k + 1] = s[k]
<1>1. <<h>> \in Seq(Handlers) /\ Len(<<h>>) = 1 /\ <<h>>[1] = h /\ Len(s) \in Nat
  OBVIOUS
<1>2. /\ Len(<<h>> \o s) = 1 + Len(s)
      /\ \A i \in 1..(1 + Len(s)) : (<<h>> \o s)[i] = IF i <= 1 THEN <<h>>[i] ELSE s[i - 1]
  BY <1>1, ConcatProperties
<1>3. \A k \in 1..Len(s) : k + 1 \in 1..(1 + Len(s)) /\ ~(k + 1 <= 1) /\ (k + 1) - 1 = k
  BY <1>1
<1>4. 1 \in 1..(1 + Len(s))
  BY <1>1
<1>5. (<<h>> \o s)[1] = h
  BY <1>1, <1>2, <1>4
<1>6. ASSUME NEW k \in 1..Len(s)
      PROVE  (<<h>> \o s)[k + 1] = s[k]
  BY <1>2, <1>3
<1> QED
  BY <1>1, <1>2, <1>5, <1>6

\* What the first d events are followed by begins with h.
LEMMA FollowNext ==
  ASSUME NEW s \in Seq(Handlers), NEW h \in Handlers, NEW as, NEW d \in Nat,
         Follow(d, <<h>> \o s, as)
  PROVE  as[d + 1] = h /\ Follow(d + 1, s, as)
<1> DEFINE ps == <<h>> \o s
<1>1. /\ Len(s) \in Nat /\ Len(ps) = Len(s) + 1 /\ ps[1] = h
      /\ \A k \in 1..Len(s) : ps[k + 1] = s[k]
  BY PrecededAt
<1>2. d + Len(ps) = Len(as) /\ \A i \in 1..Len(ps) : ps[i] = as[d + i]
  BY DEF Follow
<1> HIDE DEF ps
<1>3. as[d + 1] = h
  <2>1. 1 \in 1..Len(ps)
    BY <1>1
  <2> QED
    BY <1>1, <1>2, <2>1
<1>4. ASSUME NEW i \in 1..Len(s)
      PROVE  s[i] = as[(d + 1) + i]
  <2>1. i + 1 \in 1..Len(ps) /\ d + (i + 1) = (d + 1) + i
    BY <1>1
  <2>2. ps[i + 1] = as[d + (i + 1)]
    BY <1>2, <2>1
  <2> QED
    BY <1>1, <2>1, <2>2
<1>5. d + 1 \in Nat /\ (d + 1) + Len(s) = Len(as)
  BY <1>1, <1>2
<1>6. Follow(d + 1, s, as)
  BY <1>4, <1>5 DEF Follow
<1> QED
  BY <1>3, <1>6

\* One more event is accepted.
LEMMA AcceptOne ==
  ASSUME NEW ws \in Seq(Handlers), NEW ps \in Seq(Handlers), NEW as \in Seq(Handlers), NEW gone,
         NEW h \in Handlers, Ordered(ws, ps, as, gone)
  PROVE  Ordered(ws, Append(ps, h), Append(as, h), gone)
<1>1. PICK d \in Nat : Follow(d, ps, as) /\ Wrote(d, ws, as, gone)
  BY DEF Ordered
<1>2. PICK at \in [DOMAIN ws -> 1..d] :
        /\ \A i, j \in DOMAIN ws : i < j => at[i] < at[j]
        /\ \A i \in DOMAIN ws : ws[i] = as[at[i]]
        /\ \A k \in 1..d : as[k] \in gone \/ \E i \in DOMAIN ws : at[i] = k
  BY <1>1 DEF Wrote
<1>3. /\ Len(as) = d + Len(ps) /\ \A i \in 1..Len(ps) : ps[i] = as[d + i]
      /\ Len(ps) \in Nat
  <2>1. d + Len(ps) = Len(as) /\ \A i \in 1..Len(ps) : ps[i] = as[d + i]
    BY <1>1 DEF Follow
  <2>2. Len(ps) \in Nat
    BY AppendedAt
  <2> QED
    BY <2>1, <2>2
<1>6. /\ Len(Append(as, h)) = Len(as) + 1 /\ Append(as, h)[Len(as) + 1] = h
      /\ \A k \in 1..Len(as) : Append(as, h)[k] = as[k]
  BY AppendedAt
<1>7. /\ Len(Append(ps, h)) = Len(ps) + 1 /\ Append(ps, h)[Len(ps) + 1] = h
      /\ \A k \in 1..Len(ps) : Append(ps, h)[k] = ps[k]
  BY AppendedAt
<1> DEFINE bs == Append(as, h)
           qs == Append(ps, h)
<1>8. \A k \in 1..d : bs[k] = as[k]
  <2> HIDE DEF bs
  <2>1. \A k \in 1..d : k \in 1..Len(as)
    BY <1>3
  <2> QED
    BY <1>6, <2>1 DEF bs
<1> HIDE DEF bs, qs
<1>4. Wrote(d, ws, bs, gone)
  <2>1. \A i \in DOMAIN ws : at[i] \in 1..d
    BY <1>2
  <2>2. \A i \in DOMAIN ws : ws[i] = bs[at[i]]
    BY <1>2, <1>8, <2>1
  <2>3. \A k \in 1..d : bs[k] \in gone \/ \E i \in DOMAIN ws : at[i] = k
    BY <1>2, <1>8
  <2> QED
    BY <1>2, <2>2, <2>3 DEF Wrote
<1>5. Follow(d, qs, bs)
  <2>1. d + Len(qs) = Len(bs)
    <3>1. d + (Len(ps) + 1) = (d + Len(ps)) + 1
      BY <1>3
    <3> QED
      BY <1>3, <1>6, <1>7, <3>1 DEF bs, qs
  <2>2. ASSUME NEW i \in 1..Len(qs)
        PROVE  qs[i] = bs[d + i]
    <3>0. Len(qs) = Len(ps) + 1
      BY <1>7 DEF qs
    <3>1. CASE i = Len(ps) + 1
      <4>1. d + i = Len(as) + 1
        BY <1>3, <3>1
      <4> QED
        BY <1>6, <1>7, <3>1, <4>1 DEF bs, qs
    <3>2. CASE i \in 1..Len(ps)
      <4>1. d + i \in 1..Len(as)
        BY <1>3, <3>2
      <4>2. qs[i] = ps[i] /\ bs[d + i] = as[d + i]
        BY <1>6, <1>7, <3>2, <4>1 DEF bs, qs
      <4> QED
        BY <1>3, <3>2, <4>2
    <3> QED
      BY <1>3, <3>0, <3>1, <3>2
  <2> QED
    BY <2>1, <2>2 DEF Follow
<1>9. Ordered(ws, qs, bs, gone)
  BY <1>4, <1>5 DEF Ordered
<1> QED
  BY <1>9 DEF bs, qs

\* The oldest event that was not written is.
LEMMA WriteOne ==
  ASSUME NEW ws \in Seq(Handlers), NEW ps \in Seq(Handlers), NEW as \in Seq(Handlers), NEW gone,
         NEW h \in Handlers, Ordered(ws, <<h>> \o ps, as, gone)
  PROVE  Ordered(Append(ws, h), ps, as, gone)
<1>1. PICK d \in Nat : Follow(d, <<h>> \o ps, as) /\ Wrote(d, ws, as, gone)
  BY DEF Ordered
<1>2. PICK at \in [DOMAIN ws -> 1..d] :
        /\ \A i, j \in DOMAIN ws : i < j => at[i] < at[j]
        /\ \A i \in DOMAIN ws : ws[i] = as[at[i]]
        /\ \A k \in 1..d : as[k] \in gone \/ \E i \in DOMAIN ws : at[i] = k
  BY <1>1 DEF Wrote
<1>3. as[d + 1] = h /\ Follow(d + 1, ps, as)
  BY <1>1, FollowNext
<1> DEFINE n1 == Len(ws) + 1
           vs == Append(ws, h)
           more == [i \in 1..n1 |-> IF i < n1 THEN at[i] ELSE d + 1]
<1>5. /\ DOMAIN vs = 1..n1 /\ DOMAIN ws = 1..Len(ws) /\ Len(ws) \in Nat
      /\ vs[n1] = h /\ \A i \in 1..Len(ws) : vs[i] = ws[i]
  BY AppendedAt
<1> HIDE DEF vs
<1>6. \A i \in 1..n1 : i = n1 \/ (i \in 1..Len(ws) /\ i < n1)
  BY <1>5
<1>7. /\ \A i \in 1..Len(ws) : more[i] = at[i] /\ at[i] \in 1..d
      /\ more[n1] = d + 1 /\ n1 \in 1..n1
      /\ more \in [1..n1 -> 1..(d + 1)]
  <2>1. \A i \in 1..Len(ws) : at[i] \in 1..d /\ i \in 1..n1 /\ i < n1
    BY <1>2, <1>5
  <2>2. n1 \in 1..n1 /\ ~(n1 < n1)
    BY <1>5
  <2>3. \A i \in 1..n1 : more[i] \in 1..(d + 1)
    BY <1>6, <2>1
  <2> QED
    BY <2>1, <2>2, <2>3
<1> HIDE DEF more
<1>8. \A i, j \in 1..n1 : i < j => more[i] < more[j]
  <2> SUFFICES ASSUME NEW i \in 1..n1, NEW j \in 1..n1, i < j
               PROVE  more[i] < more[j]
    OBVIOUS
  <2>1. i \in 1..Len(ws) /\ more[i] = at[i] /\ at[i] \in 1..d
    BY <1>5, <1>6, <1>7
  <2>2. CASE j = n1
    BY <1>7, <2>1, <2>2
  <2>3. CASE j \in 1..Len(ws)
    BY <1>2, <1>5, <1>7, <2>1, <2>3
  <2> QED
    BY <1>6, <2>2, <2>3
<1>9. \A i \in 1..n1 : vs[i] = as[more[i]]
  <2> TAKE i \in 1..n1
  <2>1. CASE i = n1
    BY <1>3, <1>5, <1>7, <2>1
  <2>2. CASE i \in 1..Len(ws)
    BY <1>2, <1>5, <1>7, <2>2
  <2> QED
    BY <1>6, <2>1, <2>2
<1>10. \A k \in 1..(d + 1) : as[k] \in gone \/ \E i \in 1..n1 : more[i] = k
  <2> TAKE k \in 1..(d + 1)
  <2>1. CASE k = d + 1
    BY <1>7, <2>1
  <2>2. CASE k \in 1..d
    <3>1. CASE as[k] \in gone
      BY <3>1
    <3>2. CASE as[k] \notin gone
      <4>1. PICK i \in DOMAIN ws : at[i] = k
        BY <1>2, <2>2, <3>2
      <4>2. i \in 1..n1 /\ more[i] = k
        BY <1>5, <1>7, <4>1
      <4> QED
        BY <4>2
    <3> QED
      BY <3>1, <3>2
  <2>3. k = d + 1 \/ k \in 1..d
    OBVIOUS
  <2> QED
    BY <2>1, <2>2, <2>3
<1> HIDE DEF n1
<1>11. Wrote(d + 1, vs, as, gone)
  <2>2. DOMAIN vs = 1..n1
    BY <1>5
  <2>3. more \in [DOMAIN vs -> 1..(d + 1)]
    BY <1>7, <2>2
  <2>4. \A i, j \in DOMAIN vs : i < j => more[i] < more[j]
    BY <1>8, <2>2
  <2>5. \A i \in DOMAIN vs : vs[i] = as[more[i]]
    BY <1>9, <2>2
  <2>6. \A k \in 1..(d + 1) : as[k] \in gone \/ \E i \in DOMAIN vs : more[i] = k
    BY <1>10, <2>2
  <2> QED
    BY <2>3, <2>4, <2>5, <2>6, Zenon DEF Wrote
<1>12. d + 1 \in Nat
  OBVIOUS
<1>13. Ordered(vs, ps, as, gone)
  BY <1>3, <1>11, <1>12 DEF Ordered
<1> QED
  BY <1>13 DEF vs

\* Its write fails.
LEMMA LoseOne ==
  ASSUME NEW ws \in Seq(Handlers), NEW ps \in Seq(Handlers), NEW as \in Seq(Handlers), NEW gone,
         NEW h \in Handlers, Ordered(ws, <<h>> \o ps, as, gone)
  PROVE  Ordered(ws, ps, as, gone \cup {h})
<1>1. PICK d \in Nat : Follow(d, <<h>> \o ps, as) /\ Wrote(d, ws, as, gone)
  BY DEF Ordered
<1>2. PICK at \in [DOMAIN ws -> 1..d] :
        /\ \A i, j \in DOMAIN ws : i < j => at[i] < at[j]
        /\ \A i \in DOMAIN ws : ws[i] = as[at[i]]
        /\ \A k \in 1..d : as[k] \in gone \/ \E i \in DOMAIN ws : at[i] = k
  BY <1>1 DEF Wrote
<1>3. as[d + 1] = h /\ Follow(d + 1, ps, as)
  BY <1>1, FollowNext
<1>5. at \in [DOMAIN ws -> 1..(d + 1)]
  BY <1>2
<1>6. \A k \in 1..(d + 1) : as[k] \in gone \cup {h} \/ \E i \in DOMAIN ws : at[i] = k
  <2> TAKE k \in 1..(d + 1)
  <2>1. k = d + 1 \/ k \in 1..d
    OBVIOUS
  <2> QED
    BY <1>2, <1>3, <2>1
<1>7. Wrote(d + 1, ws, as, gone \cup {h})
  BY <1>2, <1>5, <1>6 DEF Wrote
<1>8. d + 1 \in Nat
  OBVIOUS
<1> QED
  BY <1>3, <1>7, <1>8 DEF Ordered

\* The invariant.
EventsInv == Server!TypeOK /\ Ordered(written, Server!Pending, accepted, lost)

\* Record: the event is put behind those that wait.
LEMMA RecordStep ==
  ASSUME Server!EventsNamed, EventsInv, NEW h \in Handlers, Server!Record(h)
  PROVE  EventsInv'
<1>1. /\ ctx' = ctx /\ main' = main /\ open' = open /\ writer' = writer
      /\ written' = written /\ lost' = lost
      /\ handler' \in [Handlers ->
                         {"new", "in", "changed", "dropped", "recorded", "panicked", "ended"}]
  BY DEF Server!Record, EventsInv, Server!TypeOK
<1>2. CASE queue' = queue /\ accepted' = accepted
  BY <1>1, <1>2 DEF EventsInv, Server!TypeOK, Server!Pending
<1>3. CASE Server!Put(h) /\ accepted' = Append(accepted, h)
  <2>1. /\ queue \in Seq(Handlers) /\ accepted \in Seq(Handlers) /\ written \in Seq(Handlers)
        /\ Server!Pending \in Seq(Handlers)
        /\ Len(queue) < Capacity /\ queue' = Append(queue, h)
    BY <1>3 DEF Server!Put, EventsInv, Server!TypeOK, Server!Pending
  <2>2. Server!Pending' = Append(Server!Pending, h)
    <3> DEFINE hand == IF writer \in Handlers THEN <<writer>> ELSE <<>>
    <3>1. hand \in Seq(Handlers) /\ Server!Pending = hand \o queue
      BY DEF Server!Pending
    <3>2. Server!Pending' = hand \o Append(queue, h)
      BY <1>1, <2>1 DEF Server!Pending
    <3> HIDE DEF hand
    <3>3. Append(queue, h) = queue \o <<h>> /\ <<h>> \in Seq(Handlers)
      BY <2>1, AppendIsConcat
    <3>4. hand \o (queue \o <<h>>) = (hand \o queue) \o <<h>>
      BY <2>1, <3>1, <3>3, ConcatAssociative
    <3>5. Append(Server!Pending, h) = Server!Pending \o <<h>>
      BY <2>1, AppendIsConcat
    <3> QED
      BY <3>1, <3>2, <3>3, <3>4, <3>5
  <2>3. Ordered(written, Append(Server!Pending, h), Append(accepted, h), lost)
    BY <2>1, AcceptOne DEF EventsInv
  <2>4. Ordered(written', Server!Pending', accepted', lost')
    BY <1>1, <1>3, <2>2, <2>3
  <2>5. Server!TypeOK'
    BY <1>1, <1>3, <2>1 DEF Server!EventsNamed, EventsInv, Server!TypeOK
  <2> QED
    BY <2>4, <2>5 DEF EventsInv
<1> QED
  BY <1>2, <1>3 DEF Server!Record

\* The writer takes the first event, or the zero event of a queue that was closed.
LEMMA ReceiveStep ==
  ASSUME Server!EventsNamed, EventsInv, Server!Receive
  PROVE  EventsInv'
<1>1. /\ writer = "waiting" /\ writer \notin Handlers
      /\ ctx' = ctx /\ main' = main /\ handler' = handler /\ open' = open
      /\ accepted' = accepted /\ written' = written /\ lost' = lost
  BY DEF Server!Receive, Server!EventsNamed
<1>2. Server!Pending = queue
  BY <1>1 DEF Server!Pending, EventsInv, Server!TypeOK
<1>3. CASE queue # <<>> /\ writer' = Head(queue) /\ queue' = Tail(queue)
  <2>1. /\ Head(queue) \in Handlers /\ Tail(queue) \in Seq(Handlers)
        /\ Len(Tail(queue)) <= Capacity /\ <<Head(queue)>> \o Tail(queue) = queue
    BY <1>3 DEF Server!EventsNamed, EventsInv, Server!TypeOK
  <2>2. Server!Pending' = queue
    BY <1>3, <2>1 DEF Server!Pending
  <2>3. Server!TypeOK'
    BY <1>1, <1>3, <2>1 DEF EventsInv, Server!TypeOK
  <2> QED
    BY <1>1, <1>2, <2>2, <2>3 DEF EventsInv
<1>4. CASE writer' = Blank /\ queue' = queue
  <2>1. Server!Pending' = queue
    BY <1>4 DEF Server!Pending, Server!EventsNamed, EventsInv, Server!TypeOK
  <2>2. Server!TypeOK'
    BY <1>1, <1>4 DEF EventsInv, Server!TypeOK
  <2> QED
    BY <1>1, <1>2, <2>1, <2>2 DEF EventsInv
<1> QED
  BY <1>3, <1>4 DEF Server!Receive

\* The event in hand has been written, or its write has failed.
LEMMA SaveStep ==
  ASSUME Server!EventsNamed, EventsInv, Server!Save
  PROVE  EventsInv'
<1>1. /\ writer \notin {"waiting", "ended"} /\ writer' = "waiting"
      /\ ctx' = ctx /\ main' = main /\ handler' = handler /\ open' = open
      /\ accepted' = accepted /\ queue' = queue
  BY DEF Server!Save, Server!Written, Server!Failed, Server!EventsNamed
<1>2. /\ queue \in Seq(Handlers) /\ written \in Seq(Handlers) /\ accepted \in Seq(Handlers)
      /\ writer \in Handlers \cup {Blank} /\ lost \subseteq Handlers
  BY <1>1 DEF EventsInv, Server!TypeOK
<1>3. Server!Pending' = queue
  BY <1>1, <1>2 DEF Server!Pending, Server!EventsNamed
<1>4. CASE writer \in Handlers
  <2>1. writer # Blank /\ Server!Pending = <<writer>> \o queue
    BY <1>4 DEF Server!Pending, Server!EventsNamed
  <2>2. Ordered(written, <<writer>> \o queue, accepted, lost)
    BY <2>1 DEF EventsInv
  <2>3. CASE Server!Written
    <3>1. written' = Append(written, writer) /\ lost' = lost
      BY <2>1, <2>3 DEF Server!Written
    <3>2. Ordered(Append(written, writer), queue, accepted, lost)
      BY <1>2, <1>4, <2>2, WriteOne
    <3>3. Server!TypeOK'
      BY <1>1, <1>2, <1>4, <3>1 DEF EventsInv, Server!TypeOK
    <3> QED
      BY <1>1, <1>3, <3>1, <3>2, <3>3 DEF EventsInv
  <2>4. CASE Server!Failed
    <3>1. written' = written /\ lost' = lost \cup {writer}
      BY <2>4 DEF Server!Failed
    <3>2. Ordered(written, queue, accepted, lost \cup {writer})
      BY <1>2, <1>4, <2>2, LoseOne
    <3>3. Server!TypeOK'
      BY <1>1, <1>2, <1>4, <3>1 DEF EventsInv, Server!TypeOK
    <3> QED
      BY <1>1, <1>3, <3>1, <3>2, <3>3 DEF EventsInv
  <2> QED
    BY <2>3, <2>4 DEF Server!Save
<1>5. CASE writer \notin Handlers
  <2>1. written' = written /\ lost' = lost
    BY <1>2, <1>5 DEF Server!Save, Server!Written, Server!Failed
  <2>2. Server!Pending = queue
    BY <1>2, <1>5 DEF Server!Pending
  <2>3. Server!TypeOK'
    BY <1>1, <1>2, <2>1 DEF EventsInv, Server!TypeOK
  <2> QED
    BY <1>1, <1>3, <2>1, <2>2, <2>3 DEF EventsInv
<1> QED
  BY <1>4, <1>5

\* The invariant is one.
THEOREM EventsInvariance == Spec => []EventsInv
<1>1. Server!Init => EventsInv
  <2> SUFFICES ASSUME Server!Init PROVE EventsInv
    OBVIOUS
  <2>1. Server!TypeOK
    BY EventsAssumption DEF Server!Init, Server!TypeOK, Server!EventsNamed
  <2>2. Server!Pending = <<>> /\ written = <<>> /\ accepted = <<>>
    BY EventsAssumption DEF Server!Init, Server!Pending, Server!EventsNamed
  <2>3. Follow(0, <<>>, <<>>)
    BY DEF Follow
  <2>4. Wrote(0, <<>>, <<>>, lost)
    <3>1. DOMAIN <<>> = {}
      OBVIOUS
    <3>2. \E at \in [{} -> 1..0] : TRUE
      <4>1. [i \in {} |-> 1] \in [{} -> 1..0]
        OBVIOUS
      <4> QED
        BY <4>1
    <3>3. 1..0 = {}
      OBVIOUS
    <3> QED
      BY <3>1, <3>2, <3>3 DEF Wrote
  <2> QED
    BY <2>1, <2>2, <2>3, <2>4 DEF EventsInv, Ordered
<1>2. EventsInv /\ [Server!Next]_Server!vars => EventsInv'
  <2> SUFFICES ASSUME EventsInv, [Server!Next]_Server!vars
               PROVE  EventsInv'
    OBVIOUS
  <2>1. ASSUME NEW h \in Handlers, Server!Begin(h) \/ Server!Change(h) \/ Server!Answer(h)
        PROVE  EventsInv'
    BY <2>1 DEF Server!Begin, Server!Change, Server!Answer, EventsInv, Server!TypeOK,
       Server!Pending
  <2>2. ASSUME NEW h \in Handlers, Server!Record(h)
        PROVE  EventsInv'
    BY <2>2, EventsAssumption, RecordStep
  <2>3. CASE Server!Receive \/ Server!Save
    BY <2>3, EventsAssumption, ReceiveStep, SaveStep
  <2>4. CASE Server!WriterEnds
    BY <2>4, EventsAssumption DEF Server!WriterEnds, EventsInv, Server!TypeOK, Server!Pending,
       Server!EventsNamed
  <2>5. CASE Server!Signal \/ Server!ShutdownBegins \/ Server!ShutdownReturns \/ Server!Exit
    BY <2>5 DEF Server!Signal, Server!ShutdownBegins, Server!ShutdownReturns, Server!Exit,
       Server!Drain, Server!Timeout, EventsInv, Server!TypeOK, Server!Pending
  <2>6. CASE UNCHANGED Server!vars
    BY <2>6 DEF Server!vars, EventsInv, Server!TypeOK, Server!Pending
  <2> QED
    BY <2>1, <2>2, <2>3, <2>4, <2>5, <2>6 DEF Server!Next
<1> QED
  BY <1>1, <1>2, EventsRun, PTL

\* What was accepted is in the table, in order and once, but for the events whose write
\* failed, and then come the one being written and the queue, up to the moment the writer
\* ends: for any number of handlers and any length of the queue (Recorder).
THEOREM EventsInOrder == Spec => []AcceptedInOrder
<1>1. EventsInv => AcceptedInOrder
  BY OrderedMeans DEF EventsInv, AcceptedInOrder
<1> QED
  BY <1>1, EventsInvariance, PTL

-----------------------------------------------------------------------------
(***************************************************************************)
(* Natural numbers and lists.                                              *)
(***************************************************************************)
\* Induction over the naturals, for a set: the library's theorem takes an operator, which
\* the provers cannot instantiate, but a least element of the complement does as well.
LEMMA Induct ==
  ASSUME NEW S \in SUBSET Nat, 0 \in S, \A w \in S : w + 1 \in S
  PROVE  S = Nat
<1> DEFINE R == {ss \in Nat \X Nat : ss[1] < ss[2]}
           T == Nat \ S
<1>1. IsWellFoundedOn(R, Nat)
  BY NatLessThanWellFounded DEF OpToRel
<1>2. SUFFICES ASSUME T # {} PROVE FALSE
  OBVIOUS
<1>3. PICK x \in T : \A y \in T : ~(<<y, x>> \in R)
  <2> HIDE DEF R, T
  <2>1. T \subseteq Nat
    BY DEF T
  <2>2. QED
    BY <1>1, <1>2, <2>1, WFMin
<1>4. x \in Nat /\ x # 0 /\ x - 1 \in Nat /\ <<x - 1, x>> \in R
  BY <1>3
<1>5. x - 1 \in S
  BY <1>3, <1>4
<1>6. QED
  BY <1>3, <1>4, <1>5

\* The steps of a loop of w rounds over values in V, and the values of its rounds.
Loops(w, V) == [1..w -> [V -> V]]
Rounds(g, w, V, c, round) ==
  g \in [0..w -> V] /\ g[0] = c /\ \A i \in 1..w : g[i] = round[i][g[i - 1]]

\* A function defined by primitive recursion exists.
LEMMA Recursion ==
  ASSUME NEW w \in Nat, NEW V, NEW c \in V, NEW round \in Loops(w, V)
  PROVE  \E g : Rounds(g, w, V, c, round)
<1> USE DEF Loops, Rounds
<1> DEFINE Upto(m) == \E g \in [0..m -> V] : g[0] = c /\ \A i \in 1..m : g[i] = round[i][g[i - 1]]
           S == {m \in Nat : m <= w => Upto(m)}
<1>1. 0 \in S
  <2>1. [i \in 0..0 |-> c] \in [0..0 -> V]
    OBVIOUS
  <2>2. Upto(0)
    <3>1. WITNESS [i \in 0..0 |-> c] \in [0..0 -> V]
    <3>2. QED
      OBVIOUS
  <2>3. QED
    BY <2>2
<1>2. ASSUME NEW m \in S, m + 1 <= w
      PROVE  Upto(m + 1)
  <2>1. m \in Nat /\ m <= w /\ m + 1 \in 1..w
    BY <1>2
  <2>2. PICK g \in [0..m -> V] : g[0] = c /\ \A i \in 1..m : g[i] = round[i][g[i - 1]]
    BY <1>2, <2>1
  <2> DEFINE more == [i \in 0..(m + 1) |-> IF i <= m THEN g[i] ELSE round[i][g[i - 1]]]
  <2>3. g[m] \in V /\ round[m + 1] \in [V -> V] /\ round[m + 1][g[m]] \in V
    BY <2>1, <2>2
  <2>4. more \in [0..(m + 1) -> V]
    BY <2>1, <2>3
  <2>5. more[0] = c
    BY <2>1, <2>2
  <2>6. ASSUME NEW i \in 1..(m + 1)
        PROVE  more[i] = round[i][more[i - 1]]
    <3>1. CASE i <= m
      BY <2>1, <2>2, <2>6, <3>1
    <3>2. CASE i = m + 1
      BY <2>1, <3>2
    <3>3. QED
      BY <2>1, <2>6, <3>1, <3>2
  <2> HIDE DEF more
  <2>7. QED
    BY <2>4, <2>5, <2>6
<1>3. \A m \in S : m + 1 \in S
  <2> HIDE DEF Upto
  <2>1. QED
    BY <1>2
<1>4. S = Nat
  <2> HIDE DEF S
  <2>1. S \in SUBSET Nat
    BY DEF S
  <2>2. QED
    BY <1>1, <1>3, <2>1, Induct
<1>5. QED
  BY <1>4

\* The recursive function of Keep satisfies its equation.
LEMMA KeepEquation ==
  ASSUME NEW T, NEW s \in Seq(T), NEW S
  PROVE  \E g : /\ Keep(s, S) = g[Len(s)] /\ g[0] = <<>>
                /\ \A i \in 1..Len(s) :
                     g[i] = IF s[i] \in S THEN Append(g[i - 1], s[i]) ELSE g[i - 1]
<1> DEFINE w == Len(s)
           V == Seq(T)
           none == <<>>
           Turned(g, i) == IF i = 0 THEN <<>>
                           ELSE IF s[i] \in S THEN Append(g[i - 1], s[i]) ELSE g[i - 1]
           Equation(g) == g = [i \in 0..w |-> Turned(g, i)]
           round == [i \in 1..w |->
             [q \in V |-> IF s[i] \in S THEN Append(q, s[i]) ELSE q]]
           kept == CHOOSE g : Equation(g)
<1>1. w \in Nat /\ none \in V /\ round \in [1..w -> [V -> V]]
  <2>1. w \in Nat /\ none \in V
    OBVIOUS
  <2>2. ASSUME NEW i \in 1..w, NEW q \in V
        PROVE  (IF s[i] \in S THEN Append(q, s[i]) ELSE q) \in V
    <3>1. s[i] \in T
      BY ElementOfSeq
    <3>2. Append(q, s[i]) \in V
      BY <3>1, AppendProperties
    <3>3. QED
      BY <3>2
  <2>3. QED
    BY <2>1, <2>2
<1>2. \E g \in [0..w -> V] : g[0] = none /\ \A i \in 1..w : g[i] = round[i][g[i - 1]]
  <2>1. round \in Loops(w, V)
    BY <1>1 DEF Loops
  <2> HIDE DEF w, V, none, round, Turned, Equation, kept
  <2>2. \E g : Rounds(g, w, V, none, round)
    BY <1>1, <2>1, Recursion
  <2>3. QED
    BY <2>2 DEF Rounds
<1>3. PICK g \in [0..w -> V] : g[0] = none /\ \A i \in 1..w : g[i] = round[i][g[i - 1]]
  BY <1>2
<1>4. Equation(g)
  <2>1. ASSUME NEW i \in 1..w
        PROVE  g[i] = Turned(g, i)
    <3>1. i # 0 /\ i - 1 \in 0..w
      BY <1>1
    <3>2. g[i - 1] \in V
      <4> HIDE DEF w, V
      <4>1. QED
        BY <1>3, <3>1
    <3>3. round[i][g[i - 1]] = IF s[i] \in S THEN Append(g[i - 1], s[i]) ELSE g[i - 1]
      <4> HIDE DEF w, V
      <4>1. QED
        BY <3>2
    <3>4. QED
      BY <1>3, <3>1, <3>3
  <2>2. g[0] = Turned(g, 0)
    BY <1>3
  <2>3. \A i \in 0..w : g[i] = Turned(g, i)
    <3> HIDE DEF Turned, w
    <3>1. QED
      BY <1>1, <2>1, <2>2
  <2> HIDE DEF Turned, w, V
  <2>4. QED
    BY <1>3, <2>3
<1>5. Equation(kept)
  <2> HIDE DEF Equation
  <2>1. QED
    BY <1>4
<1>6. Keep(s, S) = kept[w]
  BY DEF Keep
<1>7. \A i \in 0..w : kept[i] = Turned(kept, i)
  <2> HIDE DEF kept, Turned, w
  <2>1. QED
    BY <1>5
<1>8. kept[0] = <<>>
  <2>1. kept[0] = Turned(kept, 0)
    <3> HIDE DEF kept, Turned, w
    <3>1. QED
      BY <1>1, <1>7
  <2> HIDE DEF kept
  <2>2. QED
    BY <2>1
<1>9. ASSUME NEW i \in 1..w
      PROVE  kept[i] = IF s[i] \in S THEN Append(kept[i - 1], s[i]) ELSE kept[i - 1]
  <2>1. kept[i] = Turned(kept, i) /\ i # 0
    <3> HIDE DEF kept, Turned, w
    <3>1. QED
      BY <1>1, <1>7
  <2> HIDE DEF kept
  <2>2. QED
    BY <2>1
<1>10. QED
  <2> HIDE DEF kept
  <2>1. QED
    BY <1>6, <1>8, <1>9

\* What Keep keeps: members of the list that are in the set, as often as the list has
\* them and no more of them.
LEMMA KeepMembers ==
  ASSUME NEW T, NEW s \in Seq(T), NEW S
  PROVE  /\ Keep(s, S) \in Seq(T) /\ Len(Keep(s, S)) <= Len(s)
         /\ \A i \in 1..Len(Keep(s, S)) : \E j \in 1..Len(s) :
              Keep(s, S)[i] = s[j] /\ s[j] \in S
         /\ (\A i, j \in 1..Len(s) : s[i] = s[j] => i = j) =>
              \A i, j \in 1..Len(Keep(s, S)) : Keep(s, S)[i] = Keep(s, S)[j] => i = j
<1> DEFINE w == Len(s)
<1>1. w \in Nat /\ <<>> \in Seq(T) /\ \A i \in 1..w : s[i] \in T
  BY ElementOfSeq
<1>2. PICK g : /\ Keep(s, S) = g[w] /\ g[0] = <<>>
               /\ \A i \in 1..w : g[i] = IF s[i] \in S THEN Append(g[i - 1], s[i]) ELSE g[i - 1]
  BY KeepEquation
<1> DEFINE From(q, m) == \A i \in 1..Len(q) : \E j \in 1..m : q[i] = s[j] /\ s[j] \in S
           Once(q) == \A i, j \in 1..Len(q) : q[i] = q[j] => i = j
           Apart == \A i, j \in 1..w : s[i] = s[j] => i = j
           Good(m) == /\ g[m] \in Seq(T) /\ Len(g[m]) <= m /\ From(g[m], m)
                      /\ Apart => Once(g[m])
           M == {m \in Nat : m <= w => Good(m)}
<1>3. 0 \in M
  <2>1. g[0] \in Seq(T) /\ Len(g[0]) = 0
    BY <1>1, <1>2
  <2>2. From(g[0], 0) /\ Once(g[0])
    BY <2>1
  <2> HIDE DEF From, Once
  <2>3. QED
    BY <2>1, <2>2
<1>4. ASSUME NEW m \in M, m + 1 <= w
      PROVE  Good(m + 1)
  <2>1. m \in Nat /\ m + 1 \in 1..w /\ Good(m)
    BY <1>4
  <2> DEFINE q == g[m]
             x == s[m + 1]
  <2>2. q \in Seq(T) /\ x \in T /\ Len(q) \in Nat /\ Len(q) <= m
    BY <1>1, <2>1
  <2>3. g[m + 1] = IF x \in S THEN Append(q, x) ELSE q
    BY <1>2, <2>1
  <2>4. CASE x \notin S
    <3>1. g[m + 1] = q
      BY <2>3, <2>4
    <3>2. From(q, m + 1)
      BY <2>1
    <3> HIDE DEF q
    <3>3. QED
      BY <2>1, <2>2, <3>1, <3>2 DEF q
  <2>5. CASE x \in S
    <3> DEFINE r == Append(q, x)
    <3>1. g[m + 1] = r
      BY <2>3, <2>5
    <3>2. /\ r \in Seq(T) /\ Len(r) = Len(q) + 1 /\ r[Len(q) + 1] = x
          /\ \A i \in 1..Len(q) : r[i] = q[i]
      <4> HIDE DEF q, x
      <4>1. QED
        BY <2>2, AppendProperties
    <3>3. From(q, m) /\ (Apart => Once(q))
      BY <2>1
    <3> HIDE DEF q, r
    <3>4. From(r, m + 1)
      <4>1. ASSUME NEW i \in 1..Len(r)
            PROVE  \E j \in 1..(m + 1) : r[i] = s[j] /\ s[j] \in S
        <5>1. CASE i \in 1..Len(q)
          <6>1. PICK j \in 1..m : q[i] = s[j] /\ s[j] \in S
            BY <3>3, <5>1
          <6>2. j \in 1..(m + 1) /\ r[i] = s[j]
            BY <2>1, <3>2, <5>1, <6>1
          <6>3. QED
            BY <6>1, <6>2
        <5>2. CASE i = Len(q) + 1
          <6>1. m + 1 \in 1..(m + 1)
            BY <2>1
          <6>2. QED
            BY <2>5, <3>2, <5>2, <6>1
        <5>3. QED
          BY <2>2, <3>2, <5>1, <5>2
      <4>2. QED
        BY <4>1
    <3>5. ASSUME Apart
          PROVE  Once(r)
      <4>1. \A i \in 1..Len(q) : r[i] # x
        BY <2>1, <2>2, <3>2, <3>3, <3>5
      <4>2. \A i, j \in 1..Len(q) : r[i] = r[j] => i = j
        BY <3>2, <3>3, <3>5
      <4>3. QED
        BY <2>2, <3>2, <4>1, <4>2
    <3>6. QED
      BY <2>2, <3>1, <3>2, <3>4, <3>5
  <2>6. QED
    BY <2>4, <2>5
<1>5. \A m \in M : m + 1 \in M
  <2> HIDE DEF Good
  <2>1. QED
    BY <1>4
<1>6. M = Nat
  <2>1. M \in SUBSET Nat
    OBVIOUS
  <2> HIDE DEF M
  <2>2. QED
    BY <1>3, <1>5, <2>1, Induct
<1>7. Good(w)
  <2> HIDE DEF Good
  <2>1. QED
    BY <1>1, <1>6
<1>8. QED
  BY <1>2, <1>7

\* Euclidean division of natural numbers.
LEMMA DivMod ==
  ASSUME NEW a \in Nat, NEW d \in Nat \ {0}
  PROVE  /\ a \div d \in Nat
         /\ a % d \in 0..(d - 1)
         /\ a = d * (a \div d) + (a % d)
<1>1. a % d \in 0..(d - 1) /\ a = d * (a \div d) + (a % d) /\ a \div d \in Int
  OBVIOUS
<1>2. a \div d >= 0
  <2>1. SUFFICES ASSUME a \div d <= -1 PROVE FALSE
    BY <1>1
  <2>2. d * (a \div d) <= -d
    BY <1>1, <2>1
  <2>3. QED
    BY <1>1, <2>2
<1>3. QED
  BY <1>1, <1>2

\* A quotient is the only number whose multiple brackets the dividend.
LEMMA DivUnique ==
  ASSUME NEW d \in Nat \ {0}, NEW q \in Int, NEW r \in 0..(d - 1),
         NEW q2 \in Int, NEW r2 \in 0..(d - 1), d * q + r = d * q2 + r2
  PROVE  q = q2 /\ r = r2
<1>1. d * (q - q2) = r2 - r
  OBVIOUS
<1>2. ~(q - q2 >= 1)
  <2>1. SUFFICES ASSUME q - q2 >= 1 PROVE FALSE
    OBVIOUS
  <2>2. d * (q - q2) >= d
    BY <2>1
  <2>3. QED
    BY <1>1, <2>2
<1>3. ~(q - q2 <= -1)
  <2>1. SUFFICES ASSUME q - q2 <= -1 PROVE FALSE
    OBVIOUS
  <2>2. d * (q - q2) <= -d
    BY <2>1
  <2>3. QED
    BY <1>1, <2>2
<1>4. q = q2
  BY <1>2, <1>3
<1>5. QED
  BY <1>1, <1>4

\* A number below twice the modulus wraps around once or not at all.
LEMMA ModOnce ==
  ASSUME NEW w \in Nat \ {0}, NEW x \in Nat, x < 2 * w
  PROVE  x % w = IF x < w THEN x ELSE x - w
<1> DEFINE q == x \div w
           r == x % w
<1>1. q \in Nat /\ r \in 0..(w - 1) /\ x = w * q + r
  BY DivMod
<1> HIDE DEF q, r
<1>2. q <= 1
  <2>1. SUFFICES ASSUME q >= 2 PROVE FALSE
    BY <1>1
  <2>2. w * q >= w * 2
    BY <1>1, <2>1
  <2>3. QED
    BY <1>1, <2>2
<1>3. q = 0 \/ q = 1
  BY <1>1, <1>2
<1>4. r = IF x < w THEN x ELSE x - w
  BY <1>1, <1>3
<1>5. QED
  BY <1>4 DEF r

-----------------------------------------------------------------------------
(***************************************************************************)
(* The scan detector.  The arrivals that are kept are in order, so the     *)
(* early ones are the first, and the requests that were seen are the ones  *)
(* among them that are late enough.                                        *)
(***************************************************************************)

\* The arrivals that are kept are the last ones.
Sorted(s)        == \A i, j \in 1..Len(s) : i <= j => s[i] <= s[j]
EndsWith(s, k, q) == /\ k \in 0..Len(s) /\ Len(q) = Len(s) - k
                     /\ \A i \in 1..(Len(s) - k) : q[i] = s[k + i]

\* What is kept of times in order when the early ones are not: an end of the list.
LEMMA KeepLate ==
  ASSUME NEW s \in Seq(Nat), Sorted(s), NEW c \in Int
  PROVE  \E k \in 0..Len(s) :
           /\ EndsWith(s, k, Keep(s, {t \in Nat : t > c}))
           /\ \A i \in 1..k : s[i] <= c
           /\ \A i \in (k + 1)..Len(s) : s[i] > c
<1> DEFINE w == Len(s)
           Late == {t \in Nat : t > c}
<1>1. w \in Nat /\ <<>> \in Seq(Nat) /\ \A i \in 1..w : s[i] \in Nat
  BY ElementOfSeq
<1>2. PICK g : /\ Keep(s, Late) = g[w] /\ g[0] = <<>>
               /\ \A i \in 1..w : g[i] = IF s[i] \in Late THEN Append(g[i - 1], s[i]) ELSE g[i - 1]
  <2> HIDE DEF Late
  <2>1. QED
    BY KeepEquation
<1> DEFINE Cut(m, k) == /\ Len(g[m]) = m - k
                        /\ \A i \in 1..(m - k) : g[m][i] = s[k + i]
                        /\ \A i \in 1..k : s[i] <= c
                        /\ \A i \in (k + 1)..m : s[i] > c
           Good(m) == g[m] \in Seq(Nat) /\ \E k \in 0..m : Cut(m, k)
           M == {m \in Nat : m <= w => Good(m)}
<1>3. 0 \in M
  <2>1. Cut(0, 0) /\ g[0] \in Seq(Nat) /\ 0 \in 0..0
    BY <1>1, <1>2
  <2> HIDE DEF Cut
  <2>2. QED
    BY <2>1
<1>4. ASSUME NEW m \in M, m + 1 <= w
      PROVE  Good(m + 1)
  <2>1. m \in Nat /\ m + 1 \in 1..w /\ Good(m)
    <3> HIDE DEF Good, w
    <3>1. QED
      BY <1>1, <1>4
  <2>2. PICK k \in 0..m : Cut(m, k)
    BY <2>1
  <2> DEFINE q == g[m]
             x == s[m + 1]
  <2>3. /\ q \in Seq(Nat) /\ x \in Nat /\ Len(q) \in Nat /\ Len(q) = m - k
        /\ m \in Nat /\ k \in Nat /\ k <= m
    BY <1>1, <2>1, <2>2
  <2>4. g[m + 1] = IF x > c THEN Append(q, x) ELSE q
    BY <1>2, <2>1, <2>3
  <2>5. CASE x > c
    <3> DEFINE r == Append(q, x)
    <3>1. g[m + 1] = r
      BY <2>4, <2>5
    <3>2. /\ r \in Seq(Nat) /\ Len(r) = Len(q) + 1 /\ r[Len(q) + 1] = x
          /\ \A i \in 1..Len(q) : r[i] = q[i]
      <4>1. q \in Seq(Nat) /\ x \in Nat
        BY <2>3
      <4> HIDE DEF q, x
      <4>2. QED
        BY <4>1, AppendProperties
    <3>3. \A i \in 1..((m + 1) - k) : r[i] = s[k + i]
      <4>1. ASSUME NEW i \in 1..((m + 1) - k)
            PROVE  r[i] = s[k + i]
        <5>1. CASE i \in 1..(m - k)
          <6>1. q[i] = s[k + i]
            BY <2>2, <5>1
          <6> HIDE DEF q, r
          <6>2. QED
            BY <2>3, <3>2, <5>1, <6>1
        <5>2. CASE i = (m + 1) - k
          <6> HIDE DEF q, r
          <6>1. k + i = m + 1 /\ i = Len(q) + 1
            <7>1. m \in Nat /\ k \in Nat /\ Len(q) = m - k
              BY <2>3
            <7>2. QED
              BY <5>2, <7>1
          <6>2. QED
            BY <3>2, <6>1 DEF q
        <5>3. m \in Nat /\ k \in Nat
          BY <2>3
        <5> HIDE DEF q, r, Cut, Good
        <5>4. i \in 1..(m - k) \/ i = (m + 1) - k
          BY <5>3
        <5>5. QED
          BY <5>1, <5>2, <5>4
      <4>2. QED
        BY <4>1
    <3>4. \A i \in (k + 1)..(m + 1) : s[i] > c
      BY <2>1, <2>2, <2>5
    <3>5. Len(r) = (m + 1) - k /\ k \in 0..(m + 1)
      BY <2>1, <2>3, <3>2
    <3>6. Cut(m + 1, k)
      <4> HIDE DEF r
      <4>1. QED
        BY <2>2, <3>1, <3>3, <3>4, <3>5
    <3> HIDE DEF r, Cut
    <3>7. QED
      BY <3>1, <3>2, <3>5, <3>6
  <2>6. CASE ~(x > c)
    <3>1. g[m + 1] = q
      BY <2>4, <2>6
    <3>2. \A i \in 1..(m + 1) : s[i] <= x /\ s[i] \in Nat
      <4>1. \A i \in 1..(m + 1) : i \in 1..w /\ i <= m + 1 /\ m + 1 \in 1..w
        BY <1>1, <2>1
      <4> HIDE DEF Good
      <4>2. QED
        BY <1>1, <4>1 DEF Sorted
    <3>3. \A i \in 1..(m + 1) : s[i] <= c
      <4>1. x \in Nat /\ x <= c
        BY <2>3, <2>6
      <4> HIDE DEF x
      <4>2. QED
        BY <3>2, <4>1
    <3>4. k = m
      <4>1. SUFFICES ASSUME k < m PROVE FALSE
        BY <2>2
      <4>2. k + 1 \in (k + 1)..m /\ k + 1 \in 1..(m + 1)
        <5>1. m \in Nat /\ k \in Nat
          BY <2>3
        <5>2. QED
          BY <4>1, <5>1
      <4>3. s[k + 1] > c /\ s[k + 1] <= c /\ s[k + 1] \in Nat
        BY <2>2, <3>2, <3>3, <4>2
      <4>4. QED
        BY <4>3
    <3>5. Cut(m + 1, m + 1)
      <4>1. Len(q) = 0
        BY <2>3, <3>4
      <4> HIDE DEF q
      <4>2. QED
        BY <2>1, <3>1, <3>3, <4>1
    <3>6. m + 1 \in 0..(m + 1)
      BY <2>1
    <3> HIDE DEF Cut, q
    <3>7. QED
      BY <2>3, <3>1, <3>5, <3>6
  <2>7. QED
    BY <2>5, <2>6
<1>5. \A m \in M : m + 1 \in M
  <2> HIDE DEF Good
  <2>1. QED
    BY <1>4
<1>6. M = Nat
  <2>1. M \in SUBSET Nat
    OBVIOUS
  <2> HIDE DEF M
  <2>2. QED
    BY <1>3, <1>5, <2>1, Induct
<1>7. Good(w)
  <2> HIDE DEF Good
  <2>1. QED
    BY <1>1, <1>6
<1>8. PICK k \in 0..w : Cut(w, k)
  BY <1>7
<1>9. EndsWith(s, k, Keep(s, Late))
  BY <1>2, <1>8 DEF EndsWith
<1>10. QED
  BY <1>8, <1>9

\* What the tracker knows: the requests it holds are the last of those that arrived, and
\* the others are too old to count.
ScanInv ==
  /\ now \in Nat /\ known \in BOOLEAN /\ lastAccess \in Nat
  /\ arrivals \in Seq(Nat) /\ Sorted(arrivals) /\ requests \in Seq(Nat)
  /\ \A i \in 1..Len(arrivals) : arrivals[i] <= now /\ (known => arrivals[i] <= lastAccess)
  /\ ~known => requests = <<>>
  /\ \E k \in 0..Len(arrivals) :
       EndsWith(arrivals, k, requests) /\ \A i \in 1..k : arrivals[i] <= now - Second

\* A request: as many are kept as arrived in the last second.
LEMMA RequestCounted ==
  ASSUME Scan!WindowGiven, ScanInv, Scan!recordRequest, UNCHANGED now
  PROVE  /\ ScanInv'
         /\ Len(requests') =
              Cardinality({i \in DOMAIN arrivals' : arrivals'[i] > now - Second})
<1> DEFINE c == now - Second
           s == Append(requests, now)
           all == Append(arrivals, now)
<1>1. now \in Nat /\ Second \in Nat /\ c \in Int /\ c <= now
  BY DEF ScanInv, Scan!WindowGiven
<1>2. /\ requests \in Seq(Nat) /\ arrivals \in Seq(Nat) /\ Sorted(arrivals)
      /\ Len(requests) \in Nat /\ Len(arrivals) \in Nat
      /\ \A i \in 1..Len(arrivals) : arrivals[i] <= now /\ arrivals[i] \in Nat
  BY ElementOfSeq DEF ScanInv
<1>3. PICK k \in 0..Len(arrivals) :
        EndsWith(arrivals, k, requests) /\ \A i \in 1..k : arrivals[i] <= c
  BY DEF ScanInv
<1>4. /\ s \in Seq(Nat) /\ Len(s) = Len(requests) + 1 /\ s[Len(requests) + 1] = now
      /\ \A i \in 1..Len(requests) : s[i] = requests[i]
  BY <1>1, <1>2, AppendProperties
<1>5. /\ all \in Seq(Nat) /\ Len(all) = Len(arrivals) + 1 /\ all[Len(arrivals) + 1] = now
      /\ \A i \in 1..Len(arrivals) : all[i] = arrivals[i]
  BY <1>1, <1>2, AppendProperties
<1>6. arrivals' = all /\ known' = TRUE /\ lastAccess' = now
      /\ requests' = Keep(s, {t \in Nat : t > c})
  <2>1. (IF known THEN requests ELSE <<>>) = requests
    BY DEF ScanInv
  <2>2. \A q, S : Scan!Keep(q, S) = Keep(q, S)
    BY DEF Scan!Keep, Keep
  <2>3. QED
    BY <2>1, <2>2 DEF Scan!recordRequest, Scan!Valid
<1> HIDE DEF s, all, c
<1>7. \A i \in 1..Len(all) : all[i] <= now /\ all[i] \in Nat
  <2>1. ASSUME NEW i \in 1..Len(all)
        PROVE  all[i] <= now /\ all[i] \in Nat
    <3>1. CASE i = Len(arrivals) + 1
      BY <1>1, <1>5, <3>1
    <3>2. CASE i \in 1..Len(arrivals)
      BY <1>2, <1>5, <3>2
    <3>3. QED
      BY <1>2, <1>5, <3>1, <3>2
  <2>2. QED
    BY <2>1
<1>8. Sorted(all)
  <2>1. ASSUME NEW i \in 1..Len(all), NEW j \in 1..Len(all), i <= j
        PROVE  all[i] <= all[j]
    <3>1. CASE j = Len(arrivals) + 1
      BY <1>7, <2>1, <1>5, <3>1
    <3>2. CASE j \in 1..Len(arrivals)
      <4>1. i \in 1..Len(arrivals)
        BY <1>2, <2>1, <3>2
      <4>2. QED
        BY <1>2, <1>5, <2>1, <3>2, <4>1 DEF Sorted
    <3>3. QED
      BY <1>2, <1>5, <3>1, <3>2
  <2>2. QED
    BY <2>1 DEF Sorted
<1>9. EndsWith(all, k, s) /\ \A i \in 1..k : all[i] <= c
  <2>1. /\ Len(requests) = Len(arrivals) - k
        /\ \A i \in 1..(Len(arrivals) - k) : requests[i] = arrivals[k + i]
    BY <1>3 DEF EndsWith
  <2>2. ASSUME NEW i \in 1..(Len(all) - k)
        PROVE  s[i] = all[k + i]
    <3>1. CASE i \in 1..(Len(arrivals) - k)
      <4>1. k + i \in 1..Len(arrivals)
        BY <1>2, <1>3, <3>1
      <4>2. QED
        BY <1>4, <1>5, <2>1, <3>1, <4>1
    <3>2. CASE i = Len(arrivals) + 1 - k
      BY <1>2, <1>3, <1>4, <1>5, <2>1, <3>2
    <3>3. QED
      BY <1>2, <1>3, <1>5, <3>1, <3>2
  <2>3. k \in 0..Len(all) /\ Len(s) = Len(all) - k
    BY <1>2, <1>3, <1>4, <1>5, <2>1
  <2>4. \A i \in 1..k : all[i] <= c
    <3>1. \A i \in 1..k : i \in 1..Len(arrivals)
      BY <1>2, <1>3
    <3>2. QED
      BY <1>3, <1>5, <3>1
  <2>5. QED
    BY <2>2, <2>3, <2>4 DEF EndsWith
<1>10. Sorted(s)
  <2>1. \A i \in 1..Len(s) : s[i] = all[k + i] /\ k + i \in 1..Len(all)
    BY <1>2, <1>3, <1>4, <1>5, <1>9 DEF EndsWith
  <2>2. ASSUME NEW i \in 1..Len(s), NEW j \in 1..Len(s), i <= j
        PROVE  s[i] <= s[j]
    <3>1. k + i <= k + j
      BY <1>2, <1>3, <1>4, <2>2
    <3>2. all[k + i] <= all[k + j]
      BY <1>8, <2>1, <3>1 DEF Sorted
    <3>3. QED
      BY <2>1, <3>2
  <2>3. QED
    BY <2>2 DEF Sorted
<1>11. PICK d \in 0..Len(s) :
         /\ EndsWith(s, d, Keep(s, {t \in Nat : t > c}))
         /\ \A i \in 1..d : s[i] <= c
         /\ \A i \in (d + 1)..Len(s) : s[i] > c
  BY <1>1, <1>4, <1>10, KeepLate
<1> DEFINE e == k + d
           L == Len(all)
<1>12. e \in 0..L /\ L \in Nat /\ k \in Nat /\ d \in Nat /\ Len(s) = L - k
  BY <1>2, <1>3, <1>4, <1>5, <1>9, <1>11 DEF EndsWith
<1>13. Len(requests') = L - e /\ requests' \in Seq(Nat)
  <2>1. Keep(s, {t \in Nat : t > c}) \in Seq(Nat)
    BY <1>4, KeepMembers
  <2>2. QED
    BY <1>6, <1>11, <1>12, <2>1 DEF EndsWith
<1>14. \A i \in 1..L : all[i] \in Nat /\ (all[i] > c <=> i > e)
  <2>1. ASSUME NEW i \in 1..L
        PROVE  all[i] \in Nat /\ (all[i] > c <=> i > e)
    <3>1. all[i] \in Nat
      BY <1>5, ElementOfSeq
    <3>2. CASE i \in 1..k
      BY <1>1, <1>9, <1>12, <3>1, <3>2
    <3>3. CASE i > k
      <4> DEFINE j == i - k
      <4>1. j \in 1..Len(s) /\ s[j] = all[i]
        BY <1>9, <1>12, <3>3 DEF EndsWith
      <4>2. CASE j <= d
        BY <1>1, <1>11, <1>12, <3>1, <4>1, <4>2
      <4>3. CASE j > d
        BY <1>1, <1>11, <1>12, <3>1, <4>1, <4>3
      <4>4. QED
        BY <1>12, <4>2, <4>3
    <3>4. QED
      BY <1>12, <3>2, <3>3
  <2>2. QED
    BY <2>1
<1>15. {i \in DOMAIN arrivals' : arrivals'[i] > c} = (e + 1)..L
  <2>1. DOMAIN all = 1..L
    BY <1>5
  <2> HIDE DEF e, L
  <2>2. QED
    BY <1>6, <1>12, <1>14, <2>1
<1>16. Cardinality((e + 1)..L) = L - e
  <2> HIDE DEF e, L
  <2>1. e + 1 \in Int /\ L \in Int
    BY <1>12
  <2>2. Cardinality((e + 1)..L) = IF e + 1 > L THEN 0 ELSE L - (e + 1) + 1
    BY <2>1, FS_Interval
  <2>3. QED
    BY <1>12, <2>2
<1>17. EndsWith(all, e, requests') /\ \A i \in 1..e : all[i] <= c
  <2>1. \A i \in 1..(L - e) : requests'[i] = all[e + i]
    <3>1. ASSUME NEW i \in 1..(L - e)
          PROVE  requests'[i] = all[e + i]
      <4>1. requests'[i] = s[d + i] /\ d + i \in 1..Len(s)
        BY <1>6, <1>11, <1>12, <3>1 DEF EndsWith
      <4>2. s[d + i] = all[k + (d + i)] /\ k + (d + i) = e + i
        BY <1>9, <1>12, <4>1 DEF EndsWith
      <4>3. QED
        BY <4>1, <4>2
    <3>2. QED
      BY <3>1
  <2>2. \A i \in 1..e : all[i] <= c
    BY <1>1, <1>12, <1>14
  <2>3. QED
    BY <1>12, <1>13, <2>1, <2>2 DEF EndsWith
<1> HIDE DEF e, L
<1>18. ScanInv'
  <2>1. e \in 0..Len(all)
    BY <1>12 DEF L
  <2>2. QED
    BY <1>1, <1>5, <1>6, <1>7, <1>13, <1>17, <1>8, <2>1 DEF ScanInv, c
<1>19. QED
  BY <1>13, <1>15, <1>16, <1>18 DEF c

\* An entry that is forgotten held nothing that still counts.
LEMMA ForgottenUncounted ==
  ASSUME Scan!WindowGiven, ScanInv, Scan!cleanup
  PROVE  ScanInv'
<1>1. /\ known /\ now - lastAccess > TTL /\ ~known' /\ known' \in BOOLEAN /\ requests' = <<>>
      /\ lastAccess' = 0 /\ UNCHANGED <<now, arrivals>>
  BY DEF Scan!cleanup, Scan!Stale
<1>2. {Second, TTL} \subseteq Nat /\ TTL >= Second
  BY DEF Scan!WindowGiven
<1> DEFINE L == Len(arrivals)
<1>3. L \in Nat /\ now \in Nat /\ lastAccess \in Nat /\ \A i \in 1..L : arrivals[i] \in Nat
  BY ElementOfSeq DEF ScanInv
<1>4. \A i \in 1..L : arrivals[i] <= now - Second
  BY <1>1, <1>2, <1>3 DEF ScanInv
<1>5. EndsWith(arrivals, L, requests') /\ L \in 0..L
  BY <1>1, <1>3 DEF EndsWith
<1>6. QED
  <2>1. \E k \in 0..L :
          EndsWith(arrivals, k, requests') /\ \A i \in 1..k : arrivals[i] <= now - Second
    BY <1>4, <1>5
  <2>2. QED
    BY <1>1, <1>3, <2>1 DEF ScanInv

\* Time passes.
LEMMA OlderUncounted ==
  ASSUME Scan!WindowGiven, ScanInv, Scan!Tick
  PROVE  ScanInv'
<1>1. now' = now + 1 /\ UNCHANGED <<known, requests, lastAccess, arrivals>>
  BY DEF Scan!Tick
<1>2. Second \in Nat /\ now \in Nat /\ \A i \in 1..Len(arrivals) : arrivals[i] \in Nat
  BY ElementOfSeq DEF ScanInv, Scan!WindowGiven
<1>3. PICK k \in 0..Len(arrivals) :
        EndsWith(arrivals, k, requests) /\ \A i \in 1..k : arrivals[i] <= now - Second
  BY DEF ScanInv
<1>4. \A i \in 1..k : arrivals[i] <= now' - Second
  <2>1. \A i \in 1..k : i \in 1..Len(arrivals)
    BY <1>3, <1>2 DEF ScanInv
  <2>2. QED
    BY <1>1, <1>2, <1>3, <2>1
<1>5. \A i \in 1..Len(arrivals) : arrivals[i] <= now'
  BY <1>1, <1>2 DEF ScanInv
<1>6. \E x \in 0..Len(arrivals) :
        EndsWith(arrivals, x, requests) /\ \A i \in 1..x : arrivals[i] <= now' - Second
  BY <1>3, <1>4
<1>7. QED
  BY <1>1, <1>2, <1>5, <1>6 DEF ScanInv

\* The last verdict is for the requests that arrived in the last second.
Counted ==
  arrivals' # arrivals =>
    LET recent == {i \in DOMAIN arrivals' : arrivals'[i] > now - Second}
    IN  verdict'.delayed <=> ~verdict'.stream /\ Scan!Cardinality(recent) > Threshold

\* A step of the detector keeps the invariant, and its verdict is right.
LEMMA ScanStep ==
  ASSUME Scan!WindowGiven, ScanInv, Scan!Next
  PROVE  ScanInv' /\ Counted
<1>1. ASSUME NEW video \in BOOLEAN, NEW head, Scan!Request(video, head)
      PROVE  ScanInv' /\ Counted
  <2> DEFINE stream == video /\ Scan!isSignificantRange(head)
             recent == {i \in DOMAIN arrivals' : arrivals'[i] > now - Second}
             slow == ~stream /\ Len(requests') > Threshold
  <2>1. /\ Scan!recordRequest /\ UNCHANGED now
        /\ verdict' = [video |-> video, stream |-> stream, delayed |-> slow]
    BY <1>1 DEF Scan!Request
  <2>2. ScanInv' /\ Len(requests') = Cardinality(recent)
    BY <2>1, RequestCounted
  <2>3. Scan!Cardinality(recent) = Cardinality(recent)
    BY DEF Scan!Cardinality, Cardinality
  <2> HIDE DEF recent
  <2>4. stream \in BOOLEAN /\ slow \in BOOLEAN
    BY DEF Scan!isSignificantRange
  <2>5. slow <=> ~stream /\ Scan!Cardinality(recent) > Threshold
    <3> HIDE DEF stream
    <3>1. QED
      BY <2>2, <2>3
  <2>6. verdict'.stream = stream /\ verdict'.delayed = slow
    <3> HIDE DEF stream, slow
    <3>1. QED
      BY <2>1
  <2> HIDE DEF stream, slow
  <2>7. verdict'.delayed <=> ~verdict'.stream /\ Scan!Cardinality(recent) > Threshold
    BY <2>4, <2>5, <2>6, Zenon
  <2>8. QED
    BY <2>2, <2>7 DEF Counted, recent
<1>2. CASE Scan!cleanup
  BY <1>2, ForgottenUncounted DEF Counted, Scan!cleanup
<1>3. CASE Scan!Tick
  BY <1>3, OlderUncounted DEF Counted, Scan!Tick
<1>4. QED
  BY <1>1, <1>2, <1>3 DEF Scan!Next

\* What the scan detector knows, for any threshold, window and lifetime of an entry, at any
\* rate of requests (requestTracker.recordRequest, cleanup).
THEOREM ScanInvariance == Spec => []ScanInv
<1> USE WindowAssumption
<1>1. Scan!Init => ScanInv
  <2> SUFFICES ASSUME Scan!Init PROVE ScanInv
    OBVIOUS
  <2>1. now = 0 /\ known = FALSE /\ requests = <<>> /\ lastAccess = 0 /\ arrivals = <<>>
    BY DEF Scan!Init
  <2>2. EndsWith(arrivals, 0, requests) /\ 0 \in 0..Len(arrivals) /\ Sorted(arrivals)
    BY <2>1 DEF EndsWith, Sorted
  <2>3. \E k \in 0..Len(arrivals) :
          EndsWith(arrivals, k, requests) /\ \A i \in 1..k : arrivals[i] <= now - Second
    BY <2>2
  <2>4. arrivals \in Seq(Nat) /\ requests \in Seq(Nat) /\ Len(arrivals) = 0
    BY <2>1
  <2>5. now \in Nat /\ known \in BOOLEAN /\ lastAccess \in Nat
    BY <2>1
  <2>6. \A i \in 1..Len(arrivals) : arrivals[i] <= now /\ (known => arrivals[i] <= lastAccess)
    BY <2>4
  <2>7. QED
    BY <2>1, <2>2, <2>3, <2>4, <2>5, <2>6, Zenon DEF ScanInv
<1>2. ScanInv /\ [Scan!Next]_Scan!vars => ScanInv'
  <2>1. ASSUME ScanInv, UNCHANGED Scan!vars
        PROVE  ScanInv'
    BY <2>1 DEF ScanInv, Scan!vars
  <2>2. QED
    BY <2>1, ScanStep
<1> QED
  BY <1>1, <1>2, ThrottleRuns, PTL

\* A request is delayed exactly when it does not stream and more than the threshold arrived
\* within the last second, whatever was forgotten (ScanDetector).
THEOREM DelaysAreCounted == Spec => DelayedAsCounted
<1> USE WindowAssumption
<1>1. ScanInv /\ [Scan!Next]_Scan!vars => [Counted]_Scan!vars
  BY ScanStep
<1>2. [Counted]_Scan!vars =>
        [arrivals' # arrivals =>
           LET recent == {i \in DOMAIN arrivals' : arrivals'[i] > now - Second}
           IN  verdict'.delayed <=>
                 ~verdict'.stream /\ Scan!Cardinality(recent) > Threshold]_Scan!vars
  BY DEF Counted
<1> QED
  BY <1>1, <1>2, ScanInvariance, ThrottleRuns, PTL DEF DelayedAsCounted, Scan!DelayedAsCounted

-----------------------------------------------------------------------------
(***************************************************************************)
(* Messages in batches.  A batch that was answered has its messages in the *)
(* order of the ids, so joined in the order of the batches they all are;   *)
(* the error of a batch that is alone is its own.                          *)
(***************************************************************************)

\* Batch b has been cut from the ids: its first one, and how many it has.
Upto(b)  == b * BatchSize
Count(b) == (IF Upto(b) < n THEN Upto(b) ELSE n) - Upto(b - 1)

\* The messages of a batch that was answered, 0 for those that are gone.
PageOK(b) ==
  /\ page[b] \in Seq(Nat) /\ Len(page[b]) = Count(b)
  /\ \A i \in 1..Count(b) : page[b][i] \in {Upto(b - 1) + i, 0}

\* The answers to the batches: of a copy, no error that was returned is lost.
AnswersInv ==
  \A b \in Batched!Batches :
    /\ batch[b] \in {"answered", "done"} => answer[b] # "none"
    /\ kind = "copy" /\ batch[b] \in {"answered", "done"} /\ answer[b] = "ok" => PageOK(b)
    /\ kind = "copy" /\ batch[b] = "done" /\ first = "ok" => answer[b] = "ok"

\* A batch that is alone deletes everything, and nobody overwrites its error.
AloneInv ==
  kind = "delete" /\ n <= BatchSize =>
    /\ \A b \in Batched!Batches :
         /\ batch[b] \in {"answered", "done"} =>
              shared = answer[b] /\ (answer[b] = "ok" => there = {})
         /\ batch[b] = "done" /\ first = "ok" => answer[b] = "ok"
    /\ step = "deleted" => there = {}

\* The messages of a copy, and those sent again.
SendingInv ==
  /\ step = "fetching" => sent = <<>>
  /\ step \in {"sending", "row"} =>
       /\ got \in Seq(Nat) /\ Len(got) = n /\ \A i \in 1..n : got[i] \in {i, 0}
       /\ sent \in Seq(Nat) /\ Len(sent) <= n /\ \A i \in 1..Len(sent) : sent[i] = i
  /\ step = "row" => Len(sent) = n

\* What holds of the batches in every state.
BatchesInv ==
  /\ kind \in {"copy", "delete"} /\ n \in Nat /\ there \subseteq 1..n
  /\ batch \in [Batched!Batches -> {"waiting", "called", "answered", "done"}]
  /\ answer \in [Batched!Batches -> {"none", "ok", "failed"}]
  /\ page \in [Batched!Batches -> Seq(Nat)]
  /\ {first, shared} \subseteq {"ok", "failed"}
  /\ step \in (IF kind = "copy" THEN {"fetching", "sending", "row", "failed"}
               ELSE {"deleting", "deleted", "failed"})
  /\ AnswersInv /\ AloneInv /\ SendingInv

\* The batches cover the ids, and none but the last is short.
LEMMA BatchNumbers ==
  ASSUME Batched!BatchesGiven, n \in Nat
  PROVE  \E most \in Nat :
           /\ Batched!Batches = 1..most /\ n <= Upto(most) /\ (n <= BatchSize <=> most <= 1)
           /\ Upto(0) = 0
           /\ \A b \in 1..most : /\ Upto(b - 1) \in Nat /\ Upto(b - 1) < n
                                 /\ Upto(b) = Upto(b - 1) + BatchSize
<1> DEFINE w == BatchSize
           a == n + w - 1
           most == a \div w
           rest == a % w
<1>1. w \in Nat \ {0} /\ a \in Nat
  BY DEF Batched!BatchesGiven
<1>2. most \in Nat /\ rest \in 0..(w - 1) /\ a = w * most + rest
  <2> HIDE DEF w, a
  <2>1. QED
    BY <1>1, DivMod
<1> HIDE DEF most, rest
<1>3. Batched!Batches = 1..most
  BY DEF Batched!Batches, most
<1>4. Upto(most) = w * most /\ n <= Upto(most) /\ Upto(most) <= n + w - 1
  BY <1>1, <1>2 DEF Upto
<1>5. \A b \in Int : Upto(b) = Upto(b - 1) + w
  BY <1>1 DEF Upto
<1>6. Upto(0) = 0 /\ Upto(1) = w
  BY <1>1 DEF Upto
<1>7. ASSUME NEW b \in 1..most
      PROVE  Upto(b - 1) \in Nat /\ Upto(b - 1) < n
  <2> DEFINE x == b - 1
             y == most - b
  <2>1. x \in Nat /\ y \in Nat /\ most = x + y + 1
    BY <1>2
  <2>2. w * most = w * x + w * y + w /\ w * x \in Nat /\ w * y \in Nat
    <3> HIDE DEF x, y, w
    <3>1. QED
      BY <1>1, <1>2, <2>1
  <2>3. Upto(b - 1) = w * x
    BY <1>1, <2>1 DEF Upto
  <2> HIDE DEF x, y
  <2>4. QED
    BY <1>1, <1>4, <2>2, <2>3
<1>8. n <= w => most <= 1
  <2>1. ASSUME n <= w, most >= 2
        PROVE  FALSE
    <3>1. 2 \in 1..most
      BY <1>2, <2>1
    <3>2. Upto(2 - 1) < n
      BY <1>7, <3>1
    <3>3. QED
      BY <1>1, <1>6, <2>1, <3>2
  <2>2. QED
    BY <1>2, <2>1
<1>9. most <= 1 => n <= w
  <2>1. most <= 1 => most = 0 \/ most = 1
    BY <1>2
  <2>2. QED
    BY <1>1, <1>4, <1>6, <2>1
<1>10. n <= BatchSize <=> most <= 1
  BY <1>8, <1>9
<1>11. \A b \in 1..most : /\ Upto(b - 1) \in Nat /\ Upto(b - 1) < n
                         /\ Upto(b) = Upto(b - 1) + BatchSize
  BY <1>2, <1>5, <1>7
<1>12. QED
  <2> HIDE DEF w, a
  <2>1. QED
    BY <1>2, <1>3, <1>4, <1>6, <1>10, <1>11

\* Lists that follow one another.
LEMMA FlattenEquation ==
  ASSUME NEW T, NEW lists \in Seq(Seq(T))
  PROVE  \E g : /\ g[0] = <<>> /\ Batched!FlattenSeq(lists) = g[Len(lists)]
                /\ \A i \in 1..Len(lists) : g[i] = g[i - 1] \o lists[i]
<1> DEFINE w == Len(lists)
           V == Seq(T)
           none == <<>>
           round == [i \in 1..w |-> [q \in V |-> q \o lists[i]]]
           Joins(g, i) == IF i = 1 THEN lists[i] ELSE g[i - 1] \o lists[i]
           Equation(g) == g = [i \in 1..w |-> Joins(g, i)]
           flat == CHOOSE g : Equation(g)
<1>1. w \in Nat /\ none \in V /\ \A i \in 1..w : lists[i] \in V
  BY ElementOfSeq
<1>2. round \in Loops(w, V)
  <2>1. ASSUME NEW i \in 1..w, NEW q \in V
        PROVE  q \o lists[i] \in V
    BY <1>1, ConcatProperties
  <2>2. QED
    BY <2>1 DEF Loops
<1>3. PICK g : Rounds(g, w, V, none, round)
  <2> HIDE DEF w, V, none, round
  <2>1. QED
    BY <1>1, <1>2, Recursion
<1>4. g \in [0..w -> V] /\ g[0] = none /\ \A i \in 1..w : g[i] = round[i][g[i - 1]]
  BY <1>3 DEF Rounds
<1>5. \A i \in 1..w : g[i] = g[i - 1] \o lists[i]
  <2>1. ASSUME NEW i \in 1..w
        PROVE  g[i] = g[i - 1] \o lists[i]
    <3>1. i - 1 \in 0..w
      BY <1>1
    <3>2. g[i - 1] \in V
      <4> HIDE DEF w, V
      <4>1. QED
        BY <1>4, <3>1
    <3>3. round[i][g[i - 1]] = g[i - 1] \o lists[i]
      <4> HIDE DEF w, V
      <4>1. QED
        BY <3>2
    <3>4. QED
      BY <1>4, <3>3
  <2>2. QED
    BY <2>1
<1>6. 1 \in 1..w => g[1] = lists[1]
  <2> SUFFICES ASSUME 1 \in 1..w PROVE g[1] = lists[1]
    OBVIOUS
  <2> HIDE DEF w
  <2>1. lists[1] \in Seq(T)
    BY <1>1
  <2>2. g[1] = <<>> \o lists[1]
    <3>1. g[1] = g[1 - 1] \o lists[1]
      BY <1>5
    <3>2. 1 - 1 = 0
      OBVIOUS
    <3>3. QED
      BY <1>4, <3>1, <3>2
  <2>3. <<>> \o lists[1] = lists[1]
    BY <2>1, ConcatEmptySeq
  <2>4. QED
    BY <2>2, <2>3
<1> DEFINE h == [i \in 1..w |-> g[i]]
<1>7. Equation(h)
  <2>1. ASSUME NEW i \in 1..w
        PROVE  g[i] = Joins(h, i)
    <3>1. CASE i = 1
      <4>1. g[1] = lists[1]
        BY <1>6, <3>1
      <4>2. QED
        BY <3>1, <4>1
    <3>2. CASE i # 1
      <4>1. i - 1 \in 1..w
        BY <1>1, <3>2
      <4>2. QED
        BY <1>5, <3>2, <4>1
    <3>3. QED
      BY <3>1, <3>2
  <2>2. h = [i \in 1..w |-> Joins(h, i)]
    <3> HIDE DEF Joins
    <3>1. QED
      BY <2>1
  <2>3. QED
    BY <2>2
<1>8. Equation(flat)
  <2> HIDE DEF Equation, h
  <2>1. QED
    BY <1>7
<1>9. \A i \in 1..w : flat[i] = Joins(flat, i)
  <2> HIDE DEF flat, Joins, w
  <2>1. QED
    BY <1>8
<1>10. \A i \in 1..w : flat[i] = g[i]
  <2> DEFINE S == {i \in Nat : i \in 1..w => flat[i] = g[i]}
  <2>1. 0 \in S
    BY <1>1
  <2>2. ASSUME NEW i \in S
        PROVE  i + 1 \in S
    <3>1. SUFFICES ASSUME i + 1 \in 1..w PROVE flat[i + 1] = g[i + 1]
      OBVIOUS
    <3>2. flat[i + 1] = Joins(flat, i + 1)
      <4> HIDE DEF flat, Joins, w
      <4>1. QED
        BY <1>9, <3>1
    <3>3. CASE i = 0
      <4>1. g[1] = lists[1]
        BY <1>6, <3>1, <3>3
      <4>2. flat[i + 1] = lists[1]
        <5> HIDE DEF flat
        <5>1. QED
          BY <3>2, <3>3
      <4>3. QED
        <5> HIDE DEF flat
        <5>1. QED
          BY <3>3, <4>1, <4>2
    <3>4. CASE i # 0
      <4>1. i \in 1..w /\ (i + 1) - 1 = i
        BY <1>1, <3>1, <3>4
      <4> HIDE DEF flat, w
      <4>2. flat[i] = g[i] /\ i + 1 # 1
        BY <2>2, <4>1, <3>4
      <4>3. flat[i + 1] = flat[i] \o lists[i + 1]
        BY <3>2, <4>1, <4>2
      <4>4. g[i + 1] = g[i] \o lists[i + 1]
        BY <1>5, <3>1, <4>1
      <4>5. QED
        BY <4>2, <4>3, <4>4
    <3>5. QED
      BY <3>3, <3>4
  <2>3. S = Nat
    <3>1. S \in SUBSET Nat
      OBVIOUS
    <3> HIDE DEF S
    <3>2. QED
      BY <2>1, <2>2, <3>1, Induct
  <2>4. \A i \in 1..w : i \in Nat
    BY <1>1
  <2> HIDE DEF flat, w
  <2>5. QED
    BY <2>3, <2>4
<1>11. Batched!FlattenSeq(lists) = g[w]
  <2>1. CASE w = 0
    <3>1. Batched!FlattenSeq(lists) = lists /\ lists = <<>>
      BY <2>1, EmptySeq DEF Batched!FlattenSeq
    <3>2. QED
      BY <1>4, <2>1, <3>1
  <2>2. CASE w # 0
    <3>1. Batched!FlattenSeq(lists) = flat[w]
      BY <2>2 DEF Batched!FlattenSeq
    <3>2. w \in 1..w
      BY <1>1, <2>2
    <3> HIDE DEF flat, w
    <3>3. QED
      BY <1>10, <3>1, <3>2
  <2>3. QED
    BY <2>1, <2>2
<1>12. QED
  BY <1>4, <1>5, <1>11

\* The messages of all batches, in the order of the ids.
LEMMA JoinedInOrder ==
  ASSUME Batched!BatchesGiven, n \in Nat, page \in [Batched!Batches -> Seq(Nat)],
         \A b \in Batched!Batches : PageOK(b)
  PROVE  /\ Batched!Joined \in Seq(Nat) /\ Len(Batched!Joined) = n
         /\ \A i \in 1..n : Batched!Joined[i] \in {i, 0}
<1>1. PICK most \in Nat :
        /\ Batched!Batches = 1..most /\ n <= Upto(most) /\ Upto(0) = 0
        /\ \A b \in 1..most : /\ Upto(b - 1) \in Nat /\ Upto(b - 1) < n
                              /\ Upto(b) = Upto(b - 1) + BatchSize
  BY BatchNumbers
<1>2. BatchSize \in Nat
  BY DEF Batched!BatchesGiven
<1>3. page \in Seq(Seq(Nat)) /\ Len(page) = most
  BY <1>1
<1>4. PICK g : /\ g[0] = <<>> /\ Batched!FlattenSeq(page) = g[most]
               /\ \A i \in 1..most : g[i] = g[i - 1] \o page[i]
  <2>1. \E g : /\ g[0] = <<>> /\ Batched!FlattenSeq(page) = g[Len(page)]
               /\ \A i \in 1..Len(page) : g[i] = g[i - 1] \o page[i]
    BY <1>3, FlattenEquation
  <2>2. QED
    BY <1>3, <2>1
<1> DEFINE Sum(b) == IF Upto(b) < n THEN Upto(b) ELSE n
           Good(b) == /\ g[b] \in Seq(Nat) /\ Len(g[b]) = Sum(b)
                      /\ \A i \in 1..Sum(b) : g[b][i] \in {i, 0}
           S == {b \in Nat : b <= most => Good(b)}
<1>5. 0 \in S
  <2>1. Sum(0) = 0
    BY <1>1
  <2>2. g[0] \in Seq(Nat) /\ Len(g[0]) = 0
    BY <1>4
  <2> HIDE DEF Sum
  <2>3. QED
    BY <2>1, <2>2
<1>6. ASSUME NEW a \in S, a + 1 <= most
      PROVE  Good(a + 1)
  <2> DEFINE b == a + 1
             s == g[a]
             t == page[b]
             u == Upto(a)
  <2>1. a \in Nat /\ a <= most /\ b \in 1..most /\ b - 1 = a /\ Good(a)
    <3> HIDE DEF Good
    <3>1. QED
      BY <1>1, <1>6
  <2>2. u \in Nat /\ u < n /\ Upto(b) = u + BatchSize /\ Sum(a) = u
    <3>1. Upto(b - 1) \in Nat /\ Upto(b - 1) < n /\ Upto(b) = Upto(b - 1) + BatchSize
      BY <1>1, <2>1
    <3>2. u = Upto(b - 1)
      BY <2>1
    <3> HIDE DEF u, b
    <3>3. QED
      BY <3>1, <3>2 DEF u
  <2>3. s \in Seq(Nat) /\ Len(s) = u /\ \A i \in 1..u : s[i] \in {i, 0}
    <3> HIDE DEF u, s, Sum
    <3>1. QED
      BY <2>1, <2>2 DEF s
  <2>4. PageOK(b) /\ Upto(b - 1) = u
    BY <1>1, <2>1
  <2> HIDE DEF b, Good, u
  <2>5. t \in Seq(Nat) /\ Len(t) = Sum(b) - u /\ \A i \in 1..(Sum(b) - u) : t[i] \in {u + i, 0}
    BY <2>4 DEF PageOK, Count
  <2>6. Sum(b) \in Nat /\ Sum(b) > u - 1
    BY <1>2, <2>2
  <2>7. g[b] = s \o t
    BY <1>4, <2>1
  <2> HIDE DEF s, t, Sum
  <2>8. /\ s \o t \in Seq(Nat) /\ Len(s \o t) = Len(s) + Len(t)
        /\ \A i \in 1..(Len(s) + Len(t)) : (s \o t)[i] = IF i <= Len(s) THEN s[i] ELSE t[i - Len(s)]
    BY <2>3, <2>5, ConcatProperties
  <2>9. ASSUME NEW i \in 1..Sum(b)
        PROVE  (s \o t)[i] \in {i, 0}
    <3>1. CASE i <= u
      <4>1. (s \o t)[i] = s[i] /\ i \in 1..u
        BY <2>2, <2>3, <2>5, <2>6, <2>8, <3>1
      <4>2. QED
        BY <2>3, <4>1
    <3>2. CASE i > u
      <4>1. (s \o t)[i] = t[i - u] /\ i - u \in 1..(Sum(b) - u) /\ u + (i - u) = i
        BY <2>2, <2>3, <2>5, <2>6, <2>8, <3>2
      <4>2. QED
        BY <2>5, <4>1
    <3>3. i <= u \/ i > u
      <4>1. i \in Int /\ u \in Int
        BY <2>2, <2>6
      <4>2. QED
        BY <4>1
    <3>4. QED
      BY <3>1, <3>2, <3>3
  <2>10. Len(s \o t) = Sum(b)
    BY <2>2, <2>3, <2>5, <2>6, <2>8
  <2>11. Good(b)
    BY <2>7, <2>8, <2>9, <2>10 DEF Good
  <2>12. QED
    BY <2>11 DEF b
<1>7. \A a \in S : a + 1 \in S
  <2> HIDE DEF Good
  <2>1. QED
    BY <1>6
<1>8. S = Nat
  <2>1. S \in SUBSET Nat
    OBVIOUS
  <2> HIDE DEF S
  <2>2. QED
    BY <1>5, <1>7, <2>1, Induct
<1>9. Good(most)
  <2> HIDE DEF Good
  <2>1. QED
    BY <1>1, <1>8
<1>10. Sum(most) = n
  <2>1. Upto(most) >= n /\ Upto(most) \in Int
    BY <1>1, <1>2 DEF Upto
  <2>2. QED
    BY <2>1
<1>11. Batched!Joined = g[most]
  BY <1>4 DEF Batched!Joined
<1> HIDE DEF Sum
<1>12. QED
  BY <1>9, <1>10, <1>11

\* The ids of a batch.
LEMMA IdsOfBatch ==
  ASSUME Batched!BatchesGiven, n \in Nat, NEW b \in Batched!Batches
  PROVE  /\ Count(b) \in Nat /\ Upto(b - 1) \in Nat
         /\ Batched!IdsOf(b) = [i \in 1..Count(b) |-> Upto(b - 1) + i]
         /\ n <= BatchSize => b = 1 /\ Upto(b - 1) = 0 /\ Count(b) = n
<1>1. PICK most \in Nat :
        /\ Batched!Batches = 1..most /\ n <= Upto(most) /\ (n <= BatchSize <=> most <= 1)
        /\ Upto(0) = 0
        /\ \A a \in 1..most : /\ Upto(a - 1) \in Nat /\ Upto(a - 1) < n
                              /\ Upto(a) = Upto(a - 1) + BatchSize
  BY BatchNumbers
<1>2. BatchSize \in Nat \ {0}
  BY DEF Batched!BatchesGiven
<1>3. Upto(b - 1) \in Nat /\ Upto(b - 1) < n /\ Upto(b) = Upto(b - 1) + BatchSize
  BY <1>1
<1>4. Count(b) \in Nat
  BY <1>2, <1>3 DEF Count
<1>5. Batched!IdsOf(b) = [i \in 1..Count(b) |-> Upto(b - 1) + i]
  BY DEF Batched!IdsOf, Count, Upto
<1>6. ASSUME n <= BatchSize
      PROVE  b = 1 /\ Upto(b - 1) = 0 /\ Count(b) = n
  <2>1. b = 1
    BY <1>1, <1>6
  <2>2. Upto(b - 1) = 0
    BY <1>1, <2>1
  <2>3. Count(b) = n
    BY <1>2, <1>3, <1>6, <2>2 DEF Count
  <2>4. QED
    BY <2>1, <2>2, <2>3
<1>7. QED
  BY <1>3, <1>4, <1>5, <1>6

\* The page of a batch that was answered.
LEMMA PageOfAnswer ==
  ASSUME Batched!BatchesGiven, n \in Nat, NEW b \in Batched!Batches, NEW here,
         NEW q, q = [i \in DOMAIN Batched!IdsOf(b) |->
                       IF Batched!IdsOf(b)[i] \in here THEN Batched!IdsOf(b)[i] ELSE 0]
  PROVE  /\ q \in Seq(Nat) /\ Len(q) = Count(b)
         /\ \A i \in 1..Count(b) : q[i] \in {Upto(b - 1) + i, 0}
<1> DEFINE k == Count(b)
           u == Upto(b - 1)
           ids == [i \in 1..k |-> u + i]
<1>1. k \in Nat /\ u \in Nat /\ Batched!IdsOf(b) = ids
  BY IdsOfBatch
<1>2. q = [i \in 1..k |-> IF ids[i] \in here THEN ids[i] ELSE 0]
  BY <1>1
<1> HIDE DEF k, u
<1>3. \A i \in 1..k : q[i] \in {u + i, 0} /\ u + i \in Nat
  BY <1>1, <1>2
<1>4. q \in [1..k -> Nat]
  BY <1>2, <1>3
<1>5. q \in Seq(Nat) /\ Len(q) = k
  BY <1>1, <1>4
<1>6. QED
  BY <1>3, <1>5 DEF k, u

\* A batch is called.
LEMMA CallBatchStep ==
  ASSUME BatchesInv, NEW b \in Batched!Batches, Batched!Start(b)
  PROVE  BatchesInv'
<1>1. /\ UNCHANGED <<kind, n, there, answer, shared, first, step, page, got, sent>>
      /\ batch' = [batch EXCEPT ![b] = "called"]
  BY DEF Batched!Start
<1>2. Batched!Batches' = Batched!Batches
  BY <1>1 DEF Batched!Batches
<1>3. \A a \in Batched!Batches : batch'[a] = IF a = b THEN "called" ELSE batch[a]
  BY <1>1 DEF BatchesInv
<1>4. batch' \in [Batched!Batches -> {"waiting", "called", "answered", "done"}]
  BY <1>1 DEF BatchesInv
<1>5. \A a \in Batched!Batches : PageOK(a)' = PageOK(a)
  BY <1>1 DEF PageOK, Count, Upto
<1>6. AnswersInv' /\ AloneInv' /\ SendingInv'
  BY <1>1, <1>2, <1>3, <1>5 DEF BatchesInv, AnswersInv, AloneInv, SendingInv
<1>7. QED
  BY <1>1, <1>2, <1>4, <1>6 DEF BatchesInv

\* Telegram answers a batch.
LEMMA AnswerBatchStep ==
  ASSUME Batched!BatchesGiven, BatchesInv, NEW b \in Batched!Batches, Batched!Answer(b)
  PROVE  BatchesInv'
<1> DEFINE ids == Batched!IdsOf(b)
           filled == [i \in DOMAIN ids |-> IF ids[i] \in there THEN ids[i] ELSE 0]
<1>1. PICK a \in {"ok", "failed"} :
        /\ answer' = [answer EXCEPT ![b] = a]
        /\ shared' = IF kind = "delete" THEN a ELSE shared
        /\ there' = IF kind = "delete" /\ a = "ok" THEN there \ Batched!ToSet(ids) ELSE there
        /\ page' = IF kind = "copy" /\ a = "ok" THEN [page EXCEPT ![b] = filled] ELSE page
  BY DEF Batched!Answer
<1>2. /\ UNCHANGED <<kind, n, first, step, got, sent>> /\ batch[b] = "called"
      /\ batch' = [batch EXCEPT ![b] = "answered"] /\ step \in {"fetching", "deleting"}
  BY DEF Batched!Answer, Batched!Fanning
<1>3. Batched!Batches' = Batched!Batches /\ n \in Nat
  BY <1>2 DEF Batched!Batches, BatchesInv
<1>4. \A x \in Batched!Batches : /\ batch'[x] = IF x = b THEN "answered" ELSE batch[x]
                                 /\ answer'[x] = IF x = b THEN a ELSE answer[x]
  BY <1>1, <1>2 DEF BatchesInv
<1>5. /\ batch' \in [Batched!Batches -> {"waiting", "called", "answered", "done"}]
      /\ answer' \in [Batched!Batches -> {"none", "ok", "failed"}]
  BY <1>1, <1>2 DEF BatchesInv
<1>6. /\ filled \in Seq(Nat) /\ Len(filled) = Count(b)
      /\ \A i \in 1..Count(b) : filled[i] \in {Upto(b - 1) + i, 0}
  BY <1>3, PageOfAnswer
<1>7. n <= BatchSize => \A x \in Batched!Batches : x = b
  BY <1>3, IdsOfBatch
<1>8. n <= BatchSize => \A m \in 1..n : m \in Batched!ToSet(ids)
  <2>1. SUFFICES ASSUME n <= BatchSize, NEW m \in 1..n PROVE m \in Batched!ToSet(ids)
    OBVIOUS
  <2>2. Upto(b - 1) = 0 /\ Count(b) = n /\ ids = [i \in 1..Count(b) |-> Upto(b - 1) + i]
    BY <1>3, <2>1, IdsOfBatch
  <2> HIDE DEF ids
  <2>3. ids = [i \in 1..n |-> 0 + i]
    BY <2>2
  <2>4. m \in DOMAIN ids /\ ids[m] = m
    BY <1>3, <2>3
  <2>5. QED
    BY <2>4 DEF Batched!ToSet
<1> HIDE DEF filled, ids
<1>9. page' \in [Batched!Batches -> Seq(Nat)]
  BY <1>1, <1>6 DEF BatchesInv
<1>10. \A x \in Batched!Batches \ {b} : page'[x] = page[x]
  BY <1>1 DEF BatchesInv
<1>11. kind = "copy" /\ a = "ok" => page'[b] = filled
  BY <1>1 DEF BatchesInv
<1>12. AnswersInv'
  <2>1. \A x \in Batched!Batches \ {b} : PageOK(x)' = PageOK(x)
    BY <1>2, <1>10 DEF PageOK, Count, Upto
  <2>2. kind = "copy" /\ a = "ok" => PageOK(b)'
    <3>1. Count(b)' = Count(b) /\ Upto(b - 1)' = Upto(b - 1)
      BY <1>2 DEF Count, Upto
    <3>2. QED
      BY <1>6, <1>11, <3>1 DEF PageOK
  <2>3. QED
    BY <1>1, <1>2, <1>3, <1>4, <2>1, <2>2 DEF BatchesInv, AnswersInv
<1>13. AloneInv'
  <2>1. SUFFICES ASSUME kind = "delete", n <= BatchSize
                 PROVE  /\ \A x \in Batched!Batches :
                             /\ batch'[x] \in {"answered", "done"} =>
                                  shared' = answer'[x] /\ (answer'[x] = "ok" => there' = {})
                             /\ batch'[x] = "done" /\ first = "ok" => answer'[x] = "ok"
                        /\ step' = "deleted" => there' = {}
    BY <1>2, <1>3 DEF AloneInv
  <2>2. a = "ok" => there' = {}
    BY <1>1, <1>8, <2>1 DEF BatchesInv
  <2>3. QED
    BY <1>1, <1>2, <1>4, <1>7, <2>1, <2>2
<1>14. SendingInv'
  BY <1>2 DEF BatchesInv, SendingInv
<1>15. there' \subseteq 1..n /\ {first, shared'} \subseteq {"ok", "failed"}
  BY <1>1 DEF BatchesInv
<1>16. QED
  BY <1>2, <1>3, <1>5, <1>9, <1>12, <1>13, <1>14, <1>15 DEF BatchesInv

\* A batch returns its error.
LEMMA ReturnBatchStep ==
  ASSUME Batched!BatchesGiven, BatchesInv, NEW b \in Batched!Batches, Batched!Return(b)
  PROVE  BatchesInv'
<1> DEFINE e == IF kind = "delete" THEN shared ELSE answer[b]
<1>1. /\ UNCHANGED <<kind, n, there, answer, shared, step, page, got, sent>>
      /\ batch[b] = "answered"
      /\ batch' = [batch EXCEPT ![b] = "done"] /\ step \in {"fetching", "deleting"}
      /\ first' = IF first = "ok" THEN e ELSE first
  BY DEF Batched!Return, Batched!KeepFirst, Batched!Fanning
<1>2. Batched!Batches' = Batched!Batches /\ n \in Nat
  BY <1>1 DEF Batched!Batches, BatchesInv
<1>3. \A x \in Batched!Batches : batch'[x] = IF x = b THEN "done" ELSE batch[x]
  BY <1>1 DEF BatchesInv
<1>4. batch' \in [Batched!Batches -> {"waiting", "called", "answered", "done"}]
  BY <1>1 DEF BatchesInv
<1>5. e \in {"ok", "failed"}
  BY <1>1 DEF BatchesInv, AnswersInv
<1>6. \A x \in Batched!Batches : PageOK(x)' = PageOK(x)
  BY <1>1 DEF PageOK, Count, Upto
<1>7. first' \in {"ok", "failed"} /\ (first' = "ok" => first = "ok" /\ e = "ok")
  BY <1>1, <1>5 DEF BatchesInv
<1>8. AnswersInv'
  <2>1. kind = "copy" => e = answer[b]
    OBVIOUS
  <2> HIDE DEF e
  <2>2. QED
    BY <1>1, <1>2, <1>3, <1>6, <1>7, <2>1 DEF BatchesInv, AnswersInv
<1>9. AloneInv'
  <2>1. kind = "delete" => e = shared
    OBVIOUS
  <2> HIDE DEF e
  <2>2. QED
    BY <1>1, <1>2, <1>3, <1>7, <2>1 DEF BatchesInv, AloneInv
<1>10. SendingInv'
  BY <1>1 DEF BatchesInv, SendingInv
<1> HIDE DEF e
<1>11. QED
  BY <1>1, <1>2, <1>4, <1>7, <1>8, <1>9, <1>10 DEF BatchesInv

\* All batches have returned: the copy has every message, in order.
LEMMA WaitStep ==
  ASSUME Batched!BatchesGiven, BatchesInv, Batched!Wait
  PROVE  BatchesInv'
<1>1. /\ UNCHANGED <<kind, n, there, batch, answer, shared, first, page, sent>>
      /\ step \in {"fetching", "deleting"} /\ \A b \in Batched!Batches : batch[b] = "done"
      /\ IF first = "failed" THEN step' = "failed" /\ UNCHANGED got
         ELSE IF kind = "delete" THEN step' = "deleted" /\ UNCHANGED got
         ELSE step' = "sending" /\ got' = Batched!Joined
  BY DEF Batched!Wait, Batched!Fanning
<1>2. Batched!Batches' = Batched!Batches /\ n \in Nat
  BY <1>1 DEF Batched!Batches, BatchesInv
<1>3. \A x \in Batched!Batches : PageOK(x)' = PageOK(x)
  BY <1>1 DEF PageOK, Count, Upto
<1>4. AnswersInv'
  BY <1>1, <1>2, <1>3 DEF BatchesInv, AnswersInv
<1>5. first # "failed" /\ kind = "copy" => step = "fetching" /\ \A b \in Batched!Batches : PageOK(b)
  BY <1>1 DEF BatchesInv, AnswersInv
<1>6. first # "failed" /\ kind = "copy" =>
        got' \in Seq(Nat) /\ Len(got') = n /\ \A i \in 1..n : got'[i] \in {i, 0}
  BY <1>1, <1>2, <1>5, JoinedInOrder DEF BatchesInv
<1>7. AloneInv'
  <2>1. SUFFICES ASSUME kind = "delete", n <= BatchSize, first # "failed" PROVE there = {}
    BY <1>1, <1>2 DEF AloneInv, BatchesInv
  <2>2. CASE n = 0
    BY <2>2 DEF BatchesInv
  <2>3. CASE n # 0
    <3>1. PICK b : b \in Batched!Batches
      <4>1. PICK most \in Nat : Batched!Batches = 1..most /\ n <= Upto(most) /\ Upto(0) = 0
        BY <1>2, BatchNumbers
      <4>2. most # 0
        BY <1>2, <2>3, <4>1
      <4>3. 1 \in Batched!Batches
        BY <4>1, <4>2
      <4>4. QED
        BY <4>3
    <3>2. QED
      BY <1>1, <2>1, <3>1 DEF BatchesInv, AloneInv
  <2>4. QED
    BY <2>2, <2>3
<1>8. SendingInv'
  <2>1. CASE step' = "sending"
    <3>1. first # "failed" /\ kind = "copy" /\ step = "fetching" /\ sent = <<>>
      BY <1>1, <1>5, <2>1 DEF BatchesInv, SendingInv
    <3>2. sent \in Seq(Nat) /\ Len(sent) = 0
      BY <3>1
    <3>3. \A i \in 1..Len(sent) : sent[i] = i
      BY <3>2
    <3>4. QED
      BY <1>1, <1>2, <1>6, <2>1, <3>1, <3>2, <3>3 DEF SendingInv
  <2>2. CASE step' # "sending"
    BY <1>1, <2>2 DEF SendingInv
  <2>3. QED
    BY <2>1, <2>2
<1>9. QED
  BY <1>1, <1>2, <1>4, <1>7, <1>8 DEF BatchesInv

\* A message is sent again, or everything has been and the row is made.
LEMMA SendingStep ==
  ASSUME BatchesInv, Batched!Send \/ Batched!Create
  PROVE  BatchesInv'
<1>1. UNCHANGED <<kind, n, there, batch, answer, shared, first, page, got>> /\ step = "sending"
  BY DEF Batched!Send, Batched!Create
<1>2. Batched!Batches' = Batched!Batches /\ n \in Nat /\ kind = "copy"
  BY <1>1 DEF Batched!Batches, BatchesInv
<1>3. \A x \in Batched!Batches : PageOK(x)' = PageOK(x)
  BY <1>1 DEF PageOK, Count, Upto
<1>4. AnswersInv' /\ AloneInv'
  BY <1>1, <1>2, <1>3 DEF BatchesInv, AnswersInv, AloneInv
<1>5. /\ got \in Seq(Nat) /\ Len(got) = n /\ \A i \in 1..n : got[i] \in {i, 0}
      /\ sent \in Seq(Nat) /\ Len(sent) \in Nat /\ Len(sent) <= n
      /\ \A i \in 1..Len(sent) : sent[i] = i
  BY <1>1 DEF BatchesInv, SendingInv
<1>6. SendingInv' /\ step' \in {"sending", "row", "failed"}
  <2>1. CASE Batched!Create
    <3>1. sent' = sent /\ step' \in {"row", "failed"} /\ (step' = "row" => Len(sent) = n)
      BY <2>1 DEF Batched!Create
    <3>2. QED
      BY <1>1, <1>5, <3>1 DEF SendingInv
  <2>2. CASE Batched!Send /\ step' = "failed"
    BY <2>2 DEF SendingInv
  <2>3. CASE Batched!Send /\ step' # "failed"
    <3> DEFINE m == got[Len(sent) + 1]
    <3>1. m # 0 /\ sent' = Append(sent, m) /\ step' = step /\ Len(sent) < n
      BY <1>5, <2>3 DEF Batched!Send
    <3>2. m \in Nat /\ m = Len(sent) + 1
      BY <1>2, <1>5, <3>1
    <3> HIDE DEF m
    <3>3. /\ sent' \in Seq(Nat) /\ Len(sent') = Len(sent) + 1 /\ sent'[Len(sent) + 1] = m
          /\ \A i \in 1..Len(sent) : sent'[i] = sent[i]
      BY <1>5, <3>1, <3>2, AppendProperties
    <3>4. Len(sent') <= n /\ \A i \in 1..Len(sent') : sent'[i] = i
      BY <1>2, <1>5, <3>1, <3>2, <3>3
    <3>5. QED
      BY <1>1, <1>5, <3>1, <3>3, <3>4 DEF SendingInv
  <2>4. QED
    BY <2>1, <2>2, <2>3
<1>7. QED
  BY <1>1, <1>2, <1>4, <1>6 DEF BatchesInv

\* A message is gone before it was fetched.
LEMMA LoseStep ==
  ASSUME BatchesInv, NEW m, Batched!Lose(m)
  PROVE  BatchesInv'
<1>1. /\ UNCHANGED <<kind, n, batch, answer, shared, first, step, page, got, sent>>
      /\ there' = there \ {m} /\ kind = "copy"
  BY DEF Batched!Lose
<1>2. Batched!Batches' = Batched!Batches
  BY <1>1 DEF Batched!Batches
<1>3. \A x \in Batched!Batches : PageOK(x)' = PageOK(x)
  BY <1>1 DEF PageOK, Count, Upto
<1>4. AnswersInv' /\ AloneInv' /\ SendingInv'
  BY <1>1, <1>2, <1>3 DEF BatchesInv, AnswersInv, AloneInv, SendingInv
<1>5. QED
  BY <1>1, <1>2, <1>4 DEF BatchesInv

\* Batches of any size, any number of them at once (GetMessages, DeleteMessages, FilesCopy).
THEOREM BatchesInvariance == Spec => []BatchesInv
<1> USE BatchesAssumption
<1>1. Batched!Init => BatchesInv
  <2> SUFFICES ASSUME Batched!Init PROVE BatchesInv
    OBVIOUS
  <2>1. /\ kind \in {"copy", "delete"} /\ n \in 0..MaxIds /\ there \in SUBSET (1..n)
        /\ batch = [b \in Batched!Batches |-> "waiting"]
        /\ answer = [b \in Batched!Batches |-> "none"]
        /\ page = [b \in Batched!Batches |-> <<>>]
        /\ shared = "ok" /\ first = "ok" /\ sent = <<>>
        /\ step = IF kind = "copy" THEN "fetching" ELSE "deleting"
    BY DEF Batched!Init
  <2>2. n \in Nat
    BY <2>1 DEF Batched!BatchesGiven
  <2>3. page \in [Batched!Batches -> Seq(Nat)]
    <3>1. <<>> \in Seq(Nat)
      OBVIOUS
    <3>2. QED
      BY <2>1, <3>1
  <2>4. /\ batch \in [Batched!Batches -> {"waiting", "called", "answered", "done"}]
        /\ answer \in [Batched!Batches -> {"none", "ok", "failed"}]
    BY <2>1
  <2>5. AnswersInv /\ AloneInv /\ SendingInv
    BY <2>1 DEF AnswersInv, AloneInv, SendingInv
  <2>6. QED
    BY <2>1, <2>2, <2>3, <2>4, <2>5 DEF BatchesInv
<1>2. BatchesInv /\ [Batched!Next]_Batched!vars => BatchesInv'
  <2>1. ASSUME BatchesInv, UNCHANGED Batched!vars
        PROVE  BatchesInv'
    <3>1. UNCHANGED <<kind, n, there, batch, answer, shared, first, step, page, got, sent>>
      BY <2>1 DEF Batched!vars
    <3>2. Batched!Batches' = Batched!Batches
      BY <3>1 DEF Batched!Batches
    <3>3. \A x \in Batched!Batches : PageOK(x)' = PageOK(x)
      BY <3>1 DEF PageOK, Count, Upto
    <3>4. AnswersInv' /\ AloneInv' /\ SendingInv'
      BY <2>1, <3>1, <3>2, <3>3 DEF BatchesInv, AnswersInv, AloneInv, SendingInv
    <3>5. QED
      BY <2>1, <3>1, <3>2, <3>4 DEF BatchesInv
  <2>2. QED
    BY <2>1, CallBatchStep, AnswerBatchStep, ReturnBatchStep, WaitStep, SendingStep, LoseStep
    DEF Batched!Next
<1> QED
  BY <1>1, <1>2, BatchesRun, PTL

\* A copy has the parts of its source, each once and in order, and a single batch that is
\* deleted with success leaves no message: for any number of messages and any size of a
\* batch (GetMessages, FilesCopy, DeleteMessages).
THEOREM BatchesAreWhole == Spec => []BatchesWhole
<1> USE BatchesAssumption
<1>1. BatchesInv => BatchesWhole
  <2> SUFFICES ASSUME BatchesInv PROVE Batched!CopyInOrder /\ Batched!SuccessIsWhole
    BY DEF BatchesWhole
  <2>1. n \in Nat
    BY DEF BatchesInv
  <2>2. Batched!CopyInOrder
    <3>1. SUFFICES ASSUME step = "row" PROVE sent = [i \in 1..n |-> i]
      BY DEF Batched!CopyInOrder
    <3>2. sent \in Seq(Nat) /\ Len(sent) = n /\ \A i \in 1..n : sent[i] = i
      BY <3>1 DEF BatchesInv, SendingInv
    <3>3. QED
      BY <2>1, <3>2
  <2>3. Batched!SuccessIsWhole
    <3>1. SUFFICES ASSUME step = "deleted", Batched!Cardinality(Batched!Batches) <= 1
                   PROVE  there = {}
      BY DEF Batched!SuccessIsWhole
    <3>2. PICK most \in Nat : Batched!Batches = 1..most /\ (n <= BatchSize <=> most <= 1)
      BY <2>1, BatchNumbers
    <3>3. Batched!Cardinality(Batched!Batches) = Cardinality(1..most)
      BY <3>2 DEF Batched!Cardinality, Cardinality
    <3>4. Cardinality(1..most) = most
      <4>1. Cardinality(1..most) = IF 1 > most THEN 0 ELSE most - 1 + 1
        BY FS_Interval
      <4>2. QED
        BY <4>1
    <3>5. n <= BatchSize /\ kind = "delete"
      BY <3>1, <3>2, <3>3, <3>4 DEF BatchesInv
    <3>6. QED
      BY <3>1, <3>5 DEF BatchesInv, AloneInv
  <2>4. QED
    BY <2>2, <2>3
<1> QED
  BY <1>1, BatchesInvariance, PTL

-----------------------------------------------------------------------------
(***************************************************************************)
(* An encrypted part and its readers, for any sizes, radix and digits of   *)
(* the nonce.  Adding to a nonce is adding one as often; so block j of a   *)
(* part is sealed and opened under the same nonce, wherever the reader     *)
(* began.                                                                  *)
(***************************************************************************)
\* The next number has the next remainder, or begins the next quotient.
LEMMA DivNext ==
  ASSUME NEW a \in Nat, NEW d \in Nat \ {0}
  PROVE  IF a % d = d - 1 THEN (a + 1) \div d = (a \div d) + 1 /\ (a + 1) % d = 0
                          ELSE (a + 1) \div d = a \div d /\ (a + 1) % d = (a % d) + 1
<1>1. PICK q \in Nat, r \in 0..(d - 1) : q = a \div d /\ r = a % d /\ a = d * q + r
  <2>1. a \div d \in Nat /\ a % d \in 0..(d - 1) /\ a = d * (a \div d) + (a % d)
    BY DivMod
  <2>2. QED
    BY <2>1, Zenon
<1>2. PICK q2 \in Nat, r2 \in 0..(d - 1) :
        q2 = (a + 1) \div d /\ r2 = (a + 1) % d /\ a + 1 = d * q2 + r2
  <2>1. a + 1 \in Nat
    OBVIOUS
  <2>2. /\ (a + 1) \div d \in Nat /\ (a + 1) % d \in 0..(d - 1)
        /\ a + 1 = d * ((a + 1) \div d) + ((a + 1) % d)
    BY <2>1, DivMod
  <2>3. QED
    BY <2>2, Zenon
<1>3. CASE r = d - 1
  <2>1. d * (q + 1) + 0 = d * q2 + r2 /\ q + 1 \in Int /\ 0 \in 0..(d - 1) /\ q2 \in Int
    <3>1. d * (q + 1) = d * q + d
      BY <1>1
    <3>2. QED
      BY <1>1, <1>2, <1>3, <3>1
  <2>2. q2 = q + 1 /\ r2 = 0
    BY <2>1, DivUnique
  <2>3. QED
    BY <1>1, <1>2, <1>3, <2>2
<1>4. CASE r # d - 1
  <2>1. d * q + (r + 1) = d * q2 + r2 /\ q \in Int /\ r + 1 \in 0..(d - 1) /\ q2 \in Int
    BY <1>1, <1>2, <1>4
  <2>2. q2 = q /\ r2 = r + 1
    BY <2>1, DivUnique
  <2>3. QED
    BY <1>1, <1>2, <1>4, <2>2
<1>5. QED
  BY <1>3, <1>4

\* A remainder added to at most w multiples of d does not reach the next multiple.
LEMMA DivBound ==
  ASSUME NEW d \in Nat \ {0}, NEW m \in 0..(d - 1), NEW w \in Nat, NEW a \in Nat, a <= d * w
  PROVE  (m + a) \div d \in Nat /\ (m + a) \div d <= w
<1>1. PICK q \in Nat, r \in 0..(d - 1) : q = (m + a) \div d /\ m + a = d * q + r
  <2>1. m + a \in Nat
    OBVIOUS
  <2>2. /\ (m + a) \div d \in Nat /\ (m + a) % d \in 0..(d - 1)
        /\ m + a = d * ((m + a) \div d) + ((m + a) % d)
    BY <2>1, DivMod
  <2>3. QED
    BY <2>2, Zenon
<1>2. ~(q >= w + 1)
  <2>1. SUFFICES ASSUME q >= w + 1 PROVE FALSE
    OBVIOUS
  <2>2. PICK k \in Nat : q = w + 1 + k
    <3>1. q - w - 1 \in Nat /\ q = w + 1 + (q - w - 1)
      BY <2>1
    <3>2. QED
      BY <3>1, Zenon
  <2>3. d * q = d * w + d + d * k /\ d * k \in Nat
    BY <2>2
  <2>4. QED
    BY <1>1, <2>3
<1>3. QED
  BY <1>1, <1>2

\* What digits still take: the equation of its recursive function.
LEMMA LeftEquation ==
  ASSUME Cipher!CipherGiven, NEW m \in Cipher!Nonces, NEW x \in Nat
  PROVE  /\ Cipher!Left(m, x) \in [0..Low -> Nat] /\ Cipher!Left(m, x)[0] = x
         /\ \A i \in 1..Low :
              Cipher!Left(m, x)[i] = (m[i - 1] + Cipher!Left(m, x)[i - 1]) \div Radix
<1> DEFINE Equation(g) == g = [d \in 0..Low |->
                            IF d = 0 THEN x ELSE (m[d - 1] + g[d - 1]) \div Radix]
           left == CHOOSE g : Equation(g)
           round == [i \in 1..Low |-> [v \in Nat |-> (m[i - 1] + v) \div Radix]]
<1>1. Low \in Nat /\ Radix \in Nat \ {0} /\ \A i \in 1..Low : m[i - 1] \in Nat
  BY DEF Cipher!CipherGiven, Cipher!Nonces
<1>2. round \in Loops(Low, Nat)
  <2>1. ASSUME NEW i \in 1..Low, NEW v \in Nat
        PROVE  (m[i - 1] + v) \div Radix \in Nat
    <3>1. m[i - 1] + v \in Nat
      BY <1>1
    <3>2. QED
      BY <1>1, <3>1, DivMod
  <2>2. QED
    BY <2>1 DEF Loops
<1>3. PICK g \in [0..Low -> Nat] : g[0] = x /\ \A i \in 1..Low : g[i] = round[i][g[i - 1]]
  <2> HIDE DEF round
  <2>1. \E g : Rounds(g, Low, Nat, x, round)
    BY <1>1, <1>2, Recursion
  <2>2. QED
    BY <2>1 DEF Rounds
<1>4. \A i \in 1..Low : g[i] = (m[i - 1] + g[i - 1]) \div Radix
  <2>1. SUFFICES ASSUME NEW i \in 1..Low PROVE g[i] = (m[i - 1] + g[i - 1]) \div Radix
    OBVIOUS
  <2>2. i - 1 \in 0..Low /\ g[i - 1] \in Nat
    BY <1>1, <1>3
  <2>3. QED
    BY <1>3, <2>2
<1>5. Equation(g)
  BY <1>1, <1>3, <1>4
<1>6. Equation(left)
  <2> HIDE DEF Equation
  <2>1. QED
    BY <1>5
<1> HIDE DEF left
<1>7. left = [d \in 0..Low |-> IF d = 0 THEN x ELSE (m[d - 1] + left[d - 1]) \div Radix]
  BY <1>6
<1>8. left[0] = x /\ \A i \in 1..Low : left[i] = (m[i - 1] + left[i - 1]) \div Radix
  <2>1. left[0] = x
    BY <1>1, <1>7
  <2>2. ASSUME NEW i \in 1..Low
        PROVE  left[i] = (m[i - 1] + left[i - 1]) \div Radix
    <3>1. i \in 0..Low /\ i # 0
      BY <1>1
    <3>2. QED
      BY <1>7, <3>1, Zenon
  <2>3. QED
    BY <2>1, <2>2
<1>9. \A i \in 0..Low : left[i] \in Nat
  <2> DEFINE S == {i \in Nat : i <= Low => left[i] \in Nat}
  <2>1. 0 \in S
    BY <1>8
  <2>2. ASSUME NEW i \in S
        PROVE  i + 1 \in S
    <3>1. SUFFICES ASSUME i + 1 <= Low PROVE left[i + 1] \in Nat
      OBVIOUS
    <3>2. i \in Nat /\ i + 1 \in 1..Low /\ left[i] \in Nat /\ (i + 1) - 1 = i
      BY <1>1, <2>2, <3>1
    <3>3. left[i + 1] = (m[i] + left[i]) \div Radix /\ m[i] \in Nat
      BY <1>1, <1>8, <3>2
    <3>4. m[i] + left[i] \in Nat
      BY <3>2, <3>3
    <3>5. QED
      BY <1>1, <3>3, <3>4, DivMod
  <2>3. S = Nat
    <3>1. S \in SUBSET Nat /\ \A i \in S : i + 1 \in S
      BY <2>2
    <3> HIDE DEF S
    <3>2. QED
      BY <2>1, <3>1, Induct
  <2>4. QED
    BY <1>1, <2>3
<1>10. left = Cipher!Left(m, x)
  BY DEF left, Cipher!Left
<1>11. left \in [0..Low -> Nat]
  <2>1. DOMAIN left = 0..Low /\ left = [d \in 0..Low |-> left[d]]
    BY <1>7
  <2>2. QED
    BY <1>9, <2>1
<1> HIDE DEF Equation, round
<1>12. QED
  BY <1>8, <1>10, <1>11

\* The powers of the radix.
LEMMA PowersEquation ==
  ASSUME Cipher!CipherGiven
  PROVE  \E g \in [0..Low -> Nat] :
           g[0] = 1 /\ g[Low] = Cipher!LowNumbers /\ \A i \in 1..Low : g[i] = Radix * g[i - 1]
<1> DEFINE Equation(g) == g = [d \in 0..Low |-> IF d = 0 THEN 1 ELSE Radix * g[d - 1]]
           power == CHOOSE g : Equation(g)
           round == [i \in 1..Low |-> [v \in Nat |-> Radix * v]]
<1>1. Low \in Nat /\ Radix \in Nat \ {0}
  BY DEF Cipher!CipherGiven
<1>2. round \in Loops(Low, Nat) /\ 1 \in Nat
  BY <1>1 DEF Loops
<1>3. PICK g \in [0..Low -> Nat] : g[0] = 1 /\ \A i \in 1..Low : g[i] = round[i][g[i - 1]]
  <2> HIDE DEF round
  <2>1. \E g : Rounds(g, Low, Nat, 1, round)
    BY <1>1, <1>2, Recursion
  <2>2. QED
    BY <2>1 DEF Rounds
<1>4. \A i \in 1..Low : g[i] = Radix * g[i - 1]
  <2>1. SUFFICES ASSUME NEW i \in 1..Low PROVE g[i] = Radix * g[i - 1]
    OBVIOUS
  <2>2. i - 1 \in 0..Low /\ g[i - 1] \in Nat
    BY <1>1, <1>3
  <2>3. QED
    BY <1>3, <2>2
<1>5. Equation(g)
  BY <1>1, <1>3, <1>4
<1>6. Equation(power)
  <2> HIDE DEF Equation
  <2>1. QED
    BY <1>5
<1>7. power = [d \in 0..Low |-> IF d = 0 THEN 1 ELSE Radix * power[d - 1]]
  <2> HIDE DEF power
  <2>1. QED
    BY <1>6
<1> HIDE DEF power
<1>8. power[0] = 1 /\ \A i \in 1..Low : power[i] = Radix * power[i - 1]
  <2>1. power[0] = 1
    BY <1>1, <1>7
  <2>2. ASSUME NEW i \in 1..Low
        PROVE  power[i] = Radix * power[i - 1]
    <3>1. i \in 0..Low /\ i # 0
      BY <1>1
    <3>2. QED
      BY <1>7, <3>1, Zenon
  <2>3. QED
    BY <2>1, <2>2
<1> DEFINE S == {i \in Nat : i <= Low => power[i] = g[i]}
<1>9. S = Nat
  <2>1. 0 \in S
    BY <1>3, <1>8
  <2>2. ASSUME NEW i \in S
        PROVE  i + 1 \in S
    <3>1. SUFFICES ASSUME i + 1 <= Low PROVE power[i + 1] = g[i + 1]
      OBVIOUS
    <3>2. i \in Nat /\ i + 1 \in 1..Low /\ power[i] = g[i] /\ (i + 1) - 1 = i
      BY <1>1, <2>2, <3>1
    <3>3. power[i + 1] = Radix * power[i] /\ g[i + 1] = Radix * g[i]
      BY <1>4, <1>8, <3>2
    <3>4. QED
      BY <3>2, <3>3
  <2>3. S \in SUBSET Nat /\ \A i \in S : i + 1 \in S
    BY <2>2
  <2> HIDE DEF S
  <2>4. QED
    BY <2>1, <2>3, Induct
<1>10. power[Low] = g[Low]
  BY <1>1, <1>9
<1>11. Cipher!LowNumbers = power[Low]
  BY DEF Cipher!LowNumbers, power
<1>12. QED
  BY <1>3, <1>4, <1>10, <1>11

\* Beyond the digits of a number at most a carry is left.
LEMMA CarryLeft ==
  ASSUME Cipher!CipherGiven, NEW m \in Cipher!Nonces, NEW x \in Nat, x <= Cipher!LowNumbers
  PROVE  Cipher!Left(m, x)[Low] \in {0, 1}
<1>1. PICK g \in [0..Low -> Nat] :
        g[0] = 1 /\ g[Low] = Cipher!LowNumbers /\ \A i \in 1..Low : g[i] = Radix * g[i - 1]
  BY PowersEquation
<1>2. PICK left \in [0..Low -> Nat] :
        /\ left = Cipher!Left(m, x) /\ left[0] = x
        /\ \A i \in 1..Low : left[i] = (m[i - 1] + left[i - 1]) \div Radix
  BY LeftEquation
<1>3. Low \in Nat /\ Radix \in Nat \ {0} /\ \A i \in 1..Low : m[i - 1] \in 0..(Radix - 1)
  BY DEF Cipher!CipherGiven, Cipher!Nonces
<1> DEFINE S == {i \in Nat : i <= Low => left[i] <= g[Low - i]}
<1>4. 0 \in S
  BY <1>1, <1>2, <1>3
<1>5. ASSUME NEW i \in S
      PROVE  i + 1 \in S
  <2>1. SUFFICES ASSUME i + 1 <= Low PROVE left[i + 1] <= g[Low - (i + 1)]
    OBVIOUS
  <2>2. PICK w \in Nat, a \in Nat : w = g[Low - (i + 1)] /\ a = left[i] /\ a <= Radix * w
    <3>1. /\ Low - (i + 1) \in 0..Low /\ i \in 0..Low /\ Low - i \in 1..Low
          /\ (Low - i) - 1 = Low - (i + 1) /\ left[i] <= g[Low - i]
      BY <1>3, <1>5, <2>1
    <3>2. g[Low - i] = Radix * g[Low - (i + 1)] /\ g[Low - (i + 1)] \in Nat /\ left[i] \in Nat
      BY <1>1, <1>2, <3>1
    <3>3. QED
      BY <3>1, <3>2
  <2>3. i + 1 \in 1..Low /\ (i + 1) - 1 = i
    BY <1>3, <1>5, <2>1
  <2>4. left[i + 1] = (m[i] + a) \div Radix /\ m[i] \in 0..(Radix - 1)
    BY <1>2, <1>3, <2>2, <2>3
  <2>5. QED
    BY <1>3, <2>2, <2>4, DivBound
<1>6. S = Nat
  <2>1. S \in SUBSET Nat /\ \A i \in S : i + 1 \in S
    BY <1>5
  <2> HIDE DEF S
  <2>2. QED
    BY <1>4, <2>1, Induct
<1>7. left[Low] <= g[0] /\ left[Low] \in Nat
  <2>1. Low \in S /\ Low <= Low /\ Low - Low = 0 /\ Low \in 0..Low
    <3> HIDE DEF S
    <3>1. QED
      BY <1>3, <1>6
  <2>2. QED
    BY <1>2, <2>1
<1>8. QED
  BY <1>1, <1>2, <1>7

\* The digits that an addition leaves below the carry.
Summed(m, x) ==
  [d \in DOMAIN m |-> IF d < Low THEN (m[d] + Cipher!Left(m, x)[d]) % Radix ELSE m[d]]

\* They are a nonce, and what add gives but for a last carry.
LEMMA SummedDigits ==
  ASSUME Cipher!CipherGiven, NEW m \in Cipher!Nonces, NEW x \in Nat
  PROVE  /\ Summed(m, x) \in Cipher!Nonces
         /\ Cipher!Add(m, x) = IF Cipher!Left(m, x)[Low] # 0
                               THEN Cipher!Carry(Summed(m, x), Low) ELSE Summed(m, x)
<1>1. \A d \in 0..(Digits - 1) : Summed(m, x)[d] \in 0..(Radix - 1)
  <2>1. SUFFICES ASSUME NEW d \in 0..(Digits - 1) PROVE Summed(m, x)[d] \in 0..(Radix - 1)
    OBVIOUS
  <2>2. m[d] \in 0..(Radix - 1) /\ Radix \in Nat \ {0} /\ Low \in Nat /\ d \in DOMAIN m
    BY DEF Cipher!CipherGiven, Cipher!Nonces
  <2>3. CASE d < Low
    <3>1. d \in 0..Low
      BY <2>2, <2>3
    <3>2. PICK a \in Nat : a = Cipher!Left(m, x)[d]
      BY <3>1, LeftEquation
    <3>3. m[d] + a \in Nat
      BY <2>2
    <3>4. (m[d] + a) % Radix \in 0..(Radix - 1)
      BY <2>2, <3>3, DivMod
    <3>5. QED
      BY <2>2, <2>3, <3>2, <3>4 DEF Summed
  <2>4. CASE ~(d < Low)
    BY <2>2, <2>4 DEF Summed
  <2>5. QED
    BY <2>3, <2>4
<1>2. Summed(m, x) \in Cipher!Nonces
  BY <1>1 DEF Summed, Cipher!Nonces
<1>3. QED
  BY <1>2 DEF Cipher!Add, Summed

\* Nothing added changes nothing.
LEMMA AddNothing ==
  ASSUME Cipher!CipherGiven, NEW m \in Cipher!Nonces
  PROVE  Cipher!Add(m, 0) = m
<1>1. PICK left \in [0..Low -> Nat] :
        /\ left = Cipher!Left(m, 0) /\ left[0] = 0
        /\ \A i \in 1..Low : left[i] = (m[i - 1] + left[i - 1]) \div Radix
  BY LeftEquation
<1>2. /\ Low \in Nat /\ Radix \in Nat \ {0} /\ Digits \in Nat /\ Low <= Digits
      /\ \A d \in 0..(Digits - 1) : m[d] \in 0..(Radix - 1)
  BY DEF Cipher!CipherGiven, Cipher!Nonces
<1>3. ASSUME NEW a \in 0..(Radix - 1)
      PROVE  (a + 0) \div Radix = 0 /\ (a + 0) % Radix = a
  <2>1. a \div Radix \in Nat /\ a % Radix \in 0..(Radix - 1)
        /\ a = Radix * (a \div Radix) + (a % Radix)
    <3>1. a \in Nat /\ Radix \in Nat \ {0}
      BY <1>2
    <3>2. QED
      BY <3>1, DivMod, Zenon
  <2>2. Radix * 0 + a = Radix * (a \div Radix) + (a % Radix)
    BY <1>2, <2>1
  <2>3. a \div Radix = 0 /\ a % Radix = a
    <3>1. 0 \in Int /\ a \div Radix \in Int
      BY <2>1
    <3>2. QED
      BY <1>2, <2>1, <2>2, <3>1, DivUnique
  <2>4. a + 0 = a
    BY <1>2
  <2>5. QED
    BY <2>3, <2>4
<1> DEFINE S == {i \in Nat : i <= Low => left[i] = 0}
<1>4. 0 \in S
  BY <1>1
<1>5. ASSUME NEW i \in S
      PROVE  i + 1 \in S
  <2>1. SUFFICES ASSUME i + 1 <= Low PROVE left[i + 1] = 0
    OBVIOUS
  <2>2. i + 1 \in 1..Low /\ (i + 1) - 1 = i /\ left[i] = 0 /\ m[i] \in 0..(Radix - 1)
    BY <1>2, <1>5, <2>1
  <2>3. left[i + 1] = (m[i] + 0) \div Radix
    BY <1>1, <2>2
  <2>4. QED
    BY <1>3, <2>2, <2>3
<1>6. S = Nat
  <2>1. S \in SUBSET Nat /\ \A i \in S : i + 1 \in S
    BY <1>5
  <2> HIDE DEF S
  <2>2. QED
    BY <1>4, <2>1, Induct
<1>7. \A i \in 0..Low : left[i] = 0
  BY <1>2, <1>6
<1>8. Summed(m, 0) = m
  <2>1. DOMAIN m = 0..(Digits - 1) /\ m = [d \in 0..(Digits - 1) |-> m[d]]
    BY DEF Cipher!Nonces
  <2>2. ASSUME NEW d \in 0..(Digits - 1)
        PROVE  (IF d < Low THEN (m[d] + left[d]) % Radix ELSE m[d]) = m[d]
    <3>1. CASE d < Low
      <4>1. left[d] = 0
        BY <1>2, <1>7, <3>1
      <4>2. QED
        BY <1>2, <1>3, <3>1, <4>1
    <3>2. QED
      BY <3>1
  <2>3. Summed(m, 0) = [d \in 0..(Digits - 1) |-> IF d < Low THEN (m[d] + left[d]) % Radix
                                                            ELSE m[d]]
    BY <1>1, <2>1 DEF Summed
  <2>4. QED
    BY <2>1, <2>2, <2>3
<1>9. Cipher!Left(m, 0)[Low] = 0
  BY <1>1, <1>2, <1>7
<1>10. QED
  BY <1>8, <1>9, SummedDigits

\* A digit moves on, or wraps around.
LEMMA DigitNext ==
  ASSUME NEW d \in Nat \ {0}, NEW r \in 0..(d - 1)
  PROVE  (r + 1) % d = IF r = d - 1 THEN 0 ELSE r + 1
<1>1. r % d = r
  <2>1. r \div d \in Nat /\ r % d \in 0..(d - 1) /\ r = d * (r \div d) + (r % d)
    <3>1. r \in Nat
      OBVIOUS
    <3>2. QED
      BY <3>1, DivMod, Zenon
  <2>2. d * 0 + r = d * (r \div d) + (r % d) /\ 0 \in Int /\ r \div d \in Int
    BY <2>1
  <2>3. QED
    BY <2>1, <2>2, DivUnique
<1>2. r \in Nat
  OBVIOUS
<1>3. IF r % d = d - 1 THEN (r + 1) % d = 0 ELSE (r + 1) % d = (r % d) + 1
  BY <1>2, DivNext
<1>4. QED
  BY <1>1, <1>3

\* The digits before the i-th have their last value.
Wrapped(f, i) == \A d \in 0..(i - 1) : f[d] = Radix - 1

\* One more is one more left where the digits so far wrap around, and only there.
LEMMA LeftNext ==
  ASSUME Cipher!CipherGiven, NEW m \in Cipher!Nonces, NEW x \in Nat, NEW i \in 0..Low
  PROVE  /\ Wrapped(Summed(m, x), i) => Cipher!Left(m, x + 1)[i] = Cipher!Left(m, x)[i] + 1
         /\ ~Wrapped(Summed(m, x), i) => Cipher!Left(m, x + 1)[i] = Cipher!Left(m, x)[i]
<1>1. PICK left \in [0..Low -> Nat] :
        /\ left = Cipher!Left(m, x) /\ left[0] = x
        /\ \A k \in 1..Low : left[k] = (m[k - 1] + left[k - 1]) \div Radix
  BY LeftEquation
<1>2. PICK more \in [0..Low -> Nat] :
        /\ more = Cipher!Left(m, x + 1) /\ more[0] = x + 1
        /\ \A k \in 1..Low : more[k] = (m[k - 1] + more[k - 1]) \div Radix
  <2>1. x + 1 \in Nat
    OBVIOUS
  <2>2. QED
    BY <2>1, LeftEquation
<1>3. /\ Low \in Nat /\ Radix \in Nat \ {0} /\ Digits \in Nat /\ Low <= Digits
      /\ \A d \in 0..(Digits - 1) : m[d] \in 0..(Radix - 1)
  BY DEF Cipher!CipherGiven, Cipher!Nonces
<1>4. PICK f : f = Summed(m, x)
  OBVIOUS
<1>5. \A d \in 0..(Low - 1) : f[d] = (m[d] + left[d]) % Radix
  <2>1. DOMAIN m = 0..(Digits - 1)
    BY DEF Cipher!Nonces
  <2>2. QED
    BY <1>1, <1>3, <1>4, <2>1 DEF Summed
<1> DEFINE Next1(k) == /\ Wrapped(f, k) => more[k] = left[k] + 1
                       /\ ~Wrapped(f, k) => more[k] = left[k]
           S == {k \in Nat : k <= Low => Next1(k)}
<1>6. 0 \in S
  <2>1. Wrapped(f, 0)
    BY DEF Wrapped
  <2>2. QED
    BY <1>1, <1>2, <2>1
<1>7. ASSUME NEW k \in S
      PROVE  k + 1 \in S
  <2>1. SUFFICES ASSUME k + 1 <= Low PROVE Next1(k + 1)
    OBVIOUS
  <2>2. /\ k \in Nat /\ Next1(k) /\ k + 1 \in 1..Low /\ (k + 1) - 1 = k /\ k \in 0..(Low - 1)
        /\ k \in 0..Low /\ m[k] \in Nat
    BY <1>3, <1>7, <2>1
  <2>3. PICK a \in Nat : a = m[k] + left[k]
    BY <1>1, <2>2
  <2>4. f[k] = a % Radix /\ left[k + 1] = a \div Radix
    BY <1>1, <1>5, <2>2, <2>3
  <2>5. Wrapped(f, k + 1) <=> Wrapped(f, k) /\ f[k] = Radix - 1
    BY <2>2 DEF Wrapped
  <2>6. CASE Wrapped(f, k)
    <3>1. more[k + 1] = (a + 1) \div Radix
      <4>1. more[k + 1] = (m[k] + more[k]) \div Radix /\ more[k] = left[k] + 1
        BY <1>2, <2>2, <2>6
      <4>2. left[k] \in Nat /\ m[k] \in Nat
        BY <1>1, <2>2
      <4> HIDE DEF Next1, S
      <4>3. m[k] + more[k] = a + 1
        BY <2>3, <4>1, <4>2
      <4>4. QED
        BY <4>1, <4>3
    <3>2. IF a % Radix = Radix - 1 THEN (a + 1) \div Radix = (a \div Radix) + 1
                                   ELSE (a + 1) \div Radix = a \div Radix
      BY <1>3, DivNext
    <3>3. QED
      BY <2>4, <2>5, <2>6, <3>1, <3>2
  <2>7. CASE ~Wrapped(f, k)
    <3>1. more[k + 1] = left[k + 1]
      BY <1>1, <1>2, <2>2, <2>7
    <3>2. QED
      BY <2>5, <2>7, <3>1
  <2>8. QED
    BY <2>6, <2>7
<1>8. S = Nat
  <2>1. S \in SUBSET Nat /\ \A k \in S : k + 1 \in S
    <3> HIDE DEF Next1
    <3>1. QED
      BY <1>7
  <2> HIDE DEF S
  <2>2. QED
    BY <1>6, <2>1, Induct
<1>9. Next1(i)
  <2>1. i \in S /\ i <= Low
    <3> HIDE DEF S
    <3>1. QED
      BY <1>3, <1>8
  <2> HIDE DEF Next1
  <2>2. QED
    BY <2>1
<1>10. QED
  BY <1>1, <1>2, <1>4, <1>9

\* One more moves the digits on as the increment does.
LEMMA SummedNext ==
  ASSUME Cipher!CipherGiven, NEW m \in Cipher!Nonces, NEW x \in Nat, NEW d \in 0..(Digits - 1)
  PROVE  Summed(m, x + 1)[d] =
           IF d < Low /\ Wrapped(Summed(m, x), d) THEN (Summed(m, x)[d] + 1) % Radix
                                                  ELSE Summed(m, x)[d]
<1>1. /\ Low \in Nat /\ Radix \in Nat \ {0} /\ Digits \in Nat /\ Low <= Digits
      /\ m[d] \in 0..(Radix - 1) /\ DOMAIN m = 0..(Digits - 1)
  BY DEF Cipher!CipherGiven, Cipher!Nonces
<1>2. CASE ~(d < Low)
  BY <1>1, <1>2 DEF Summed
<1>3. CASE d < Low
  <2>1. d \in 0..Low /\ x + 1 \in Nat
    BY <1>1, <1>3
  <2>2. PICK v \in Nat : v = Cipher!Left(m, x)[d]
    BY <2>1, LeftEquation
  <2>3. PICK w \in Nat : w = Cipher!Left(m, x + 1)[d]
    BY <2>1, LeftEquation
  <2>4. Summed(m, x)[d] = (m[d] + v) % Radix /\ Summed(m, x + 1)[d] = (m[d] + w) % Radix
    BY <1>1, <1>3, <2>2, <2>3 DEF Summed
  <2>5. PICK a \in Nat : a = m[d] + v
    BY <1>1
  <2>6. CASE Wrapped(Summed(m, x), d)
    <3>1. w = v + 1
      BY <2>1, <2>2, <2>3, <2>6, LeftNext
    <3>2. m[d] + w = a + 1
      BY <1>1, <2>5, <3>1
    <3>3. PICK r \in 0..(Radix - 1) : r = a % Radix
      BY <1>1, DivMod
    <3>4. (a + 1) % Radix = IF r = Radix - 1 THEN 0 ELSE r + 1
      BY <1>1, <3>3, DivNext
    <3>5. (r + 1) % Radix = IF r = Radix - 1 THEN 0 ELSE r + 1
      BY <1>1, DigitNext
    <3>6. QED
      BY <1>3, <2>4, <2>5, <2>6, <3>2, <3>3, <3>4, <3>5
  <2>7. CASE ~Wrapped(Summed(m, x), d)
    <3>1. w = v
      BY <2>1, <2>2, <2>3, <2>7, LeftNext
    <3>2. QED
      BY <2>4, <2>7, <3>1
  <2>8. QED
    BY <2>6, <2>7
<1>4. QED
  BY <1>2, <1>3

\* A nonce after a carry from digit i.
Digitwise(c) == c = [d \in 0..(Digits - 1) |-> c[d]]

Carried(c, f, i) ==
  /\ DOMAIN c = 0..(Digits - 1) /\ Digitwise(c)
  /\ \A d \in 0..(Digits - 1) :
       c[d] = IF d >= i /\ \A e \in i..(d - 1) : f[e] = Radix - 1
              THEN (f[d] + 1) % Radix ELSE f[d]

\* What Carry does to each digit.
LEMMA CarryDigits ==
  ASSUME NEW f, DOMAIN f = 0..(Digits - 1), NEW i
  PROVE  Carried(Cipher!Carry(f, i), f, i)
<1> DEFINE c == [d \in 0..(Digits - 1) |->
                   IF d >= i /\ \A e \in i..(d - 1) : f[e] = Radix - 1
                   THEN (f[d] + 1) % Radix ELSE f[d]]
<1>1. Cipher!Carry(f, i) = c
  BY Zenon DEF Cipher!Carry
<1>2. Carried(c, f, i)
  BY DEF Carried, Digitwise
<1> HIDE DEF c
<1>3. QED
  BY <1>1, <1>2, Zenon

\* To add one more is to increment (nonce.add, nonce.increment, nonce.carry).
LEMMA AddNext ==
  ASSUME Cipher!CipherGiven, NEW m \in Cipher!Nonces, NEW x \in Nat, x + 1 <= Cipher!LowNumbers
  PROVE  Cipher!Add(m, x + 1) = Cipher!Increment(Cipher!Add(m, x))
<1>1. /\ Low \in Nat /\ Radix \in Nat \ {0} /\ Digits \in Nat /\ Low <= Digits
      /\ x + 1 \in Nat /\ Low \in 0..Low /\ 0 \in Nat
  BY DEF Cipher!CipherGiven
<1>2. PICK f : f = Summed(m, x) /\ DOMAIN f = 0..(Digits - 1) /\ Digitwise(f)
  BY SummedDigits DEF Cipher!Nonces, Digitwise
<1>3. PICK g : g = Summed(m, x + 1) /\ DOMAIN g = 0..(Digits - 1) /\ Digitwise(g)
  BY <1>1, SummedDigits DEF Cipher!Nonces, Digitwise
<1>4. PICK a \in {0, 1}, b \in {0, 1} :
        a = Cipher!Left(m, x)[Low] /\ b = Cipher!Left(m, x + 1)[Low]
  <2>1. x <= Cipher!LowNumbers
    <3>1. Cipher!LowNumbers \in Nat
      <4>1. PICK h \in [0..Low -> Nat] : h[Low] = Cipher!LowNumbers
        BY PowersEquation
      <4>2. QED
        BY <1>1, <4>1
    <3>2. QED
      BY <3>1
  <2>2. Cipher!Left(m, x)[Low] \in {0, 1} /\ Cipher!Left(m, x + 1)[Low] \in {0, 1}
    BY <1>1, <2>1, CarryLeft
  <2>3. QED
    BY <2>2
<1>5. /\ Wrapped(f, Low) => b = a + 1
      /\ ~Wrapped(f, Low) => b = a
  BY <1>1, <1>2, <1>4, LeftNext
<1>6. Cipher!Add(m, x) = IF a # 0 THEN Cipher!Carry(f, Low) ELSE f
  BY <1>2, <1>4, SummedDigits, Zenon
<1>7. Cipher!Add(m, x + 1) = IF b # 0 THEN Cipher!Carry(g, Low) ELSE g
  BY <1>1, <1>3, <1>4, SummedDigits, Zenon
<1>8. \A d \in 0..(Digits - 1) :
        g[d] = IF d < Low /\ Wrapped(f, d) THEN (f[d] + 1) % Radix ELSE f[d]
  BY <1>2, <1>3, SummedNext
<1>9. PICK c : c = Cipher!Carry(f, Low) /\ Carried(c, f, Low)
  BY <1>2, CarryDigits, Zenon
<1>10. PICK h : h = Cipher!Carry(g, Low) /\ Carried(h, g, Low)
  BY <1>3, CarryDigits, Zenon
<1>11. PICK k : k = Cipher!Increment(f) /\ Carried(k, f, 0)
  BY <1>2, CarryDigits, Zenon DEF Cipher!Increment
<1>12. PICK l : l = Cipher!Increment(c) /\ Carried(l, c, 0)
  <2>1. DOMAIN c = 0..(Digits - 1)
    BY <1>9 DEF Carried
  <2>2. QED
    BY <2>1, CarryDigits, Zenon DEF Cipher!Increment
<1>13. \A d \in 0..(Digits - 1) : d >= Low => \A e \in Low..d : g[e] = f[e]
  BY <1>1, <1>8
<1>14. CASE a = 0 /\ ~Wrapped(f, Low)
  <2>1. Cipher!Add(m, x) = f /\ Cipher!Add(m, x + 1) = g
    BY <1>4, <1>5, <1>6, <1>7, <1>14
  <2>2. \A d \in 0..(Digits - 1) : g[d] = k[d]
    BY <1>1, <1>8, <1>11, <1>14 DEF Wrapped, Carried
  <2>3. g = k
    BY <1>3, <1>11, <2>2 DEF Digitwise, Carried
  <2>4. QED
    BY <1>11, <2>1, <2>3 DEF Carried
<1>15. CASE a = 0 /\ Wrapped(f, Low)
  <2>1. Cipher!Add(m, x) = f /\ Cipher!Add(m, x + 1) = h
    BY <1>4, <1>5, <1>6, <1>7, <1>10, <1>15 DEF Carried
  <2>2. ASSUME NEW d \in 0..(Digits - 1)
        PROVE  h[d] = k[d]
    <3>1. CASE d < Low
      BY <1>1, <1>8, <1>10, <1>11, <3>1 DEF Wrapped, Carried
    <3>2. CASE d >= Low
      <4>1. (\A e \in Low..(d - 1) : g[e] = Radix - 1) <=> (\A e \in 0..(d - 1) : f[e] = Radix - 1)
        BY <1>1, <1>13, <1>15, <3>2 DEF Wrapped
      <4>2. g[d] = f[d]
        BY <1>1, <1>13, <3>2
      <4>3. QED
        BY <1>1, <1>10, <1>11, <3>2, <4>1, <4>2 DEF Carried
    <3>3. QED
      BY <1>1, <3>1, <3>2
  <2>3. h = k
    BY <1>10, <1>11, <2>2 DEF Digitwise, Carried
  <2>4. QED
    BY <1>11, <2>1, <2>3 DEF Carried
<1>16. CASE a = 1
  <2>1. ~Wrapped(f, Low) /\ b = 1
    BY <1>4, <1>5, <1>16
  <2>2. Cipher!Add(m, x) = c /\ Cipher!Add(m, x + 1) = h
    BY <1>6, <1>7, <1>9, <1>10, <1>16, <2>1 DEF Carried
  <2>3. \A d \in 0..(Digits - 1) : d < Low => c[d] = f[d]
    BY <1>1, <1>9 DEF Carried
  <2>4. ASSUME NEW d \in 0..(Digits - 1)
        PROVE  h[d] = l[d]
    <3>1. CASE d < Low
      <4>1. h[d] = g[d]
        BY <1>1, <1>10, <3>1 DEF Carried
      <4>2. Wrapped(f, d) <=> \A e \in 0..(d - 1) : c[e] = Radix - 1
        BY <1>1, <2>3, <3>1 DEF Wrapped
      <4>3. l[d] = IF Wrapped(f, d) THEN (c[d] + 1) % Radix ELSE c[d]
        BY <1>1, <1>12, <4>2 DEF Carried
      <4>4. QED
        BY <1>8, <2>3, <3>1, <4>1, <4>3
    <3>2. CASE d >= Low
      <4>1. ~(\A e \in 0..(d - 1) : c[e] = Radix - 1)
        BY <1>1, <2>1, <2>3, <3>2 DEF Wrapped
      <4>2. l[d] = c[d]
        BY <1>12, <4>1 DEF Carried
      <4>3. (\A e \in Low..(d - 1) : f[e] = Radix - 1)
              <=> (\A e \in Low..(d - 1) : g[e] = Radix - 1)
        BY <1>1, <1>13, <3>2
      <4>4. g[d] = f[d]
        BY <1>1, <1>13, <3>2
      <4>5. QED
        BY <1>9, <1>10, <3>2, <4>2, <4>3, <4>4 DEF Carried
    <3>3. QED
      BY <1>1, <3>1, <3>2
  <2>5. h = l
    BY <1>10, <1>12, <2>4 DEF Digitwise, Carried
  <2>6. QED
    BY <1>12, <2>2, <2>5 DEF Carried
<1>17. QED
  BY <1>4, <1>14, <1>15, <1>16

\* Quotient and remainder, as numbers.
LEMMA Divided ==
  ASSUME NEW a \in Nat, NEW d \in Nat \ {0}
  PROVE  \E q \in Nat : \E r \in 0..(d - 1) : q = a \div d /\ r = a % d /\ a = d * q + r
<1>1. a \div d \in Nat /\ a % d \in 0..(d - 1) /\ a = d * (a \div d) + (a % d)
  BY DivMod
<1>2. QED
  BY <1>1, Zenon

\* A number is the quotient when it fits.
LEMMA Quotient ==
  ASSUME NEW a \in Nat, NEW d \in Nat \ {0}, NEW q \in Nat, NEW r \in 0..(d - 1), a = d * q + r
  PROVE  a \div d = q /\ a % d = r
<1>1. PICK q2 \in Nat : \E r2 \in 0..(d - 1) :
        q2 = a \div d /\ r2 = a % d /\ a = d * q2 + r2
  BY Divided
<1>2. PICK r2 \in 0..(d - 1) : q2 = a \div d /\ r2 = a % d /\ a = d * q2 + r2
  BY <1>1
<1>3. d * q + r = d * q2 + r2 /\ q \in Int /\ q2 \in Int
  BY <1>2
<1>4. q = q2 /\ r = r2
  BY <1>3, DivUnique
<1>5. QED
  BY <1>2, <1>4

\* The blocks that are asked for are those of the range (calculateUnderlying).
LEMMA SpanNumbers ==
  ASSUME Cipher!CipherGiven, NEW o \in Nat, NEW l \in Nat \ {0}
  PROVE  Cipher!BlocksToRead(o, l) = ((o + l - 1) \div BlockData) - (o \div BlockData) + 1
<1>1. PICK d \in Nat \ {0} : d = BlockData
  BY DEF Cipher!CipherGiven
<1>2. PICK q \in Nat : \E r \in 0..(d - 1) : q = o \div d /\ r = o % d /\ o = d * q + r
  BY Divided
<1>3. PICK r \in 0..(d - 1) : q = o \div d /\ r = o % d /\ o = d * q + r
  BY <1>2
<1>4. PICK w \in Int : w = l - (d - r) /\ o + l - 1 = d * (q + 1) + (w - 1) /\ d * (q + 1) \in Nat
  <2>1. d * (q + 1) = d * q + d /\ d * q \in Nat
    OBVIOUS
  <2>2. l - (d - r) \in Int /\ o + l - 1 = d * (q + 1) + ((l - (d - r)) - 1)
    BY <1>3, <2>1
  <2>3. QED
    BY <2>1, <2>2
<1>5. Cipher!BlocksToRead(o, l)
        = 1 + IF w > 0 THEN w \div d + IF w % d # 0 THEN 1 ELSE 0 ELSE 0
  <2>1. w = l - (BlockData - (o % BlockData))
    BY <1>1, <1>3, <1>4
  <2>2. QED
    BY <1>1, <2>1, Zenon DEF Cipher!BlocksToRead
<1>6. o + l - 1 \in Nat
  OBVIOUS
<1>7. CASE ~(w > 0)
  <2>1. PICK z \in 0..(d - 1) : o + l - 1 = d * q + z
    <3>1. o + l - 1 = d * q + (d + w - 1)
      BY <1>4
    <3>2. d + w - 1 \in 0..(d - 1)
      BY <1>4, <1>7
    <3>3. QED
      BY <3>1, <3>2
  <2>2. (o + l - 1) \div d = q
    BY <1>6, <2>1, Quotient
  <2>3. Cipher!BlocksToRead(o, l) = 1 + 0
    BY <1>5, <1>7
  <2>4. QED
    BY <1>1, <1>3, <2>2, <2>3
<1>8. CASE w > 0
  <2>1. PICK q3 \in Nat : \E r3 \in 0..(d - 1) : q3 = w \div d /\ r3 = w % d /\ w = d * q3 + r3
    <3>1. w \in Nat
      BY <1>8
    <3>2. QED
      BY <3>1, Divided
  <2>2. PICK r3 \in 0..(d - 1) : q3 = w \div d /\ r3 = w % d /\ w = d * q3 + r3
    BY <2>1
  <2>3. Cipher!BlocksToRead(o, l) = 1 + (q3 + IF r3 # 0 THEN 1 ELSE 0)
    BY <1>5, <1>8, <2>2
  <2>4. CASE r3 # 0
    <3>1. o + l - 1 = d * (q + 1 + q3) + (r3 - 1)
      <4>1. d * (q + 1 + q3) = d * (q + 1) + d * q3
        OBVIOUS
      <4>2. d * q3 \in Nat
        OBVIOUS
      <4>3. QED
        BY <1>4, <2>2, <4>1, <4>2
    <3>2. q + 1 + q3 \in Nat /\ r3 - 1 \in 0..(d - 1)
      BY <2>4
    <3>3. (o + l - 1) \div d = q + 1 + q3
      BY <1>6, <3>1, <3>2, Quotient
    <3>4. QED
      BY <1>1, <1>3, <2>3, <2>4, <3>3
  <2>5. CASE r3 = 0
    <3>1. q3 # 0
      BY <1>8, <2>2, <2>5
    <3>2. o + l - 1 = d * (q + q3) + (d - 1)
      <4>1. d * (q + q3) = d * q + d * q3 /\ d * (q + 1) = d * q + d
        OBVIOUS
      <4>2. d * q3 \in Nat /\ d * q \in Nat
        OBVIOUS
      <4>3. QED
        BY <1>4, <2>2, <2>5, <4>1, <4>2
    <3>3. q + q3 \in Nat /\ d - 1 \in 0..(d - 1)
      OBVIOUS
    <3>4. (o + l - 1) \div d = q + q3
      BY <1>6, <3>2, <3>3, Quotient
    <3>5. QED
      BY <1>1, <1>3, <2>3, <2>5, <3>4
  <2>6. QED
    BY <2>4, <2>5
<1>9. QED
  BY <1>7, <1>8

\* Increments of nonces are nonces.
LEMMA NonceNext ==
  ASSUME Cipher!CipherGiven, NEW m \in Cipher!Nonces
  PROVE  Cipher!Increment(m) \in Cipher!Nonces
<1>1. PICK c : c = Cipher!Increment(m) /\ Carried(c, m, 0)
  <2>1. DOMAIN m = 0..(Digits - 1)
    BY DEF Cipher!Nonces
  <2>2. QED
    BY <2>1, CarryDigits, Zenon DEF Cipher!Increment
<1>2. ASSUME NEW d \in 0..(Digits - 1)
      PROVE  c[d] \in 0..(Radix - 1)
  <2>1. m[d] \in 0..(Radix - 1) /\ Radix \in Nat \ {0}
    BY DEF Cipher!CipherGiven, Cipher!Nonces
  <2>2. (m[d] + 1) % Radix \in 0..(Radix - 1)
    <3>1. m[d] + 1 \in Nat
      BY <2>1
    <3>2. QED
      BY <2>1, <3>1, DivMod
  <2>3. c[d] \in {m[d], (m[d] + 1) % Radix}
    BY <1>1 DEF Carried
  <2>4. QED
    BY <2>1, <2>2, <2>3
<1>3. QED
  BY <1>1, <1>2 DEF Carried, Digitwise, Cipher!Nonces

Blocks == [lo : Nat, n : 1..BlockData, nonce : Cipher!Nonces]

\* Block j of a part of z bytes that was sealed from nonce key on.
BlockOf(key, z, j) ==
  [lo |-> (j - 1) * BlockData, n |-> Cipher!Lower(BlockData, z - (j - 1) * BlockData),
   nonce |-> Cipher!Add(key, j - 1)]

\* What is sealed so far; the next block takes the next nonce.
BlocksInv(key) ==
  /\ size \in Sizes /\ nonce \in Cipher!Nonces /\ blocks \in Seq(Blocks)
  /\ nonce = Cipher!Add(key, Len(blocks))
  /\ \A j \in 1..Len(blocks) :
       (j - 1) * BlockData < size /\ blocks[j] = BlockOf(key, size, j)

Decrypters ==
  [off : Nat, len : Nat, src : Seq(Blocks), nonce : Cipher!Nonces \cup {<<>>}, buf : Seq(Int),
   idx : Nat, limit : Nat, out : Seq(Int), err : {"closed", "nil", "EOF", "BadSeek"},
   fetched : Int]

\* The block after the last that has a byte of the range.
Beyond(d) == ((d.off + d.len - 1) \div BlockData) + 1

\* The decrypter has had j blocks, and has bytes of the last of them from lo on.
Holding(d, key, j, lo) ==
  /\ j <= Beyond(d) /\ Beyond(d) <= Len(blocks)
  /\ d.src = SubSeq(blocks, j + 1, Beyond(d)) /\ d.nonce = Cipher!Add(key, j)
  /\ d.idx <= Len(d.buf) /\ lo + d.idx = d.off + Len(d.out)
  /\ lo + Len(d.buf) = Cipher!Lower(j * BlockData, size)
  /\ \A i \in 1..Len(d.buf) : d.buf[i] = lo + i - 1

\* The request of the decrypter, and what it has given for it.
Given(d) ==
  /\ d.len # 0 /\ d.off + d.len <= size
  /\ d.fetched = Beyond(d) - (d.off \div BlockData)
  /\ d.limit = d.len - Len(d.out)
  /\ d.err = IF d.limit = 0 THEN "EOF" ELSE "nil"
  /\ \A i \in 1..Len(d.out) : d.out[i] = d.off + i - 1

Opened(d, key) ==
  /\ d \in Decrypters /\ Given(d)
  /\ \E j \in Nat : \E lo \in Nat : Holding(d, key, j, lo)

\* A decrypter is opened only once everything is sealed.
DecInv(key) ==
  IF dec.err = "closed" THEN dec = Cipher!NoDecrypter ELSE Cipher!Sealed /\ Opened(dec, key)

CipherInv == \E key \in Cipher!Nonces : BlocksInv(key) /\ DecInv(key)

\* Nothing is sealed, and nobody reads.
LEMMA CipherBegins ==
  ASSUME Cipher!CipherGiven, Cipher!Init
  PROVE  CipherInv
<1>1. /\ size \in Sizes /\ nonce \in Cipher!Nonces /\ blocks = <<>> /\ dec = Cipher!NoDecrypter
  BY DEF Cipher!Init
<1>2. nonce = Cipher!Add(nonce, Len(blocks))
  <2>1. Len(blocks) = 0
    BY <1>1
  <2>2. QED
    BY <1>1, <2>1, AddNothing
<1>3. BlocksInv(nonce)
  BY <1>1, <1>2 DEF BlocksInv
<1>4. DecInv(nonce)
  BY <1>1 DEF DecInv, Cipher!NoDecrypter
<1>5. QED
  BY <1>1, <1>3, <1>4 DEF CipherInv

\* A block begins before the end, and is among those that a nonce can number.
LEMMA BlockNumbers ==
  ASSUME Cipher!CipherGiven, size \in Sizes, NEW m \in Nat, m * BlockData < size
  PROVE  /\ m + 1 <= Cipher!LowNumbers
         /\ Cipher!Lower(BlockData, size - m * BlockData) \in 1..BlockData
         /\ Cipher!Lower((m + 1) * BlockData, size)
              = m * BlockData + Cipher!Lower(BlockData, size - m * BlockData)
<1>1. PICK d \in Nat \ {0}, z \in Nat, most \in Nat :
        d = BlockData /\ z = size /\ most = Cipher!LowNumbers /\ z <= d * most
  <2>1. Cipher!LowNumbers \in Nat
    <3>1. Low \in Nat
      BY DEF Cipher!CipherGiven
    <3>2. PICK h \in [0..Low -> Nat] : h[Low] = Cipher!LowNumbers
      BY PowersEquation
    <3>3. QED
      BY <3>1, <3>2
  <2>2. size \in Nat /\ BlockData \in Nat \ {0} /\ size <= BlockData * Cipher!LowNumbers
    BY DEF Cipher!CipherGiven
  <2>3. QED
    BY <2>1, <2>2
<1>2. m * d < z
  BY <1>1
<1>3. m + 1 <= most
  <2>1. SUFFICES ASSUME most <= m PROVE FALSE
    OBVIOUS
  <2>2. PICK k \in Nat : m = most + k
    <3>1. m - most \in Nat /\ m = most + (m - most)
      BY <2>1
    <3>2. QED
      BY <3>1, Zenon
  <2>3. m * d = d * most + k * d /\ k * d \in Nat
    BY <2>2
  <2>4. QED
    BY <1>1, <1>2, <2>3
<1>4. PICK a \in Nat : a = m * d /\ (m + 1) * d = a + d
  OBVIOUS
<1>5. Cipher!Lower(d, z - a) \in 1..d /\ Cipher!Lower(a + d, z) = a + Cipher!Lower(d, z - a)
  BY <1>2, <1>4 DEF Cipher!Lower
<1>6. QED
  BY <1>1, <1>3, <1>4, <1>5

\* encrypter.Read seals the next block.
LEMMA SealStep ==
  ASSUME Cipher!CipherGiven, CipherInv, Cipher!Seal
  PROVE  CipherInv'
<1>1. PICK key \in Cipher!Nonces : BlocksInv(key) /\ DecInv(key)
  BY DEF CipherInv
<1>2. PICK m \in Nat : m = Len(blocks) /\ m * BlockData < size
  <2>1. Len(blocks) \in Nat
    BY <1>1, LenProperties DEF BlocksInv
  <2>2. PICK m \in Nat : m = Len(blocks)
    BY <2>1
  <2>3. ~(m * BlockData >= size) /\ size \in Nat /\ BlockData \in Nat
    BY <1>1, <2>2 DEF Cipher!Seal, Cipher!Sealed, BlocksInv, Cipher!CipherGiven
  <2>4. m * BlockData < size
    BY <2>3
  <2>5. QED
    BY <2>2, <2>4
<1>3. /\ size \in Sizes /\ nonce \in Cipher!Nonces /\ blocks \in Seq(Blocks)
      /\ nonce = Cipher!Add(key, m)
  BY <1>1, <1>2 DEF BlocksInv
<1>4. /\ m + 1 <= Cipher!LowNumbers /\ m * BlockData \in Nat
      /\ Cipher!Lower(BlockData, size - m * BlockData) \in 1..BlockData
  BY <1>2, <1>3, BlockNumbers DEF Cipher!CipherGiven
<1>5. PICK b : /\ b = [lo |-> m * BlockData, n |-> Cipher!Lower(BlockData, size - m * BlockData),
                       nonce |-> nonce]
               /\ blocks' = Append(blocks, b)
  BY <1>2 DEF Cipher!Seal
<1>6. nonce' = Cipher!Increment(nonce) /\ size' = size /\ dec' = dec
  BY DEF Cipher!Seal
<1>7. b \in Blocks
  BY <1>3, <1>4, <1>5 DEF Blocks
<1>8. b = BlockOf(key, size, m + 1)
  <2>1. (m + 1) - 1 = m
    OBVIOUS
  <2>2. QED
    BY <1>3, <1>5, <2>1, Zenon DEF BlockOf
<1>9. /\ blocks' \in Seq(Blocks) /\ Len(blocks') = m + 1
      /\ \A j \in 1..m : blocks'[j] = blocks[j]
      /\ blocks'[m + 1] = b
  BY <1>2, <1>3, <1>5, <1>7, AppendProperties
<1>10. nonce' = Cipher!Add(key, m + 1) /\ nonce' \in Cipher!Nonces
  BY <1>3, <1>4, <1>6, AddNext, NonceNext
<1>11. \A j \in 1..(m + 1) :
         (j - 1) * BlockData < size /\ blocks'[j] = BlockOf(key, size, j)
  <2>1. ASSUME NEW j \in 1..(m + 1)
        PROVE  (j - 1) * BlockData < size /\ blocks'[j] = BlockOf(key, size, j)
    <3>1. CASE j \in 1..m
      BY <1>1, <1>2, <1>9, <3>1 DEF BlocksInv
    <3>2. CASE j = m + 1
      <4>1. j - 1 = m
        BY <3>2
      <4>2. QED
        BY <1>2, <1>8, <1>9, <3>2, <4>1
    <3>3. QED
      BY <3>1, <3>2
  <2>2. QED
    BY <2>1
<1>12. BlocksInv(key)'
  BY <1>3, <1>6, <1>9, <1>10, <1>11 DEF BlocksInv, BlockOf, Cipher!Lower
<1>13. DecInv(key)'
  <2>1. dec = Cipher!NoDecrypter /\ dec.err = "closed"
    BY <1>1 DEF DecInv, Cipher!Seal
  <2>2. QED
    BY <1>6, <2>1 DEF DecInv, Cipher!NoDecrypter
<1>14. QED
  BY <1>12, <1>13 DEF CipherInv

\* A decrypter that took a block, and one that gave bytes to its reader.
WithBlock(d, s, k, b) == [d EXCEPT !.src = s, !.nonce = k, !.idx = 0, !.buf = b]
WithGiven(d, o, i, w, e) == [d EXCEPT !.out = o, !.idx = i, !.limit = w, !.err = e]

BlockFields(f, d, s, k, b) ==
  /\ f \in Decrypters /\ f.src = s /\ f.nonce = k /\ f.idx = 0 /\ f.buf = b
  /\ f.off = d.off /\ f.len = d.len /\ f.limit = d.limit /\ f.out = d.out /\ f.err = d.err
  /\ f.fetched = d.fetched
GivenFields(f, d, o, i, w, e) ==
  /\ f \in Decrypters /\ f.out = o /\ f.idx = i /\ f.limit = w /\ f.err = e
  /\ f.off = d.off /\ f.len = d.len /\ f.src = d.src /\ f.nonce = d.nonce /\ f.buf = d.buf
  /\ f.fetched = d.fetched

\* The fields of both.
LEMMA DecrypterFields ==
  ASSUME NEW d \in Decrypters
  PROVE  /\ \A s \in Seq(Blocks), k \in Cipher!Nonces, b \in Seq(Int) :
              BlockFields(WithBlock(d, s, k, b), d, s, k, b)
         /\ \A o \in Seq(Int), i \in Nat, w \in Nat, e \in {"nil", "EOF"} :
              GivenFields(WithGiven(d, o, i, w, e), d, o, i, w, e)
<1>1. ASSUME NEW s \in Seq(Blocks), NEW k \in Cipher!Nonces, NEW b \in Seq(Int)
      PROVE  BlockFields(WithBlock(d, s, k, b), d, s, k, b)
  BY DEF Decrypters, WithBlock, BlockFields
<1>2. ASSUME NEW o \in Seq(Int), NEW i \in Nat, NEW w \in Nat, NEW e \in {"nil", "EOF"}
      PROVE  GivenFields(WithGiven(d, o, i, w, e), d, o, i, w, e)
  BY DEF Decrypters, WithGiven, GivenFields
<1>3. QED
  BY <1>1, <1>2

\* The plain text of the w bytes from lo on.
Plain(lo, w) == [i \in 1..w |-> lo + i - 1]

\* It is a sequence of as many.
LEMMA PlainText ==
  ASSUME NEW lo \in Nat, NEW w \in Nat
  PROVE  /\ Plain(lo, w) \in Seq(Int) /\ Len(Plain(lo, w)) = w
         /\ \A i \in 1..w : Plain(lo, w)[i] = lo + i - 1
  BY DEF Plain

\* The decrypter d took block j + 1 of those of its request.
Took(f, d, key, j) ==
  BlockFields(f, d, SubSeq(blocks, j + 2, Beyond(d)), Cipher!Add(key, j + 1),
              Plain(j * BlockData, Cipher!Lower(BlockData, size - j * BlockData)))

\* fillBuffer opens the next block under its own nonce.
LEMMA BlockStep ==
  ASSUME Cipher!CipherGiven, NEW key \in Cipher!Nonces, BlocksInv(key), NEW d \in Decrypters,
         NEW j \in Nat, j < Beyond(d), Beyond(d) \in Nat, Beyond(d) <= Len(blocks),
         d.src = SubSeq(blocks, j + 1, Beyond(d)), d.nonce = Cipher!Add(key, j)
  PROVE  /\ Took(Cipher!FillBuffer(d), d, key, j)
         /\ j * BlockData \in Nat /\ j * BlockData < size
         /\ Cipher!Lower(BlockData, size - j * BlockData) \in 1..BlockData
         /\ Cipher!Lower((j + 1) * BlockData, size)
              = j * BlockData + Cipher!Lower(BlockData, size - j * BlockData)
<1>1. PICK m \in Nat, last \in Nat : m = Len(blocks) /\ last = Beyond(d) /\ j < last /\ last <= m
  BY LenProperties DEF BlocksInv
<1>2. /\ blocks \in Seq(Blocks) /\ size \in Sizes /\ nonce = Cipher!Add(key, m)
      /\ nonce \in Cipher!Nonces
  BY <1>1 DEF BlocksInv
<1>3. j + 1 \in 1..m /\ last \in (j + 1)..m /\ (j + 1) + 1 = j + 2 /\ (j + 1) - 1 = j
  BY <1>1
<1>4. j * BlockData < size /\ blocks[j + 1] = BlockOf(key, size, j + 1)
  BY <1>1, <1>3 DEF BlocksInv
<1>5. /\ j + 1 <= Cipher!LowNumbers /\ j * BlockData \in Nat
      /\ Cipher!Lower(BlockData, size - j * BlockData) \in 1..BlockData
      /\ Cipher!Lower((j + 1) * BlockData, size)
           = j * BlockData + Cipher!Lower(BlockData, size - j * BlockData)
  BY <1>2, <1>4, BlockNumbers DEF Cipher!CipherGiven
<1>6. /\ d.src # <<>> /\ Head(d.src) = blocks[j + 1]
      /\ Tail(d.src) = SubSeq(blocks, j + 2, last) /\ Tail(d.src) \in Seq(Blocks)
  <2>1. Head(d.src) = blocks[j + 1] /\ Tail(d.src) = SubSeq(blocks, j + 2, last)
    BY <1>1, <1>2, <1>3, HeadTailOfSubSeq
  <2>2. \A i \in 1..m : blocks[i] \in Blocks
    BY <1>1, <1>2, ElementOfSeq
  <2>3. SubSeq(blocks, j + 2, last) \in Seq(Blocks)
    <3>1. \A i \in (j + 2)..last : blocks[i] \in Blocks
      BY <1>1, <2>2
    <3>2. j + 2 \in Int /\ last \in Int
      BY <1>1
    <3>3. QED
      BY <3>1, <3>2, SubSeqProperties
  <2>4. d.src # <<>>
    <3>1. \A i \in (j + 1)..last : blocks[i] \in Blocks
      BY <1>1, <2>2
    <3>2. Len(SubSeq(blocks, j + 1, last)) = last - (j + 1) + 1
      BY <1>1, <3>1, SubSeqProperties
    <3>3. PICK h \in Nat \ {0} : h = last - (j + 1) + 1
      BY <1>1
    <3>4. Len(d.src) # 0
      BY <1>1, <3>2, <3>3
    <3>5. Len(<<>>) = 0
      OBVIOUS
    <3>6. QED
      BY <3>4, <3>5, Zenon
  <2>5. QED
    BY <2>1, <2>3, <2>4
<1>7. PICK b : b = Head(d.src)
  OBVIOUS
<1>8. /\ b.lo = j * BlockData /\ b.n = Cipher!Lower(BlockData, size - j * BlockData)
      /\ b.nonce = Cipher!Add(key, j)
  <2>1. b = BlockOf(key, size, j + 1)
    BY <1>4, <1>6, <1>7
  <2>2. QED
    BY <1>3, <2>1 DEF BlockOf
<1>9. PICK w \in Nat, lo \in Nat : w = b.n /\ lo = b.lo
  BY <1>5, <1>8 DEF Cipher!CipherGiven
<1>10. [i \in 1..b.n |-> IF b.nonce = d.nonce THEN b.lo + i - 1 ELSE Cipher!Zero] = Plain(lo, w)
  <2>1. b.nonce = d.nonce
    BY <1>8
  <2>2. QED
    BY <1>9, <2>1, Zenon DEF Plain
<1>11. /\ Cipher!Increment(d.nonce) = Cipher!Add(key, j + 1)
       /\ Cipher!Add(key, j + 1) \in Cipher!Nonces
  <2>1. Cipher!Add(key, j) \in Cipher!Nonces
    <3>1. blocks[j + 1] \in Blocks
      BY <1>1, <1>2, <1>3, ElementOfSeq
    <3>2. blocks[j + 1].nonce = Cipher!Add(key, j)
      BY <1>6, <1>7, <1>8
    <3>3. QED
      BY <3>1, <3>2 DEF Blocks
  <2>2. Cipher!Add(key, j + 1) = Cipher!Increment(Cipher!Add(key, j))
    BY <1>5, AddNext
  <2>3. QED
    BY <2>1, <2>2, NonceNext
<1>12. Plain(lo, w) \in Seq(Int)
  BY PlainText
<1> DEFINE s == Tail(d.src)
           k == Cipher!Increment(d.nonce)
           t == Plain(lo, w)
<1>13. Cipher!FillBuffer(d) = WithBlock(d, s, k, t)
  <2>1. Cipher!FillBuffer(d) =
          [d EXCEPT !.src = Tail(@), !.nonce = Cipher!Increment(@), !.idx = 0, !.buf = t]
    <3> HIDE DEF t
    <3>1. t = [i \in 1..b.n |-> IF b.nonce = d.nonce THEN b.lo + i - 1 ELSE Cipher!Zero]
      BY <1>10 DEF t
    <3>2. d.src # <<>>
      BY <1>6
    <3>3. QED
      BY <1>7, <3>1, <3>2, Zenon DEF Cipher!FillBuffer
  <2> HIDE DEF t
  <2>2. QED
    BY <2>1 DEF WithBlock, Decrypters
<1>14. s \in Seq(Blocks) /\ k \in Cipher!Nonces /\ t \in Seq(Int)
  BY <1>6, <1>11, <1>12
<1> HIDE DEF s, k, t
<1>15. BlockFields(Cipher!FillBuffer(d), d, s, k, t)
  BY <1>13, <1>14, DecrypterFields
<1>16. /\ s = SubSeq(blocks, j + 2, Beyond(d)) /\ k = Cipher!Add(key, j + 1)
       /\ t = Plain(j * BlockData, Cipher!Lower(BlockData, size - j * BlockData))
  BY <1>1, <1>6, <1>8, <1>9, <1>11 DEF s, k, t
<1>17. Took(Cipher!FillBuffer(d), d, key, j)
  BY <1>15, <1>16, Zenon DEF Took
<1>18. QED
  BY <1>4, <1>5, <1>17

\* The invariant after a step that only moves the decrypter.
LEMMA StillOpened ==
  ASSUME NEW key \in Cipher!Nonces, BlocksInv(key), NEW d, Opened(d, key), dec' = d,
         Cipher!Sealed, d.err # "closed", size' = size, blocks' = blocks, nonce' = nonce
  PROVE  CipherInv'
<1>1. BlocksInv(key)'
  BY DEF BlocksInv, BlockOf, Cipher!Lower
<1>2. Given(d)' /\ Cipher!Sealed'
  BY DEF Opened, Given, Beyond, Cipher!Sealed
<1>3. \E j \in Nat : \E lo \in Nat : Holding(d, key, j, lo)'
  <2>1. PICK j \in Nat, lo \in Nat : Holding(d, key, j, lo)
    BY DEF Opened
  <2>2. Holding(d, key, j, lo)'
    BY <2>1, Zenon DEF Holding, Beyond, Cipher!Lower
  <2>3. QED
    BY <2>2, Zenon
<1>4. d \in Decrypters' /\ (d \in Decrypters)
  BY DEF Opened, Decrypters
<1>5. Opened(d, key)'
  BY <1>2, <1>3, <1>4, Zenon DEF Opened
<1>6. Opened(dec, key)'
  BY <1>5, Zenon DEF Opened, Given, Holding, Beyond
<1>7. QED
  BY <1>1, <1>2, <1>6, Zenon DEF DecInv, CipherInv

\* The first block q of a range of l bytes from o on, the offset r in it, and the block
\* b after its last, of m blocks of d bytes.
RangeBlocks(d, m, o, l) ==
  \E q \in Nat : \E r \in 0..(d - 1) : \E b \in Nat :
    /\ q = o \div d /\ r = o % d /\ o = q * d + r
    /\ b = ((o + l - 1) \div d) + 1 /\ q < b /\ b <= m

\* There are such blocks when they hold all z bytes the range is of.
LEMMA RangeNumbers ==
  ASSUME NEW d \in Nat \ {0}, NEW z \in Nat, NEW m \in Nat, m * d >= z,
         NEW o \in 0..(z - 1), NEW l \in 1..(z - o)
  PROVE  RangeBlocks(d, m, o, l)
<1>1. PICK q \in Nat : \E r \in 0..(d - 1) : q = o \div d /\ r = o % d /\ o = d * q + r
  BY Divided
<1>2. PICK r \in 0..(d - 1) : q = o \div d /\ r = o % d /\ o = d * q + r
  BY <1>1
<1>3. PICK e \in Nat : e = o + l - 1 /\ o <= e /\ e < z
  OBVIOUS
<1>4. PICK p2 \in Nat : \E s2 \in 0..(d - 1) : p2 = e \div d /\ s2 = e % d /\ e = d * p2 + s2
  BY <1>3, Divided
<1>5. PICK s2 \in 0..(d - 1) : p2 = e \div d /\ e = d * p2 + s2
  BY <1>4
<1>6. q <= p2
  <2>1. SUFFICES ASSUME p2 + 1 <= q PROVE FALSE
    OBVIOUS
  <2>2. PICK k \in Nat : q = p2 + 1 + k
    <3>1. q - p2 - 1 \in Nat /\ q = p2 + 1 + (q - p2 - 1)
      BY <2>1
    <3>2. QED
      BY <3>1, Zenon
  <2>3. d * q = d * p2 + d + d * k /\ d * k \in Nat
    BY <2>2
  <2>4. QED
    BY <1>2, <1>3, <1>5, <2>3
<1>7. p2 + 1 <= m
  <2>1. SUFFICES ASSUME m <= p2 PROVE FALSE
    OBVIOUS
  <2>2. PICK k \in Nat : p2 = m + k
    <3>1. p2 - m \in Nat /\ p2 = m + (p2 - m)
      BY <2>1
    <3>2. QED
      BY <3>1, Zenon
  <2>3. d * p2 = m * d + d * k /\ d * k \in Nat
    BY <2>2
  <2>4. QED
    BY <1>3, <1>5, <2>3
<1>8. d * q = q * d /\ p2 + 1 \in Nat /\ q < p2 + 1 /\ p2 + 1 = ((o + l - 1) \div d) + 1
  BY <1>3, <1>5, <1>6
<1>9. o = q * d + r
  BY <1>2, <1>8
<1>10. QED
  BY <1>2, <1>7, <1>8, <1>9, Zenon DEF RangeBlocks

\* A decrypter before it has taken a block.
Asked(o, l, s, k, w) ==
  [off |-> o, len |-> l, src |-> s, nonce |-> k, buf |-> <<>>, idx |-> 0, limit |-> l,
   out |-> <<>>, err |-> "nil", fetched |-> w]

\* The decrypter newDecrypterSeek(o, l) opens: of the blocks s of the source, w as it
\* asked, from block q on, h being the nonce of the header.
Sought(o, l, s, h, w, q) ==
  LET opened == [Cipher!NoDecrypter EXCEPT !.off = o, !.len = l, !.src = s, !.limit = l,
                                           !.err = "nil", !.nonce = h, !.fetched = w]
      sought == Cipher!FillBuffer([opened EXCEPT !.nonce = Cipher!Add(@, q)])
  IN  IF o = 0 THEN opened
      ELSE IF sought.err # "nil" THEN sought
      ELSE IF o % BlockData > Len(sought.buf) THEN [sought EXCEPT !.err = "BadSeek"]
      ELSE [sought EXCEPT !.idx = o % BlockData]

\* It takes its first block at once, unless it begins at 0.
LEMMA SoughtDecrypter ==
  ASSUME NEW o, NEW l, NEW s, NEW h, NEW w, NEW q
  PROVE  LET f == Cipher!FillBuffer(Asked(o, l, s, Cipher!Add(h, q), w))
         IN  Sought(o, l, s, h, w, q)
               = IF o = 0 THEN Asked(o, l, s, h, w)
                 ELSE IF f.err # "nil" THEN f
                 ELSE IF o % BlockData > Len(f.buf) THEN [f EXCEPT !.err = "BadSeek"]
                 ELSE [f EXCEPT !.idx = o % BlockData]
<1> DEFINE opened == [Cipher!NoDecrypter EXCEPT !.off = o, !.len = l, !.src = s, !.limit = l,
                                                !.err = "nil", !.nonce = h, !.fetched = w]
           moved == [opened EXCEPT !.nonce = Cipher!Add(@, q)]
           f == Cipher!FillBuffer(moved)
<1>1. opened = Asked(o, l, s, h, w)
  <2> DEFINE r1 == [Cipher!NoDecrypter EXCEPT !.off = o]
             r2 == [r1 EXCEPT !.len = l]
             r3 == [r2 EXCEPT !.src = s]
             r4 == [r3 EXCEPT !.limit = l]
             r5 == [r4 EXCEPT !.err = "nil"]
             r6 == [r5 EXCEPT !.nonce = h]
             r7 == [r6 EXCEPT !.fetched = w]
  <2>1. r1 = [off |-> o, len |-> 0, src |-> <<>>, nonce |-> <<>>, buf |-> <<>>, idx |-> 0,
              limit |-> 0, out |-> <<>>, err |-> "closed", fetched |-> 0]
    BY DEF Cipher!NoDecrypter
  <2>2. opened = r7
    OBVIOUS
  <2> HIDE DEF r1, opened
  <2>3. r2 = [off |-> o, len |-> l, src |-> <<>>, nonce |-> <<>>, buf |-> <<>>, idx |-> 0,
              limit |-> 0, out |-> <<>>, err |-> "closed", fetched |-> 0]
    BY <2>1
  <2> HIDE DEF r2
  <2>4. r3 = [off |-> o, len |-> l, src |-> s, nonce |-> <<>>, buf |-> <<>>, idx |-> 0,
              limit |-> 0, out |-> <<>>, err |-> "closed", fetched |-> 0]
    BY <2>3
  <2> HIDE DEF r3
  <2>5. r4 = [off |-> o, len |-> l, src |-> s, nonce |-> <<>>, buf |-> <<>>, idx |-> 0,
              limit |-> l, out |-> <<>>, err |-> "closed", fetched |-> 0]
    BY <2>4
  <2> HIDE DEF r4
  <2>6. r5 = [off |-> o, len |-> l, src |-> s, nonce |-> <<>>, buf |-> <<>>, idx |-> 0,
              limit |-> l, out |-> <<>>, err |-> "nil", fetched |-> 0]
    BY <2>5
  <2> HIDE DEF r5
  <2>7. r6 = [off |-> o, len |-> l, src |-> s, nonce |-> h, buf |-> <<>>, idx |-> 0,
              limit |-> l, out |-> <<>>, err |-> "nil", fetched |-> 0]
    BY <2>6
  <2> HIDE DEF r6
  <2>8. r7 = Asked(o, l, s, h, w)
    BY <2>7 DEF Asked
  <2> HIDE DEF r7
  <2>9. QED
    BY <2>2, <2>8
<1>2. Sought(o, l, s, h, w, q)
        = IF o = 0 THEN opened
          ELSE IF f.err # "nil" THEN f
          ELSE IF o % BlockData > Len(f.buf) THEN [f EXCEPT !.err = "BadSeek"]
          ELSE [f EXCEPT !.idx = o % BlockData]
  BY Zenon DEF Sought
<1> HIDE DEF opened
<1>3. moved = Asked(o, l, s, Cipher!Add(h, q), w)
  BY <1>1 DEF Asked
<1> HIDE DEF moved
<1>4. QED
  BY <1>1, <1>2, <1>3

\* The blocks newDecrypterSeek asks for are those of the range, and there.
LEMMA OpenedDecrypter ==
  ASSUME Cipher!CipherGiven, NEW key \in Cipher!Nonces, BlocksInv(key),
         NEW o \in 0..(size - 1), NEW l \in 1..(size - o), Cipher!Open(o, l),
         NEW q \in Nat, NEW b \in Nat, q = o \div BlockData, q < b, b <= Len(blocks),
         b = ((o + l - 1) \div BlockData) + 1
  PROVE  dec' = Sought(o, l, SubSeq(blocks, q + 1, b), key, b - q, q)
<1>1. PICK m \in Nat : m = Len(blocks) /\ blocks \in Seq(Blocks) /\ size \in Nat
  BY LenProperties DEF BlocksInv, Cipher!CipherGiven
<1>2. Cipher!HeaderNonce = key
  <2>1. 1 \in 1..m /\ 1 - 1 = 0
    BY <1>1
  <2>2. blocks[1] = BlockOf(key, size, 1)
    BY <1>1, <2>1 DEF BlocksInv
  <2>3. blocks[1].nonce = Cipher!Add(key, 0)
    BY <2>1, <2>2 DEF BlockOf
  <2>4. QED
    BY <2>3, AddNothing DEF Cipher!HeaderNonce
<1>3. Cipher!BlocksToRead(o, l) = b - q
  <2>1. o \in Nat /\ l \in Nat \ {0}
    BY <1>1
  <2>2. Cipher!BlocksToRead(o, l) = ((o + l - 1) \div BlockData) - (o \div BlockData) + 1
    BY <2>1, SpanNumbers
  <2>3. PICK k \in Int : k = (o + l - 1) \div BlockData
    <3>1. b - 1 = (o + l - 1) \div BlockData /\ b - 1 \in Int
      <4>1. PICK d \in Nat \ {0}, a \in Nat : d = BlockData /\ a = o + l - 1
        BY <2>1 DEF Cipher!CipherGiven
      <4>2. a \div d \in Nat
        BY DivMod
      <4>3. b = (a \div d) + 1
        BY <4>1
      <4>4. QED
        BY <4>1, <4>2, <4>3
    <3>2. QED
      BY <3>1, Zenon
  <2>4. b = k + 1
    BY <2>3
  <2>5. QED
    BY <2>2, <2>3, <2>4
<1>4. Cipher!Lower(q + (b - q), Len(blocks)) = b
  BY <1>1 DEF Cipher!Lower
<1>5. dec' = Sought(o, l, SubSeq(blocks, (o \div BlockData) + 1,
                                 Cipher!Lower((o \div BlockData) + Cipher!BlocksToRead(o, l),
                                              Len(blocks))),
                    Cipher!HeaderNonce, Cipher!BlocksToRead(o, l), o \div BlockData)
  BY Zenon DEF Cipher!Open, Sought
<1>6. QED
  BY <1>2, <1>3, <1>4, <1>5, Zenon

\* A decrypter moved within its block.
MovedTo(f, r) == [f EXCEPT !.idx = r]

IsMoved(d, f, r) ==
  /\ d \in Decrypters /\ d.idx = r /\ d.src = f.src /\ d.nonce = f.nonce
  /\ d.buf = f.buf /\ d.off = f.off /\ d.len = f.len /\ d.limit = f.limit
  /\ d.out = f.out /\ d.err = f.err /\ d.fetched = f.fetched

\* Its other fields stay.
LEMMA MovedFields ==
  ASSUME NEW f \in Decrypters, NEW r \in Nat
  PROVE  IsMoved(MovedTo(f, r), f, r)
BY DEF Decrypters, MovedTo, IsMoved

\* newDecrypterSeek leaves the decrypter at the first byte of its range.
LEMMA SeekStep ==
  ASSUME Cipher!CipherGiven, CipherInv,
         NEW o \in 0..(size - 1), NEW l \in 1..(size - o), Cipher!Open(o, l)
  PROVE  CipherInv'
<1>1. PICK key \in Cipher!Nonces : BlocksInv(key) /\ DecInv(key)
  BY DEF CipherInv
<1>2. /\ Cipher!Sealed /\ dec.err = "closed" /\ size' = size /\ nonce' = nonce /\ blocks' = blocks
      /\ size \in Nat /\ blocks \in Seq(Blocks) /\ BlockData \in Nat \ {0}
  BY <1>1 DEF Cipher!Open, BlocksInv, Cipher!CipherGiven
<1>3. PICK m \in Nat : m = Len(blocks)
  BY <1>2, LenProperties
<1>4. PICK q \in Nat : \E r \in 0..(BlockData - 1) : \E b \in Nat :
        /\ q = o \div BlockData /\ r = o % BlockData /\ o = q * BlockData + r
        /\ b = ((o + l - 1) \div BlockData) + 1 /\ q < b /\ b <= m
  <2>1. m * BlockData >= size
    BY <1>2, <1>3 DEF Cipher!Sealed
  <2>2. RangeBlocks(BlockData, m, o, l)
    BY <1>2, <1>3, <2>1, RangeNumbers
  <2>3. QED
    BY <2>2, Zenon DEF RangeBlocks
<1>5. PICK r \in 0..(BlockData - 1), b \in Nat :
        /\ q = o \div BlockData /\ r = o % BlockData /\ o = q * BlockData + r
        /\ b = ((o + l - 1) \div BlockData) + 1 /\ q < b /\ b <= m
  BY <1>4
<1>6. PICK s : s = SubSeq(blocks, q + 1, b)
  OBVIOUS
<1>7. s \in Seq(Blocks)
  <2>1. \A i \in (q + 1)..b : blocks[i] \in Blocks
    BY <1>2, <1>3, <1>5, ElementOfSeq
  <2>2. QED
    <3>1. q + 1 \in Int /\ b \in Int
      OBVIOUS
    <3>2. SubSeq(blocks, q + 1, b) \in Seq(Blocks)
      BY <2>1, <3>1, SubSeqProperties
    <3>3. QED
      BY <1>6, <3>2
<1>8. PICK w \in Nat : w = b - q
  BY <1>5
<1>9. dec' = Sought(o, l, s, key, w, q)
  <2>1. dec' = Sought(o, l, SubSeq(blocks, q + 1, b), key, b - q, q)
    BY <1>1, <1>3, <1>5, OpenedDecrypter
  <2>2. QED
    BY <1>6, <1>8, <2>1
<1>10. PICK k : k = Cipher!Add(key, q)
  OBVIOUS
<1>11. k \in Cipher!Nonces
  <2>1. q + 1 \in 1..m /\ (q + 1) - 1 = q
    BY <1>5
  <2>2. blocks[q + 1] = BlockOf(key, size, q + 1) /\ blocks[q + 1] \in Blocks
    BY <1>1, <1>2, <1>3, <2>1, ElementOfSeq DEF BlocksInv
  <2>3. blocks[q + 1].nonce = k
    BY <1>10, <2>1, <2>2 DEF BlockOf
  <2>4. QED
    BY <2>2, <2>3 DEF Blocks
<1>12. \A h \in Cipher!Nonces :
         /\ Asked(o, l, s, h, w) \in Decrypters
         /\ Asked(o, l, s, h, w).src = s /\ Asked(o, l, s, h, w).nonce = h
         /\ Beyond(Asked(o, l, s, h, w)) = b
         /\ Asked(o, l, s, h, w).off = o /\ Asked(o, l, s, h, w).len = l
         /\ Asked(o, l, s, h, w).limit = l /\ Asked(o, l, s, h, w).out = <<>>
         /\ Asked(o, l, s, h, w).err = "nil" /\ Asked(o, l, s, h, w).fetched = w
         /\ Asked(o, l, s, h, w).buf = <<>> /\ Asked(o, l, s, h, w).idx = 0
  <2>1. ASSUME NEW h \in Cipher!Nonces
        PROVE  Asked(o, l, s, h, w) \in Decrypters
    <3>1. <<>> \in Seq(Int) /\ o \in Nat /\ l \in Nat
      BY <1>2
    <3>2. QED
      BY <1>7, <2>1, <3>1 DEF Asked, Decrypters
  <2>2. QED
    BY <1>5, <2>1 DEF Asked, Beyond
<1>13. CASE o = 0
  <2>1. dec' = Asked(o, l, s, key, w)
    BY <1>9, <1>13, SoughtDecrypter
  <2>2. PICK d \in Decrypters : d = Asked(o, l, s, key, w)
    BY <1>12
  <2>3. /\ d.src = s /\ d.nonce = key /\ Beyond(d) = b /\ d.off = 0 /\ d.len = l /\ d.limit = l
        /\ d.out = <<>> /\ d.err = "nil" /\ d.fetched = w /\ d.buf = <<>> /\ d.idx = 0
    BY <1>12, <1>13, <2>2
  <2>4. q = 0
    <3>1. q * BlockData = 0
      BY <1>2, <1>5, <1>13
    <3>2. QED
      BY <1>2, <3>1
  <2>5. Given(d)
    <3>1. Len(d.out) = 0 /\ w = Beyond(d) - (d.off \div BlockData)
      BY <1>5, <1>8, <1>13, <2>3
    <3>2. l # 0 /\ 0 + l <= size /\ l = l - 0
      BY <1>2, <1>13
    <3>3. QED
      BY <2>3, <3>1, <3>2 DEF Given
  <2>6. Holding(d, key, 0, 0)
    <3>1. d.nonce = Cipher!Add(key, 0)
      BY <2>3, AddNothing
    <3>2. Len(d.buf) = 0 /\ Len(d.out) = 0 /\ 0 * BlockData = 0 /\ Cipher!Lower(0, size) = 0
      BY <1>2, <2>3 DEF Cipher!Lower
    <3>3. d.src = SubSeq(blocks, 0 + 1, Beyond(d))
      BY <1>6, <2>3, <2>4
    <3>4. QED
      BY <1>3, <1>5, <2>3, <3>1, <3>2, <3>3 DEF Holding
  <2>7. Opened(d, key)
    BY <2>5, <2>6 DEF Opened
  <2>8. QED
    BY <1>1, <1>2, <2>1, <2>2, <2>3, <2>7, StillOpened
<1>14. CASE o # 0
  <2>1. PICK a \in Decrypters : a = Asked(o, l, s, k, w)
    BY <1>11, <1>12
  <2>2. /\ a.src = s /\ a.nonce = k /\ Beyond(a) = b /\ a.off = o /\ a.len = l /\ a.limit = l
        /\ a.out = <<>> /\ a.err = "nil" /\ a.fetched = w
    BY <1>11, <1>12, <2>1
  <2>3. PICK f : f = Cipher!FillBuffer(a)
    OBVIOUS
  <2>4. PICK lo \in Nat, t \in 1..BlockData :
          /\ lo = q * BlockData /\ lo < size /\ t = Cipher!Lower(BlockData, size - lo)
          /\ Cipher!Lower((q + 1) * BlockData, size) = lo + t
          /\ Took(f, a, key, q)
    <3>1. /\ q < Beyond(a) /\ Beyond(a) \in Nat /\ Beyond(a) <= Len(blocks)
          /\ a.src = SubSeq(blocks, q + 1, Beyond(a)) /\ a.nonce = Cipher!Add(key, q)
      BY <1>3, <1>5, <1>6, <1>10, <2>2
    <3>2. /\ Took(Cipher!FillBuffer(a), a, key, q)
          /\ q * BlockData \in Nat /\ q * BlockData < size
          /\ Cipher!Lower(BlockData, size - q * BlockData) \in 1..BlockData
          /\ Cipher!Lower((q + 1) * BlockData, size)
               = q * BlockData + Cipher!Lower(BlockData, size - q * BlockData)
      BY <1>1, <3>1, BlockStep
    <3>3. QED
      BY <2>3, <3>2, Zenon
  <2>5. /\ f \in Decrypters /\ f.src = SubSeq(blocks, q + 2, b) /\ f.nonce = Cipher!Add(key, q + 1)
        /\ f.idx = 0 /\ f.buf = Plain(lo, t) /\ f.off = o /\ f.len = l /\ f.limit = l
        /\ f.out = <<>> /\ f.err = "nil" /\ f.fetched = w
    BY <2>2, <2>4 DEF Took, BlockFields
  <2>6. Len(f.buf) = t /\ \A i \in 1..t : f.buf[i] = lo + i - 1
    <3>1. t \in Nat
      BY <1>2
    <3>2. QED
      <4>1. Len(Plain(lo, t)) = t /\ \A i \in 1..t : Plain(lo, t)[i] = lo + i - 1
        BY <3>1, PlainText
      <4>2. QED
        BY <2>5, <4>1
  <2>7. r \in Nat /\ r <= t /\ lo + r = o
    <3>1. PICK z \in Nat, e \in Nat : z = size /\ e = BlockData /\ r < e /\ r \in Nat
      BY <1>2
    <3>2. o = lo + r /\ o < z
      <4>1. o < z
        BY <3>1
      <4>2. o = q * BlockData + r /\ lo = q * BlockData
        BY <1>5, <2>4, Zenon
      <4>3. QED
        BY <4>1, <4>2
    <3>3. t = IF e <= z - lo THEN e ELSE z - lo
      BY <2>4, <3>1, Zenon DEF Cipher!Lower
    <3>4. QED
      BY <3>1, <3>2, <3>3
  <2>8. dec' = [f EXCEPT !.idx = r]
    <3>1. dec' = IF f.err # "nil" THEN f
                 ELSE IF o % BlockData > Len(f.buf) THEN [f EXCEPT !.err = "BadSeek"]
                 ELSE [f EXCEPT !.idx = o % BlockData]
      BY <1>9, <1>10, <1>14, <2>1, <2>3, SoughtDecrypter
    <3>2. ~(o % BlockData > Len(f.buf)) /\ o % BlockData = r
      BY <1>5, <2>6, <2>7
    <3>3. QED
      BY <2>5, <3>1, <3>2
  <2>9. PICK d : d = MovedTo(f, r) /\ dec' = d
    BY <2>8 DEF MovedTo
  <2>10. /\ d \in Decrypters /\ d.src = SubSeq(blocks, q + 2, b) /\ d.nonce = Cipher!Add(key, q + 1)
         /\ d.idx = r /\ d.buf = f.buf /\ d.off = o /\ d.len = l /\ d.limit = l
         /\ d.out = <<>> /\ d.err = "nil" /\ d.fetched = w
    <3>1. IsMoved(d, f, r)
      BY <2>5, <2>7, <2>9, MovedFields
    <3>2. QED
      BY <2>5, <3>1, Zenon DEF IsMoved
  <2>11. Beyond(d) = b
    BY <1>5, <2>10 DEF Beyond
  <2>12. Given(d)
    <3>1. Len(d.out) = 0 /\ w = Beyond(d) - (d.off \div BlockData)
      BY <1>5, <1>8, <2>10, <2>11
    <3>2. l # 0 /\ o + l <= size /\ l = l - 0
      BY <1>2
    <3>3. QED
      BY <2>10, <3>1, <3>2 DEF Given
  <2>13. Holding(d, key, q + 1, lo)
    <3>1. q + 1 <= b /\ b <= Len(blocks) /\ (q + 1) + 1 = q + 2 /\ lo + r = o + 0
      BY <1>3, <1>5, <2>7
    <3>2. Len(d.buf) = t /\ Len(d.out) = 0 /\ \A i \in 1..t : d.buf[i] = lo + i - 1
      BY <2>6, <2>10
    <3>3. QED
      BY <2>4, <2>7, <2>10, <2>11, <3>1, <3>2 DEF Holding
  <2>14. Opened(d, key)
    BY <2>4, <2>10, <2>12, <2>13 DEF Opened
  <2>15. QED
    BY <1>1, <1>2, <2>9, <2>10, <2>14, StillOpened
<1>15. QED
  BY <1>13, <1>14

\* The decrypter d after it gave w bytes of its block.
Gave(d, w) ==
  WithGiven(d, d.out \o SubSeq(d.buf, d.idx + 1, d.idx + w), d.idx + w, d.limit - w,
            IF d.limit = w THEN "EOF" ELSE "nil")

\* The a bytes of s are those of the plain text from o on.
PlainFrom(s, o, a) == s \in Seq(Int) /\ Len(s) = a /\ \A i \in 1..a : s[i] = o + i - 1

\* Plain text and what follows it.
LEMMA JoinedPlain ==
  ASSUME NEW s, NEW t, NEW a \in Nat, NEW w \in Nat, NEW o \in Nat,
         PlainFrom(s, o, a), PlainFrom(t, o + a, w)
  PROVE  PlainFrom(s \o t, o, a + w)
<1> USE DEF PlainFrom
<1>1. /\ s \o t \in Seq(Int) /\ Len(s \o t) = a + w
      /\ \A i \in 1..(a + w) : (s \o t)[i] = IF i <= a THEN s[i] ELSE t[i - a]
  <2>1. /\ s \o t \in Seq(Int) /\ Len(s \o t) = Len(s) + Len(t)
        /\ \A i \in 1..(Len(s) + Len(t)) :
             (s \o t)[i] = IF i <= Len(s) THEN s[i] ELSE t[i - Len(s)]
    BY ConcatProperties
  <2>2. QED
    BY <2>1, Zenon
<1>2. ASSUME NEW i \in 1..(a + w) PROVE (s \o t)[i] = o + i - 1
  <2>1. PICK v : v = (s \o t)[i] /\ v = IF i <= a THEN s[i] ELSE t[i - a]
    BY <1>1
  <2>2. CASE i <= a
    <3>1. i \in 1..a
      BY <2>2
    <3>2. QED
      BY <2>1, <2>2, <3>1
  <2>3. CASE ~(i <= a)
    <3>1. PICK h \in 1..w : h = i - a
      BY <2>3
    <3>2. v = (o + a) + h - 1
      BY <2>1, <2>3, <3>1
    <3>3. QED
      BY <2>1, <3>1, <3>2
  <2>4. QED
    BY <2>2, <2>3
<1>3. QED
  BY <1>1, <1>2

\* The bytes it gives are the next of its range.
LEMMA GiveStep ==
  ASSUME NEW key \in Cipher!Nonces, NEW d \in Decrypters, Given(d), size \in Nat,
         NEW j \in Nat, NEW lo \in Nat, Holding(d, key, j, lo),
         NEW w \in Nat \ {0}, w <= Len(d.buf) - d.idx, w <= d.limit
  PROVE  Opened(Gave(d, w), key) /\ Gave(d, w).err # "closed"
<1>1. PICK lb \in Nat, lt \in Nat, id \in Nat, li \in Nat, o \in Nat, l \in Nat :
        /\ lb = Len(d.buf) /\ lt = Len(d.out) /\ id = d.idx /\ li = d.limit
        /\ o = d.off /\ l = d.len
  <2>1. d.buf \in Seq(Int) /\ d.out \in Seq(Int) /\ d.idx \in Nat /\ d.limit \in Nat
        /\ d.off \in Nat /\ d.len \in Nat
    BY DEF Decrypters
  <2>2. Len(d.buf) \in Nat /\ Len(d.out) \in Nat
    BY <2>1, LenProperties
  <2>3. QED
    BY <2>1, <2>2
<1>2. /\ w <= lb - id /\ w <= li /\ id <= lb /\ lo + id = o + lt /\ li = l - lt
      /\ \A i \in 1..lb : d.buf[i] = lo + i - 1
      /\ \A i \in 1..lt : d.out[i] = o + i - 1
  BY <1>1 DEF Given, Holding
<1>3. PICK t : t = SubSeq(d.buf, id + 1, id + w)
  OBVIOUS
<1>4. t \in Seq(Int) /\ Len(t) = w /\ \A i \in 1..w : t[i] = d.buf[id + i]
  <2>1. d.buf \in Seq(Int) /\ \A i \in (id + 1)..(id + w) : d.buf[i] \in Int
    <3>1. d.buf \in Seq(Int) /\ \A i \in 1..lb : d.buf[i] \in Int
      BY <1>1, ElementOfSeq DEF Decrypters
    <3>2. QED
      BY <1>2, <3>1
  <2>2. id + 1 \in Int /\ id + w \in Int /\ id + 1 <= id + w
        /\ (id + w) - (id + 1) + 1 = w /\ \A i \in 1..w : (id + 1) + i - 1 = id + i
    OBVIOUS
  <2>3. /\ t \in Seq(Int) /\ Len(t) = (id + w) - (id + 1) + 1
        /\ \A i \in 1..((id + w) - (id + 1) + 1) : t[i] = d.buf[(id + 1) + i - 1]
    BY <1>3, <2>1, <2>2, SubSeqProperties
  <2>4. QED
    BY <2>2, <2>3
<1>5. PICK u : u = d.out \o t
  OBVIOUS
<1>6. \A i \in 1..w : t[i] = (o + lt) + i - 1
  <2>1. ASSUME NEW i \in 1..w PROVE t[i] = (o + lt) + i - 1
    <3>1. PICK h \in 1..lb : h = id + i
      BY <1>2
    <3>2. t[i] = d.buf[h] /\ d.buf[h] = lo + h - 1
      BY <1>2, <1>4, <3>1
    <3>3. lo + h - 1 = (o + lt) + i - 1
      <4>1. lo + id = o + lt
        BY <1>2
      <4>2. QED
        BY <3>1, <4>1
    <3>4. QED
      BY <3>2, <3>3, Zenon
  <2>2. QED
    BY <2>1
<1>7. u \in Seq(Int) /\ Len(u) = lt + w /\ \A i \in 1..(lt + w) : u[i] = o + i - 1
  <2>1. d.out \in Seq(Int)
    BY DEF Decrypters
  <2>2. w \in Nat /\ Len(d.out) = lt
    BY <1>1
  <2>3. QED
    <3>1. /\ d.out \in Seq(Int) /\ t \in Seq(Int) /\ w \in Nat /\ Len(d.out) = lt /\ Len(t) = w
          /\ \A i \in 1..lt : d.out[i] = o + i - 1
          /\ \A i \in 1..w : t[i] = (o + lt) + i - 1
      BY <1>2, <1>4, <1>6, <2>1, <2>2
    <3>2. PlainFrom(d.out, o, lt) /\ PlainFrom(t, o + lt, w)
      BY <3>1, Zenon DEF PlainFrom
    <3>3. PlainFrom(u, o, lt + w)
      BY <1>5, <3>1, <3>2, JoinedPlain
    <3>4. QED
      BY <3>3, Zenon DEF PlainFrom
<1>8. PICK e \in {"nil", "EOF"} : e = IF li = w THEN "EOF" ELSE "nil"
  OBVIOUS
<1>9. PICK g : g = Gave(d, w)
  OBVIOUS
<1>10. id + w \in Nat /\ li - w \in Nat /\ (li - w = 0 <=> li = w)
  BY <1>2
<1>11. GivenFields(g, d, u, id + w, li - w, e)
  <2>1. g = WithGiven(d, u, id + w, li - w, e)
    BY <1>1, <1>3, <1>5, <1>8, <1>9, Zenon DEF Gave
  <2>2. QED
    BY <1>7, <1>10, <2>1, DecrypterFields
<1>12. /\ g \in Decrypters /\ g.out = u /\ g.idx = id + w /\ g.limit = li - w /\ g.err = e
       /\ g.off = o /\ g.len = l /\ g.src = d.src /\ g.nonce = d.nonce /\ g.buf = d.buf
       /\ g.fetched = d.fetched /\ Beyond(g) = Beyond(d)
  BY <1>1, <1>11, Zenon DEF GivenFields, Beyond
<1>13. Given(g)
  <2>1. l # 0 /\ o + l <= size /\ d.fetched = Beyond(d) - (o \div BlockData)
    BY <1>1 DEF Given
  <2>2. Len(u) = lt + w /\ li - w = l - (lt + w)
    BY <1>2, <1>7
  <2>3. e = IF li - w = 0 THEN "EOF" ELSE "nil"
    BY <1>8, <1>10
  <2>4. QED
    BY <1>7, <1>12, <2>1, <2>2, <2>3, Zenon DEF Given
<1>14. Holding(g, key, j, lo)
  <2>1. Len(u) = lt + w /\ id + w <= lb /\ lo + (id + w) = o + (lt + w)
    BY <1>2, <1>7
  <2>2. QED
    BY <1>1, <1>12, <2>1, Zenon DEF Holding
<1>15. Opened(g, key)
  BY <1>12, <1>13, <1>14 DEF Opened
<1>16. QED
  BY <1>8, <1>9, <1>12, <1>15

\* A decrypter that has given its block takes the next, which its range reaches.
LEMMA RefillStep ==
  ASSUME Cipher!CipherGiven, NEW key \in Cipher!Nonces, BlocksInv(key),
         NEW d \in Decrypters, Given(d), d.err = "nil",
         NEW j \in Nat, NEW lo \in Nat, Holding(d, key, j, lo), d.idx >= Len(d.buf)
  PROVE  LET f == Cipher!FillBuffer(d)
         IN  /\ f \in Decrypters /\ Given(f) /\ f.err = "nil"
             /\ j * BlockData \in Nat /\ Holding(f, key, j + 1, j * BlockData)
             /\ f.idx < Len(f.buf)
<1>1. PICK z \in Nat, m \in Nat, bd \in Nat \ {0} :
        z = size /\ m = Len(blocks) /\ bd = BlockData
  BY LenProperties DEF BlocksInv, Cipher!CipherGiven
<1>2. PICK lb \in Nat, lt \in Nat, o \in Nat, l \in Nat :
        lb = Len(d.buf) /\ lt = Len(d.out) /\ o = d.off /\ l = d.len /\ d.idx = lb
  <2>1. d.buf \in Seq(Int) /\ d.out \in Seq(Int) /\ d.idx \in Nat /\ d.off \in Nat /\ d.len \in Nat
    BY DEF Decrypters
  <2>2. Len(d.buf) \in Nat /\ Len(d.out) \in Nat
    BY <2>1, LenProperties
  <2>3. d.idx <= Len(d.buf)
    BY DEF Holding
  <2>4. QED
    BY <2>1, <2>2, <2>3
<1>3. lt < l /\ o + l <= z
  <2>1. d.limit = l - lt /\ d.limit # 0 /\ d.limit \in Nat
    BY <1>2 DEF Given, Decrypters
  <2>2. QED
    BY <1>1, <1>2, <2>1 DEF Given
<1>4. PICK a \in Nat : a = j * bd
  OBVIOUS
<1>5. a = o + lt
  <2>1. lo + lb = Cipher!Lower(a, z) /\ lo + lb = o + lt
    BY <1>1, <1>2, <1>4 DEF Holding
  <2>2. QED
    BY <1>3, <2>1 DEF Cipher!Lower
<1>6. PICK e \in Nat : e = o + l - 1
  BY <1>3
<1>7. PICK q \in Nat : \E r \in 0..(bd - 1) : q = e \div bd /\ r = e % bd /\ e = bd * q + r
  BY Divided
<1>8. PICK r \in 0..(bd - 1) : e = bd * q + r
  BY <1>7
<1>9. j <= q
  <2>1. SUFFICES ASSUME q + 1 <= j PROVE FALSE
    OBVIOUS
  <2>2. PICK k \in Nat : j = q + 1 + k
    <3>1. j - q - 1 \in Nat /\ j = q + 1 + (j - q - 1)
      BY <2>1
    <3>2. QED
      BY <3>1, Zenon
  <2>3. a = bd * q + bd + bd * k /\ bd * k \in Nat
    BY <1>4, <2>2
  <2>4. QED
    BY <1>3, <1>5, <1>6, <1>8, <2>3
<1>10. Beyond(d) = q + 1
  BY <1>1, <1>2, <1>6, <1>7, Zenon DEF Beyond
<1>11. /\ j < Beyond(d) /\ Beyond(d) \in Nat /\ Beyond(d) <= Len(blocks)
       /\ d.src = SubSeq(blocks, j + 1, Beyond(d)) /\ d.nonce = Cipher!Add(key, j)
  <2>1. j < Beyond(d) /\ Beyond(d) \in Nat
    BY <1>9, <1>10
  <2>2. QED
    BY <2>1 DEF Holding
<1>12. PICK f : f = Cipher!FillBuffer(d)
  OBVIOUS
<1>13. PICK t \in 1..bd : /\ t = Cipher!Lower(BlockData, size - a) /\ Took(f, d, key, j)
                          /\ Cipher!Lower((j + 1) * BlockData, size) = a + t
  BY <1>1, <1>4, <1>11, <1>12, BlockStep
<1>14. /\ f \in Decrypters /\ f.src = SubSeq(blocks, (j + 1) + 1, Beyond(d)) /\ f.idx = 0
       /\ f.nonce = Cipher!Add(key, j + 1) /\ f.buf = Plain(a, t)
       /\ f.off = o /\ f.len = l /\ f.limit = d.limit /\ f.out = d.out /\ f.err = d.err
       /\ f.fetched = d.fetched /\ Beyond(f) = Beyond(d)
  <2>1. j + 2 = (j + 1) + 1
    OBVIOUS
  <2>2. BlockFields(f, d, SubSeq(blocks, (j + 1) + 1, Beyond(d)), Cipher!Add(key, j + 1),
                    Plain(a, t))
    BY <1>1, <1>4, <1>13, <2>1, Zenon DEF Took
  <2>3. QED
    BY <1>2, <2>2, Zenon DEF BlockFields, Beyond
<1>15. Given(f)
  BY <1>2, <1>14, Zenon DEF Given
<1>16. Holding(f, key, j + 1, a) /\ f.idx < Len(f.buf)
  <2>1. t \in Nat
    OBVIOUS
  <2>2. Len(f.buf) = t /\ \A i \in 1..t : f.buf[i] = a + i - 1
    <3>1. Len(Plain(a, t)) = t /\ \A i \in 1..t : Plain(a, t)[i] = a + i - 1
      BY <2>1, PlainText
    <3>2. QED
      BY <1>14, <3>1
  <2>3. j + 1 <= Beyond(d) /\ 0 <= t /\ a + 0 = o + lt
    BY <1>5, <1>9, <1>10
  <2>4. f.idx < Len(f.buf)
    BY <1>14, <2>2
  <2>5. QED
    BY <1>2, <1>11, <1>13, <1>14, <2>2, <2>3, <2>4 DEF Holding
<1>17. f \in Decrypters /\ Given(f) /\ f.err = "nil" /\ a \in Nat
  BY <1>14, <1>15
<1>18. QED
  BY <1>1, <1>4, <1>12, <1>16, <1>17, Zenon

\* decrypter.Read gives the next bytes of the range.
LEMMA ReadBytesStep ==
  ASSUME Cipher!CipherGiven, CipherInv, NEW most \in Nat \ {0}, Cipher!Read(most)
  PROVE  CipherInv'
<1>1. PICK key \in Cipher!Nonces : BlocksInv(key) /\ DecInv(key)
  BY DEF CipherInv
<1>2. /\ dec.err = "nil" /\ size' = size /\ nonce' = nonce /\ blocks' = blocks /\ size \in Nat
  BY <1>1 DEF Cipher!Read, BlocksInv, Cipher!CipherGiven
<1>3. Cipher!Sealed /\ Opened(dec, key)
  BY <1>1, <1>2 DEF DecInv
<1>4. PICK c \in Decrypters : c = dec /\ Given(c) /\ c.err = "nil"
  BY <1>2, <1>3 DEF Opened
<1>5. PICK j0 \in Nat, lo0 \in Nat : Holding(c, key, j0, lo0)
  BY <1>3, <1>4 DEF Opened
<1>6. PICK d : d = IF c.idx >= Len(c.buf) THEN Cipher!FillBuffer(c) ELSE c
  OBVIOUS
<1>7. /\ d \in Decrypters /\ Given(d) /\ d.err = "nil"
      /\ \E j \in Nat : \E lo \in Nat : Holding(d, key, j, lo) /\ d.idx < Len(d.buf)
  <2>1. CASE c.idx >= Len(c.buf)
    <3>1. d = Cipher!FillBuffer(c)
      BY <1>6, <2>1
    <3>2. /\ d \in Decrypters /\ Given(d) /\ d.err = "nil" /\ j0 * BlockData \in Nat
          /\ Holding(d, key, j0 + 1, j0 * BlockData) /\ d.idx < Len(d.buf)
      BY <1>1, <1>4, <1>5, <2>1, <3>1, RefillStep, Zenon
    <3>3. j0 + 1 \in Nat
      OBVIOUS
    <3>4. QED
      BY <3>2, <3>3, Zenon
  <2>2. CASE ~(c.idx >= Len(c.buf))
    <3>1. d = c
      BY <1>6, <2>2
    <3>2. c.idx < Len(c.buf)
      <4>1. c.buf \in Seq(Int) /\ c.idx \in Nat
        BY DEF Decrypters
      <4>2. Len(c.buf) \in Nat
        BY <4>1, LenProperties
      <4>3. QED
        BY <2>2, <4>1, <4>2
    <3>3. QED
      BY <1>4, <1>5, <3>1, <3>2, Zenon
  <2>3. QED
    BY <2>1, <2>2
<1>8. PICK j \in Nat, lo \in Nat : Holding(d, key, j, lo) /\ d.idx < Len(d.buf)
  BY <1>7
<1>9. PICK lb \in Nat, id \in Nat, li \in Nat : lb = Len(d.buf) /\ id = d.idx /\ li = d.limit
  <2>1. d.buf \in Seq(Int) /\ d.idx \in Nat /\ d.limit \in Nat
    BY <1>7 DEF Decrypters
  <2>2. Len(d.buf) \in Nat
    BY <2>1, LenProperties
  <2>3. QED
    BY <2>1, <2>2
<1>10. li # 0 /\ id < lb
  BY <1>7, <1>8, <1>9 DEF Given
<1>11. PICK w \in Nat \ {0} : /\ w = Cipher!Lower(most, Cipher!Lower(lb - id, li))
                              /\ w <= lb - id /\ w <= li
  BY <1>10 DEF Cipher!Lower
<1>12. dec' = Gave(d, w)
  <2>1. d = IF dec.idx >= Len(dec.buf) THEN Cipher!FillBuffer(dec) ELSE dec
    BY <1>4, <1>6
  <2>2. w = Cipher!Lower(most, Cipher!Lower(Len(d.buf) - d.idx, d.limit))
    BY <1>9, <1>11
  <2>3. dec' = [d EXCEPT !.out = @ \o SubSeq(d.buf, d.idx + 1, d.idx + w), !.idx = @ + w,
                         !.limit = @ - w, !.err = IF d.limit = w THEN "EOF" ELSE "nil"]
    BY <1>7, <2>1, <2>2, Zenon DEF Cipher!Read
  <2>4. QED
    BY <1>7, <2>3 DEF Gave, WithGiven, Decrypters
<1>13. PICK g : g = Gave(d, w)
  OBVIOUS
<1>14. Opened(g, key) /\ g.err # "closed"
  <2>1. w <= Len(d.buf) - d.idx /\ w <= d.limit
    BY <1>9, <1>11
  <2>2. QED
    BY <1>2, <1>7, <1>8, <1>11, <1>13, <2>1, GiveStep
<1>15. QED
  BY <1>1, <1>2, <1>3, <1>12, <1>13, <1>14, StillOpened

\* The cipher is one of the components.
LEMMA CipherRuns == Spec => Cipher!Init /\ [][Cipher!Next]_Cipher!vars
<1>1. Init => Cipher!Init
  BY DEF Init
<1>2. [Next]_vars => [Cipher!Next]_Cipher!vars
  BY DEF Next, vars, cipherVars, Cipher!vars
<1> QED
  BY <1>1, <1>2, PTL DEF Spec

\* The inductive invariant of a sealed part and its readers.
THEOREM CipherInvariance == Spec => []CipherInv
<1> USE CipherAssumption
<1>1. Cipher!Init => CipherInv
  BY CipherBegins
<1>2. CipherInv /\ [Cipher!Next]_Cipher!vars => CipherInv'
  <2>1. ASSUME CipherInv, UNCHANGED Cipher!vars
        PROVE  CipherInv'
    <3>1. size' = size /\ nonce' = nonce /\ blocks' = blocks /\ dec' = dec
      BY <2>1 DEF Cipher!vars
    <3>2. PICK key \in Cipher!Nonces : BlocksInv(key) /\ DecInv(key)
      BY <2>1 DEF CipherInv
    <3>3. CASE dec.err = "closed"
      <4>1. dec = Cipher!NoDecrypter
        BY <3>2, <3>3 DEF DecInv
      <4>2. DecInv(key)'
        BY <3>1, <3>3, <4>1 DEF DecInv, Cipher!NoDecrypter
      <4>3. BlocksInv(key)'
        BY <3>1, <3>2 DEF BlocksInv, BlockOf, Cipher!Lower
      <4>4. QED
        BY <4>2, <4>3 DEF CipherInv
    <3>4. CASE dec.err # "closed"
      <4>1. PICK d : d = dec
        OBVIOUS
      <4>2. Cipher!Sealed /\ Opened(d, key)
        BY <3>2, <3>4, <4>1 DEF DecInv
      <4>3. QED
        BY <3>1, <3>2, <3>4, <4>1, <4>2, StillOpened
    <3>5. QED
      BY <3>3, <3>4
  <2>2. ASSUME CipherInv, Cipher!Next
        PROVE  CipherInv'
    <3>1. CASE Cipher!Seal
      BY <2>2, <3>1, SealStep
    <3>2. CASE \E o \in 0..(size - 1) : \E l \in 1..(size - o) : Cipher!Open(o, l)
      BY <2>2, <3>2, SeekStep
    <3>3. CASE \E w \in 1..(BlockData + 1) : Cipher!Read(w)
      <4>1. PICK w \in 1..(BlockData + 1) : Cipher!Read(w)
        BY <3>3
      <4>2. w \in Nat \ {0}
        BY DEF Cipher!CipherGiven
      <4>3. QED
        BY <2>2, <4>1, <4>2, ReadBytesStep
    <3>4. QED
      BY <2>2, <3>1, <3>2, <3>3 DEF Cipher!Next
  <2>3. QED
    BY <2>1, <2>2
<1> QED
  BY <1>1, <1>2, CipherRuns, PTL

\* z bytes in blocks of bd with ov more each, after h: w blocks have all of them.
SizesOf(bd, ov, h, z, w) ==
  \E q \in Nat : \E r \in 0..(bd - 1) :
    /\ q = z \div bd /\ r = z % bd /\ z = q * bd + r
    /\ q = ((h + w * ov + z) - h) \div (ov + bd)
    /\ ((h + w * ov + z) - h) % (ov + bd) = (IF r # 0 THEN ov + r ELSE 0)
    /\ h + w * ov + z = h + q * (ov + bd) + (IF r # 0 THEN ov + r ELSE 0)

\* The blocks are as many as the bytes need: a last block that is not full counts.
LEMMA SizeNumbers ==
  ASSUME NEW bd \in Nat \ {0}, NEW ov \in Nat, NEW h \in Nat, NEW z \in Nat, NEW w \in Nat,
         w * bd >= z, w # 0 => (w - 1) * bd < z
  PROVE  SizesOf(bd, ov, h, z, w)
<1>1. PICK q \in Nat : \E r \in 0..(bd - 1) : q = z \div bd /\ r = z % bd /\ z = bd * q + r
  BY Divided
<1>2. PICK r \in 0..(bd - 1) : q = z \div bd /\ r = z % bd /\ z = bd * q + r
  BY <1>1
<1>3. w = IF r # 0 THEN q + 1 ELSE q
  <2>1. PICK v \in Nat : v = IF r # 0 THEN q + 1 ELSE q
    OBVIOUS
  <2>2. bd * q + bd = bd * (q + 1) /\ bd * q = q * bd /\ bd * q \in Nat
    OBVIOUS
  <2>3. ~(v < w)
    <3>1. SUFFICES ASSUME v < w PROVE FALSE
      OBVIOUS
    <3>2. PICK k \in Nat : w = v + 1 + k
      <4>1. w - v - 1 \in Nat /\ w = v + 1 + (w - v - 1)
        BY <3>1
      <4>2. QED
        BY <4>1, Zenon
    <3>3. (w - 1) * bd = bd * v + bd * k /\ bd * k \in Nat
      BY <3>2
    <3>4. bd * v >= z
      BY <1>2, <2>1, <2>2
    <3>5. QED
      BY <3>1, <3>3, <3>4
  <2>4. ~(w < v)
    <3>1. SUFFICES ASSUME w < v PROVE FALSE
      OBVIOUS
    <3>2. CASE r # 0
      <4>1. PICK k \in Nat : q = w + k
        <5>1. q - w \in Nat /\ q = w + (q - w)
          BY <2>1, <3>1, <3>2
        <5>2. QED
          BY <5>1, Zenon
      <4>2. bd * q = w * bd + bd * k /\ bd * k \in Nat
        BY <4>1
      <4>3. QED
        BY <1>2, <3>2, <4>2
    <3>3. CASE r = 0
      <4>1. PICK k \in Nat : q = w + 1 + k
        <5>1. q - w - 1 \in Nat /\ q = w + 1 + (q - w - 1)
          BY <2>1, <3>1, <3>3
        <5>2. QED
          BY <5>1, Zenon
      <4>2. bd * q = w * bd + bd + bd * k /\ bd * k \in Nat
        BY <4>1
      <4>3. QED
        BY <1>2, <3>3, <4>2
    <3>4. QED
      BY <3>2, <3>3
  <2>5. QED
    BY <2>1, <2>3, <2>4
<1>4. PICK bs \in Nat \ {0} : bs = ov + bd
  OBVIOUS
<1>5. PICK x \in 0..(bs - 1) : x = IF r # 0 THEN ov + r ELSE 0
  BY <1>4
<1>6. w * ov + z = bs * q + x
  <2>1. bs * q = ov * q + bd * q /\ ov * q \in Nat /\ bd * q \in Nat
    BY <1>4
  <2>2. CASE r # 0
    <3>1. w * ov = ov * q + ov
      BY <1>3, <2>2
    <3>2. QED
      BY <1>2, <1>5, <2>1, <2>2, <3>1
  <2>3. CASE r = 0
    <3>1. w * ov = ov * q
      BY <1>3, <2>3
    <3>2. QED
      BY <1>2, <1>5, <2>1, <2>3, <3>1
  <2>4. QED
    BY <2>2, <2>3
<1>7. PICK a \in Nat : a = w * ov + z
  OBVIOUS
<1>8. a \div bs = q /\ a % bs = x
  BY <1>6, <1>7, Quotient
<1>9. (h + w * ov + z) - h = a /\ h + w * ov + z = h + q * bs + x
  <2>1. bs * q = q * bs /\ w * ov \in Nat /\ q * bs \in Nat
    OBVIOUS
  <2>2. QED
    BY <1>6, <1>7, <2>1
<1>10. z = q * bd + r
  <2>1. bd * q = q * bd
    OBVIOUS
  <2>2. QED
    BY <1>2, <2>1
<1>11. QED
  BY <1>2, <1>4, <1>5, <1>8, <1>9, <1>10, Zenon DEF SizesOf

\* What is stored of the header and the first i blocks.
Stored(i) == HeaderSize + i * Overhead + Cipher!Lower(i * BlockData, size)

\* The blocks add up to it.
LEMMA StoredBlocks ==
  ASSUME Cipher!CipherGiven, NEW key \in Cipher!Nonces, BlocksInv(key)
  PROVE  LET total[i \in 0..Len(blocks)] ==
               IF i = 0 THEN HeaderSize ELSE total[i - 1] + Overhead + blocks[i].n
         IN  total[Len(blocks)] = Stored(Len(blocks))
<1> DEFINE Equation(g) == g = [i \in 0..Len(blocks) |->
                                 IF i = 0 THEN HeaderSize
                                 ELSE g[i - 1] + Overhead + blocks[i].n]
           sums == CHOOSE g : Equation(g)
           sum == [i \in 0..Len(blocks) |-> Stored(i)]
<1>1. /\ HeaderSize \in Nat /\ Overhead \in Nat /\ BlockData \in Nat \ {0} /\ size \in Nat
      /\ size \in Sizes
  BY DEF Cipher!CipherGiven, BlocksInv
<1>2. PICK m \in Nat : m = Len(blocks)
  BY LenProperties DEF BlocksInv
<1>3. Stored(0) = HeaderSize
  BY <1>1 DEF Stored, Cipher!Lower
<1>4. ASSUME NEW i \in 1..m
      PROVE  Stored(i) = Stored(i - 1) + Overhead + blocks[i].n
  <2>1. PICK j \in Nat : j = i - 1 /\ i = j + 1
    OBVIOUS
  <2>2. (i - 1) * BlockData < size /\ blocks[i] = BlockOf(key, size, i)
    BY <1>2 DEF BlocksInv
  <2>3. j * BlockData < size /\ blocks[i].n = Cipher!Lower(BlockData, size - j * BlockData)
    BY <2>1, <2>2 DEF BlockOf
  <2>4. PICK a \in Nat : a = j * BlockData
    BY <1>1
  <2>5. PICK t \in 1..BlockData :
          /\ t = Cipher!Lower(BlockData, size - a)
          /\ Cipher!Lower((j + 1) * BlockData, size) = a + t
    BY <1>1, <2>3, <2>4, BlockNumbers
  <2>6. Cipher!Lower(j * BlockData, size) = a
    BY <1>1, <2>3, <2>4 DEF Cipher!Lower
  <2>7. (j + 1) * Overhead = j * Overhead + Overhead /\ j * Overhead \in Nat
    BY <1>1
  <2>8. Stored(i) = HeaderSize + (j * Overhead + Overhead) + (a + t)
    BY <2>1, <2>5, <2>7 DEF Stored
  <2>9. Stored(i - 1) = HeaderSize + j * Overhead + a
    BY <2>1, <2>6 DEF Stored
  <2>10. t \in Nat /\ blocks[i].n = t
    BY <1>1, <2>3, <2>4, <2>5
  <2>11. QED
    BY <1>1, <2>7, <2>8, <2>9, <2>10
<1>5. Equation(sum)
  <2>1. ASSUME NEW i \in 0..m
        PROVE  Stored(i) = IF i = 0 THEN HeaderSize
                           ELSE sum[i - 1] + Overhead + blocks[i].n
    <3>1. CASE i = 0
      BY <1>3, <3>1
    <3>2. CASE i # 0
      <4>1. i \in 1..m /\ i - 1 \in 0..m
        BY <3>2
      <4>2. sum[i - 1] = Stored(i - 1)
        BY <1>2, <4>1
      <4>3. QED
        BY <1>4, <3>2, <4>1, <4>2
    <3>3. QED
      BY <3>1, <3>2
  <2>2. QED
    BY <1>2, <2>1
<1>6. Equation(sums)
  <2> HIDE DEF Equation
  <2>1. QED
    BY <1>5
<1> HIDE DEF sum
<1>7. sums = [i \in 0..m |-> IF i = 0 THEN HeaderSize ELSE sums[i - 1] + Overhead + blocks[i].n]
  <2> HIDE DEF sums
  <2>1. QED
    BY <1>2, <1>6
<1> HIDE DEF sums
<1> DEFINE S == {i \in Nat : i <= m => sums[i] = Stored(i)}
<1>8. S = Nat
  <2>1. 0 \in S
    <3>1. sums[0] = HeaderSize
      BY <1>2, <1>7
    <3>2. QED
      BY <1>3, <3>1
  <2>2. ASSUME NEW i \in S
        PROVE  i + 1 \in S
    <3>1. SUFFICES ASSUME i + 1 <= m PROVE sums[i + 1] = Stored(i + 1)
      OBVIOUS
    <3>2. PICK j \in 1..m : j = i + 1 /\ j - 1 = i /\ sums[i] = Stored(i)
      BY <1>2, <2>2, <3>1
    <3>3. sums[j] = sums[j - 1] + Overhead + blocks[j].n
      <4>1. j \in 0..m /\ j # 0
        BY <3>2
      <4>2. QED
        BY <1>7, <4>1, Zenon
    <3>4. QED
      BY <1>4, <3>2, <3>3
  <2>3. S \in SUBSET Nat /\ \A i \in S : i + 1 \in S
    BY <2>2
  <2> HIDE DEF S
  <2>4. QED
    BY <2>1, <2>3, Induct
<1>9. sums[m] = Stored(m)
  BY <1>2, <1>8
<1>10. QED
  BY <1>2, <1>9 DEF sums

\* EncryptedSize and DecryptedSize are right about what is stored.
LEMMA SizesAreRight ==
  ASSUME Cipher!CipherGiven, NEW key \in Cipher!Nonces, BlocksInv(key), Cipher!Sealed
  PROVE  LET all == Stored(Len(blocks))
         IN  Cipher!EncryptedSize(size) = all /\ Cipher!DecryptedSize(all) = size
<1>1. PICK bd \in Nat \ {0}, ov \in Nat, h \in Nat, z \in Nat, w \in Nat :
        bd = BlockData /\ ov = Overhead /\ h = HeaderSize /\ z = size /\ w = Len(blocks)
  BY LenProperties DEF Cipher!CipherGiven, BlocksInv
<1>2. w * bd >= z
  BY <1>1 DEF Cipher!Sealed
<1>3. w # 0 => (w - 1) * bd < z
  <2>1. SUFFICES ASSUME w # 0 PROVE (w - 1) * bd < z
    OBVIOUS
  <2>2. w \in 1..w
    BY <2>1
  <2>3. QED
    BY <1>1, <2>2 DEF BlocksInv
<1>4. SizesOf(bd, ov, h, z, w)
  BY <1>2, <1>3, SizeNumbers
<1>5. PICK q \in Nat, r \in 0..(bd - 1) :
        /\ q = z \div bd /\ r = z % bd /\ z = q * bd + r
        /\ q = ((h + w * ov + z) - h) \div (ov + bd)
        /\ ((h + w * ov + z) - h) % (ov + bd) = (IF r # 0 THEN ov + r ELSE 0)
        /\ h + w * ov + z = h + q * (ov + bd) + (IF r # 0 THEN ov + r ELSE 0)
  <2>1. PICK q \in Nat : \E r \in 0..(bd - 1) :
          /\ q = z \div bd /\ r = z % bd /\ z = q * bd + r
          /\ q = ((h + w * ov + z) - h) \div (ov + bd)
          /\ ((h + w * ov + z) - h) % (ov + bd) = (IF r # 0 THEN ov + r ELSE 0)
          /\ h + w * ov + z = h + q * (ov + bd) + (IF r # 0 THEN ov + r ELSE 0)
    BY <1>4, Zenon DEF SizesOf
  <2>2. QED
    BY <2>1, Zenon
<1>6. PICK all \in Nat : all = h + w * ov + z
  <2>1. w * ov \in Nat
    OBVIOUS
  <2>2. h + w * ov + z \in Nat
    BY <2>1
  <2>3. QED
    BY <2>2, Zenon
<1>7. Stored(Len(blocks)) = all
  <2>1. Cipher!Lower(w * bd, z) = z
    <3>1. w * bd \in Nat
      OBVIOUS
    <3>2. QED
      BY <1>2, <3>1 DEF Cipher!Lower
  <2>2. Stored(Len(blocks)) = h + w * ov + Cipher!Lower(w * bd, z)
    BY <1>1, Zenon DEF Stored
  <2>3. QED
    BY <1>6, <2>1, <2>2
<1>8. Cipher!EncryptedSize(size) = all
  <2>1. Cipher!EncryptedSize(size)
          = h + (z \div bd) * (ov + bd) + IF z % bd # 0 THEN ov + (z % bd) ELSE 0
    BY <1>1, Zenon DEF Cipher!EncryptedSize, Cipher!BlockSize
  <2>2. QED
    BY <1>5, <1>6, <2>1
<1>9. Cipher!DecryptedSize(all) = size
  <2>1. PICK x \in Nat : x = (all - h) % (ov + bd) /\ x = IF r # 0 THEN ov + r ELSE 0
    <3>1. (all - h) % (ov + bd) = IF r # 0 THEN ov + r ELSE 0
      BY <1>5, <1>6
    <3>2. (IF r # 0 THEN ov + r ELSE 0) \in Nat
      OBVIOUS
    <3>3. QED
      BY <3>1, <3>2, Zenon
  <2>2. Cipher!DecryptedSize(all)
          = ((all - h) \div (ov + bd)) * bd
              + IF (all - h) % (ov + bd) # 0 THEN ((all - h) % (ov + bd)) - ov ELSE 0
    BY <1>1, Zenon DEF Cipher!DecryptedSize, Cipher!BlockSize
  <2>3. Cipher!DecryptedSize(all) = q * bd + IF x # 0 THEN x - ov ELSE 0
    BY <1>5, <1>6, <2>1, <2>2
  <2>4. (IF x # 0 THEN x - ov ELSE 0) = r
    BY <2>1
  <2>5. QED
    BY <1>1, <1>5, <2>3, <2>4
<1>10. QED
  BY <1>7, <1>8, <1>9

\* A reader of an encrypted part gets the plain text of its range, whole, from the blocks
\* that hold it and no others, wherever the seek crosses the digits of the nonce; and what
\* is stored has the sizes the service counts on.
THEOREM RangesAreDecrypted == Spec => []RangeDecrypted
<1> USE CipherAssumption
<1>1. CipherInv => RangeDecrypted
  <2> SUFFICES ASSUME CipherInv PROVE RangeDecrypted
    OBVIOUS
  <2>1. PICK key \in Cipher!Nonces : BlocksInv(key) /\ DecInv(key)
    BY DEF CipherInv
  <2>2. Cipher!SizesAgree
    <3>1. SUFFICES ASSUME Cipher!Sealed PROVE Cipher!SizesAgree
      BY DEF Cipher!SizesAgree
    <3>2. /\ Cipher!EncryptedSize(size) = Stored(Len(blocks))
          /\ Cipher!DecryptedSize(Stored(Len(blocks))) = size
      BY <2>1, <3>1, SizesAreRight
    <3>3. LET total[i \in 0..Len(blocks)] ==
                IF i = 0 THEN HeaderSize ELSE total[i - 1] + Overhead + blocks[i].n
          IN  total[Len(blocks)] = Stored(Len(blocks))
      BY <2>1, StoredBlocks
    <3>4. QED
      BY <3>2, <3>3, Zenon DEF Cipher!SizesAgree
  <2>3. CASE dec.err = "closed"
    <3>1. dec = Cipher!NoDecrypter
      BY <2>1, <2>3 DEF DecInv
    <3>2. dec.out = <<>> /\ dec.err = "closed"
      BY <3>1 DEF Cipher!NoDecrypter
    <3>3. Cipher!RangeDecrypted
      <4>1. dec.out = [i \in 1..Len(dec.out) |-> dec.off + i - 1]
        BY <3>2
      <4>2. QED
        BY <3>2, <4>1 DEF Cipher!RangeDecrypted
    <3>4. Cipher!UnderlyingTight
      BY <3>2 DEF Cipher!UnderlyingTight
    <3>5. QED
      BY <2>2, <3>3, <3>4 DEF RangeDecrypted
  <2>4. CASE dec.err # "closed"
    <3>1. dec \in Decrypters /\ Given(dec)
      BY <2>1, <2>4 DEF DecInv, Opened
    <3>2. PICK lt \in Nat, u \in Seq(Int), o \in Nat, l \in Nat, li \in Nat :
            /\ lt = Len(dec.out) /\ u = dec.out /\ o = dec.off /\ l = dec.len /\ li = dec.limit
            /\ DOMAIN u = 1..lt
      <4>1. dec.out \in Seq(Int) /\ dec.off \in Nat /\ dec.len \in Nat /\ dec.limit \in Nat
        BY <3>1 DEF Decrypters
      <4>2. Len(dec.out) \in Nat /\ DOMAIN dec.out = 1..Len(dec.out)
        BY <4>1, LenProperties
      <4>3. QED
        BY <4>1, <4>2
    <3>3. /\ li = l - lt /\ \A i \in 1..lt : u[i] = o + i - 1
          /\ dec.err = IF li = 0 THEN "EOF" ELSE "nil"
      BY <3>1, <3>2 DEF Given
    <3>4. Cipher!RangeDecrypted
      <4>1. u = [i \in 1..lt |-> o + i - 1]
        <5>1. u \in [1..lt -> Int]
          BY <3>2, LenProperties
        <5>2. QED
          BY <3>3, <5>1
      <4>2. dec.err # "nil" => dec.err = "EOF" /\ lt = l
        BY <3>2, <3>3
      <4>3. QED
        BY <3>2, <4>1, <4>2 DEF Cipher!RangeDecrypted
    <3>5. Cipher!UnderlyingTight
      <4>1. dec.fetched
              = (((dec.off + dec.len - 1) \div BlockData) + 1) - (dec.off \div BlockData)
        BY <3>1, Zenon DEF Given, Beyond
      <4>2. PICK a \in Nat, b \in Nat :
              a = (dec.off + dec.len - 1) \div BlockData /\ b = dec.off \div BlockData
        <5>1. PICK bd \in Nat \ {0}, e \in Nat : bd = BlockData /\ e = dec.off + dec.len - 1
          <6>1. l # 0
            BY <3>1, <3>2 DEF Given
          <6>2. o + l - 1 \in Nat
            BY <6>1
          <6>3. QED
            BY <3>2, <6>2 DEF Cipher!CipherGiven
        <5>2. e \div bd \in Nat /\ o \div bd \in Nat
          BY DivMod
        <5>3. QED
          BY <3>2, <5>1, <5>2, Zenon
      <4>3. dec.fetched = (a + 1) - b
        BY <4>1, <4>2, Zenon
      <4>4. dec.fetched = a - b + 1
        BY <4>3
      <4>5. QED
        BY <4>2, <4>4, Zenon DEF Cipher!UnderlyingTight
    <3>6. QED
      BY <2>2, <3>4, <3>5 DEF RangeDecrypted
  <2>5. QED
    BY <2>3, <2>4
<1> QED
  BY <1>1, CipherInvariance, PTL

=============================================================================
