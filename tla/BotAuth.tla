------------------------------ MODULE BotAuth -------------------------------
(***************************************************************************)
(* Clients of one bot and the session they share: those of RunWithAuth     *)
(* with its memo of the bots seen authorized (internal/tgc/run.go), the    *)
(* live one, which serves many requests and leaves the memo alone          *)
(* (clientcache.go), the session row in teldrive.kv with its cache entry   *)
(* (internal/tgstorage/kv.go), and AuthRecovery, which deletes both when   *)
(* Telegram refuses the key (auth_recovery.go).  Telegram may revoke a key.*)
(***************************************************************************)
EXTENDS Integers, FiniteSets

CONSTANTS
  Clients,      \* clients of the bot that exist at once
  Keys,         \* authorization keys, more than clients
  MaxRevoked,   \* bound on revocations
  None

\* A client that opens finds an unused key.
EnoughKeys ==
  /\ None \notin Keys /\ MaxRevoked \in Nat
  /\ IsFiniteSet(Keys) /\ IsFiniteSet(Clients) /\ Cardinality(Keys) > Cardinality(Clients)

VARIABLES
  row,          \* the key in the session row
  entry,        \* the key in the cache entry of the row
  memo,         \* autorisesRecemment holds the bot's token, not older than ttlAuth
  authorized,   \* keys Telegram knows as the bot's
  revoked,      \* how many it revoked
  vouched,      \* history: a client of RunWithAuth was found authorized, and the work of
                \* none refused since
  late,         \* history: the memo was set by an answer older than the last refusal
  old,          \* history: the entry was filled with a row replaced or deleted meanwhile
  cl            \* cl[g]: a client's step (pc), key, whether it is a live one, whether it
                \* has the AuthRecovery middleware (guarded) and whether that blocks it
                \* (cooling); history: another client came between two of its steps (raced)

vars == <<row, entry, memo, authorized, revoked, vouched, late, old, cl>>

Off == [pc |-> "off", key |-> None, live |-> FALSE, guarded |-> FALSE, cooling |-> FALSE,
        raced |-> FALSE]

Init ==
  /\ row = None /\ entry = None /\ memo = FALSE /\ authorized = {} /\ revoked = 0
  /\ vouched = FALSE /\ late = FALSE /\ old = FALSE
  /\ cl = [g \in Clients |-> Off]

Unused == Keys \ ({row, entry} \cup {cl[g].key : g \in Clients})

At(g, pcs) == cl[g].pc \in pcs
Goto(g, pc) == cl' = [cl EXCEPT ![g].pc = pc, ![g].raced = FALSE]
Close(g) == cl' = [cl EXCEPT ![g] = Off]

\* g moves on, and comes between two steps of the other clients of Q.
Overtake(g, pc, Q) ==
  cl' = [h \in Clients |-> IF h = g THEN [cl[h] EXCEPT !.pc = pc, !.raced = FALSE]
                           ELSE [cl[h] EXCEPT !.raced = @ \/ h \in Q]]
Between(pcs) == {g \in Clients : At(g, pcs)}

\* BotClient and client.Run: the session is the entry, or the row, of which an entry
\* is to be made, or one with a key made now, an unused one.  Only GetBotInfo and the
\* cleaners make clients without AuthRecovery, and no live ones.
Open(g) ==
  /\ At(g, {"off"})
  /\ \E live, guarded \in BOOLEAN :
       /\ live => guarded
       /\ cl' = [cl EXCEPT ![g] =
                [Off EXCEPT !.pc = IF entry = None /\ row # None THEN "fill" ELSE "connect",
                            !.live = live, !.guarded = guarded,
                            !.key = IF entry # None THEN entry
                                    ELSE IF row # None THEN row ELSE CHOOSE k \in Unused : TRUE]]
  /\ authorized' = authorized \ Unused
  /\ UNCHANGED <<row, entry, memo, revoked, vouched, late, old>>

\* Fetch stores what it read.
Fill(g) ==
  /\ At(g, {"fill"}) /\ Goto(g, "connect")
  /\ entry' = cl[g].key /\ old' = (old \/ cl[g].raced)
  /\ UNCHANGED <<row, memo, authorized, revoked, vouched, late>>

\* kvStorage.Set, once connected: the row is written whatever it holds...
Connect(g) ==
  /\ At(g, {"connect"})
  /\ row' = cl[g].key
  /\ Overtake(g, "stored", IF row = cl[g].key THEN {} ELSE Between({"fill"}))
  /\ UNCHANGED <<entry, memo, authorized, revoked, vouched, late, old>>

\* Mutant: the entry is kept, to expire.
PurgeNothing(g) ==
  /\ At(g, {"stored"}) /\ Goto(g, "begin")
  /\ UNCHANGED <<row, entry, memo, authorized, revoked, vouched, late, old>>

\* ... and its entry deleted.
Purge(g) ==
  /\ At(g, {"stored"}) /\ Goto(g, "begin")
  /\ entry' = None /\ old' = FALSE
  /\ UNCHANGED <<row, memo, authorized, revoked, vouched, late>>

\* The memo decides whether Telegram is asked; authorizeBot asks always.
Begin(g) ==
  /\ At(g, {"begin"}) /\ Goto(g, IF memo /\ ~cl[g].live THEN "work" ELSE "status")
  /\ UNCHANGED <<row, entry, memo, authorized, revoked, vouched, late, old>>

\* AuthRecovery.Handle on AUTH_KEY_UNREGISTERED: the entry goes first, then the row,
\* whatever keys they hold, and the client is blocked for five minutes.
Recovers(g) == cl[g].guarded /\ ~cl[g].cooling
DropEntry(g) ==
  IF Recovers(g) THEN entry' = None /\ old' = FALSE ELSE UNCHANGED <<entry, old>>

Rejected(g, pc) ==
  /\ DropEntry(g)
  /\ cl' = [cl EXCEPT ![g].pc = pc, ![g].cooling = cl[g].guarded, ![g].raced = FALSE]

\* Status finds the client authorized: the memo is to be set, but not by a live one.
Accepted(g) ==
  /\ Goto(g, IF cl[g].live THEN "work" ELSE "answered")
  /\ vouched' = (vouched \/ ~cl[g].live)

\* Mutant: the session is dropped before the answer is looked at.
StatusDrops(g) ==
  /\ At(g, {"status"}) /\ row' = IF cl[g].guarded THEN None ELSE row
  /\ IF cl[g].key \in authorized THEN Accepted(g) /\ UNCHANGED <<entry, old>>
     ELSE Rejected(g, IF cl[g].guarded THEN "drop" ELSE "login") /\ UNCHANGED vouched
  /\ UNCHANGED <<memo, authorized, revoked, late>>

\* Mutant: the memo is to be set whatever Telegram answers.
StatusUnread(g) ==
  /\ At(g, {"status"}) /\ Goto(g, "answered")
  /\ vouched' = (vouched \/ cl[g].key \in authorized)
  /\ UNCHANGED <<row, entry, memo, authorized, revoked, late, old>>

\* Auth().Status
Status(g) ==
  /\ At(g, {"status"})
  /\ IF cl[g].key \in authorized THEN Accepted(g) /\ UNCHANGED <<entry, old>>
     ELSE Rejected(g, IF cl[g].guarded THEN "drop" ELSE "login") /\ UNCHANGED vouched
  /\ UNCHANGED <<row, memo, authorized, revoked, late>>

\* deleteSession's second half; its error is logged and no more.  A client that read
\* the row since the first half has filled, or will fill, the entry with it.
DropRow(g) ==
  /\ At(g, {"drop", "refusing"})
  /\ LET next == IF At(g, {"drop"}) THEN "login"
                 ELSE IF cl[g].live THEN "work" ELSE "refused" IN
       \/ /\ row' = None /\ old' = (old \/ entry # None)
          /\ Overtake(g, next, Between({"fill"}))
       \/ Goto(g, next) /\ UNCHANGED <<row, old>>
  /\ UNCHANGED <<entry, memo, authorized, revoked, vouched, late>>

\* Auth().Bot, which passes in spite of the cooldown; a live client is ready then.
Login(g) ==
  /\ At(g, {"login"})
  /\ authorized' = authorized \cup {cl[g].key}
  /\ Overtake(g, IF cl[g].live THEN "work" ELSE "again",
              {h \in Between({"drop", "refusing"}) : cl[h].key = cl[g].key})
  /\ UNCHANGED <<row, entry, memo, revoked, vouched, late, old>>

\* Status once more: its error is ignored, and then there is no memo.
StatusAgain(g) ==
  /\ At(g, {"again"})
  /\ IF ~cl[g].cooling /\ cl[g].key \in authorized
     THEN Accepted(g) ELSE Goto(g, "work") /\ UNCHANGED vouched
  /\ UNCHANGED <<row, entry, memo, authorized, revoked, late, old>>

\* autorisesRecemment.Store
Memorize(g) ==
  /\ At(g, {"answered"}) /\ Goto(g, "work")
  /\ memo' = TRUE /\ late' = cl[g].raced
  /\ UNCHANGED <<row, entry, authorized, revoked, vouched, old>>

Works(g) ==
  /\ At(g, {"work"}) /\ ~cl[g].live /\ ~cl[g].cooling /\ cl[g].key \in authorized
  /\ Close(g)
  /\ UNCHANGED <<row, entry, memo, authorized, revoked, vouched, late, old>>

\* f ends with AUTH_KEY_UNREGISTERED or, during the cooldown, with its like.
Refused(g) ==
  /\ At(g, {"work"}) /\ ~cl[g].live /\ (cl[g].cooling \/ cl[g].key \notin authorized)
  /\ vouched' = FALSE
  /\ DropEntry(g)
  /\ Overtake(g, IF Recovers(g) THEN "refusing" ELSE "refused", Between({"answered"}))
  /\ UNCHANGED <<row, memo, authorized, revoked, late>>

\* A request on a live client ends with it: the client is kept, and blocked for a while.
LiveRefused(g) ==
  /\ At(g, {"work"}) /\ cl[g].live /\ ~cl[g].cooling /\ cl[g].key \notin authorized
  /\ Rejected(g, "refusing")
  /\ UNCHANGED <<row, memo, authorized, revoked, vouched, late>>

\* Mutant: the memo survives the failure of the work.
ForgottenNever == memo

\* autorisesRecemment.Delete(token)
Forgotten == FALSE

Forget(g) ==
  /\ At(g, {"refused"}) /\ Close(g)
  /\ memo' = Forgotten /\ late' = FALSE
  /\ UNCHANGED <<row, entry, authorized, revoked, vouched, old>>

\* Another error on the way, of the connection, the database or the proxy, or a live
\* client is dropped or canceled.
Fails(g) ==
  /\ At(g, {"connect", "begin", "status", "login", "again", "work"})
  /\ Close(g)
  /\ UNCHANGED <<row, entry, memo, authorized, revoked, vouched, late, old>>

Revoke ==
  /\ revoked < MaxRevoked /\ revoked' = revoked + 1
  /\ \E k \in authorized : authorized' = authorized \ {k}
  /\ UNCHANGED <<row, entry, memo, vouched, late, old, cl>>

\* Five, ten or sixty minutes pass.
Expire ==
  /\ \/ /\ \E g \in Clients : cl[g].cooling /\ cl' = [cl EXCEPT ![g].cooling = FALSE]
        /\ UNCHANGED <<memo, late, entry, old>>
     \/ memo /\ memo' = FALSE /\ late' = FALSE /\ UNCHANGED <<cl, entry, old>>
     \/ entry # None /\ entry' = None /\ old' = FALSE /\ UNCHANGED <<cl, memo, late>>
  /\ UNCHANGED <<row, authorized, revoked, vouched>>

Step(g) ==
  \/ Fill(g) \/ Connect(g) \/ Purge(g) \/ Begin(g) \/ Status(g) \/ DropRow(g) \/ Login(g)
  \/ StatusAgain(g) \/ Memorize(g) \/ Works(g) \/ Refused(g) \/ LiveRefused(g)
  \/ Forget(g)

Next ==
  \/ \E g \in Clients : Open(g) \/ Step(g) \/ Fails(g)
  \/ Revoke \/ Expire

Spec == Init /\ [][Next]_vars

-----------------------------------------------------------------------------
States ==
  [pc : {"off", "fill", "connect", "stored", "begin", "status", "drop", "login", "again",
         "answered", "work", "refusing", "refused"},
   key : Keys \cup {None}, live : BOOLEAN, guarded : BOOLEAN, cooling : BOOLEAN,
   raced : BOOLEAN]

TypeOK ==
  /\ {row, entry} \subseteq Keys \cup {None} /\ authorized \subseteq Keys
  /\ {memo, vouched, late, old} \subseteq BOOLEAN /\ revoked \in 0..MaxRevoked
  /\ cl \in [Clients -> States]
  /\ \A g \in Clients : cl[g].key = None <=> At(g, {"off"})

\* The memo stands for an answer of Telegram's that no refused work has belied: the work
\* of one client of RunWithAuth that is refused ends the trust in all sessions of the
\* bot ("invalidating the entry as soon as an authorization error comes back from the
\* work itself", run.go:23-24).  A refusal at Status leaves the memo, and so do those of
\* live clients.  The memo escapes this for its ten minutes when its client was answered
\* before the refusal and set it after.
MemoVouched ==
  memo => vouched \/ late \/ \E g \in Between({"refusing", "refused"}) : ~cl[g].live

\* AuthRecovery deletes the row by the bot's name.  The session it deletes may well be
\* a good one, but then another client made it, or logged in with it since the refusal:
\* a client never deletes a good session it works with alone.
OwnSessionSpared ==
  [][(row \in authorized /\ row' = None) =>
       \E g \in Clients : cl'[g] # cl[g] /\ (cl[g].key # row \/ cl[g].raced)]_vars

\* No client is given a session that was replaced (comment of kv.go, lines 48-49) or
\* deleted: the entry agrees with the row once the writers have deleted it.  It escapes
\* this for its sixty minutes when a client read the row before it changed and stored
\* it after, or between the two halves of deleteSession.
EntryFollowsRow ==
  entry # None => entry = row \/ old \/ Between({"stored"}) # {}

\* Sessions of a bot: refused work ends the trust in them, none that was replaced or
\* deleted is loaded, and a client does not delete its own good session (RunWithAuth,
\* authorizeBot, kvStorage.Set, AuthRecovery.Handle).
TrustEarned ==
  /\ [](MemoVouched /\ EntryFollowsRow)
  /\ OwnSessionSpared
=============================================================================
