---------------------------- MODULE BotAuthProofs ----------------------------
(***************************************************************************)
(* What the clients of a bot may believe of the session they share, for    *)
(* any number of clients, keys and revocations.                            *)
(*                                                                         *)
(* Each property excuses what happens when one client comes between two    *)
(* steps of another; the invariant therefore has a part for each pair of   *)
(* steps: what a client that is between them still knows, if nobody came   *)
(* in between.                                                             *)
(***************************************************************************)
EXTENDS BotAuth, FiniteSetTheorems, TLAPS

\* Between Telegram's answer and the memo: some session has been found authorized.
AnswerInv ==
  \A g \in Clients : At(g, {"answered"}) => vouched \/ cl[g].raced

\* Between the read of the row and its cache entry: the row is what was read.
FillInv ==
  \A g \in Clients : At(g, {"fill"}) => cl[g].key = row \/ cl[g].raced

\* Between Telegram's refusal and the deletion of the row: the key is refused.
RefusedInv ==
  \A g \in Clients : At(g, {"drop", "refusing"}) => cl[g].key \notin authorized \/ cl[g].raced

IInv ==
  /\ TypeOK /\ MemoVouched /\ EntryFollowsRow
  /\ AnswerInv /\ FillInv /\ RefusedInv

-----------------------------------------------------------------------------
\* Client g is at a step, its new one, and keeps its session; the clients of Q were
\* overtaken, the others neither moved nor noticed.
Moves(g, step, Q) ==
  /\ cl' \in [Clients -> States]
  /\ cl'[g].pc = step /\ ~cl'[g].raced
  /\ \A h \in Clients : cl'[h].key = cl[h].key /\ cl'[h].live = cl[h].live
  /\ \A h \in Clients \ {g} : cl'[h].pc = cl[h].pc /\ cl'[h].raced = (cl[h].raced \/ h \in Q)

\* What Overtake does to the clients.
LEMMA OvertakeMoves ==
  ASSUME TypeOK, NEW g \in Clients, NEW step, NEW Q,
         step \in {"connect", "stored", "begin", "status", "login", "again", "answered", "work",
                   "refusing", "refused"},
         Overtake(g, step, Q)
  PROVE  Moves(g, step, Q)
<1> DEFINE moved(h) == IF h = g THEN [cl[h] EXCEPT !.pc = step, !.raced = FALSE]
                       ELSE [cl[h] EXCEPT !.raced = @ \/ h \in Q]
<1>1. cl' = [h \in Clients |-> moved(h)]
  BY DEF Overtake
<1>2. ASSUME NEW h \in Clients
      PROVE  /\ moved(h) \in States
             /\ moved(h).key = cl[h].key /\ moved(h).live = cl[h].live
             /\ h = g => moved(h).pc = step /\ moved(h).raced = FALSE
             /\ h # g => moved(h).pc = cl[h].pc /\ moved(h).raced = (cl[h].raced \/ h \in Q)
  <2>1. cl[h] \in States
    BY DEF TypeOK
  <2>2. CASE h = g
    <3>1. moved(h) = [cl[h] EXCEPT !.pc = step, !.raced = FALSE]
      BY <2>2
    <3> QED
      BY <2>1, <2>2, <3>1 DEF States
  <2>3. CASE h # g
    <3> DEFINE r == cl[h].raced \/ h \in Q
    <3>1. moved(h) = [cl[h] EXCEPT !.raced = r]
      BY <2>3
    <3>2. r \in BOOLEAN
      OBVIOUS
    <3>3. \A x \in BOOLEAN : LET c == [cl[h] EXCEPT !.raced = x]
                             IN  /\ c \in States /\ c.key = cl[h].key /\ c.raced = x
                                 /\ c.live = cl[h].live /\ c.pc = cl[h].pc
      BY <2>1 DEF States
    <3> HIDE DEF r, moved
    <3>4. /\ moved(h) \in States /\ moved(h).key = cl[h].key /\ moved(h).raced = r
          /\ moved(h).live = cl[h].live /\ moved(h).pc = cl[h].pc
      BY <3>1, <3>2, <3>3
    <3> QED
      BY <2>3, <3>4 DEF r
  <2> QED
    BY <2>2, <2>3
<1> HIDE DEF moved
<1>3. cl' \in [Clients -> States]
  BY <1>1, <1>2
<1>4. \A h \in Clients : cl'[h] = moved(h)
  BY <1>1
<1>5. cl'[g].pc = step /\ ~cl'[g].raced
  BY <1>2, <1>4
<1>6. \A h \in Clients : cl'[h].key = cl[h].key /\ cl'[h].live = cl[h].live
  BY <1>2, <1>4
<1>7. \A h \in Clients \ {g} : cl'[h].pc = cl[h].pc /\ cl'[h].raced = (cl[h].raced \/ h \in Q)
  BY <1>2, <1>4
<1> QED
  BY <1>3, <1>5, <1>6, <1>7 DEF Moves

\* Goto is a move that overtakes nobody.
LEMMA GotoMoves ==
  ASSUME TypeOK, NEW g \in Clients, NEW step,
         step \in {"connect", "stored", "begin", "status", "login", "again", "answered", "work",
                   "refusing", "refused"},
         Goto(g, step)
  PROVE  Moves(g, step, {})
<1> DEFINE first == [cl[g] EXCEPT !.pc = step]
           moved == [first EXCEPT !.raced = FALSE]
<1>1. cl[g] \in States
  BY DEF TypeOK
<1>2. first \in States /\ first.pc = step /\ first.key = cl[g].key /\ first.live = cl[g].live
  BY <1>1 DEF States
<1>3. cl' = [cl EXCEPT ![g] = moved]
  BY <1>1 DEF Goto, TypeOK, States
<1> HIDE DEF first
<1>4. /\ moved \in States /\ moved.pc = step /\ moved.raced = FALSE
      /\ moved.key = cl[g].key /\ moved.live = cl[g].live
  BY <1>2 DEF States
<1> HIDE DEF moved
<1>5. cl' \in [Clients -> States] /\ cl'[g] = moved /\ \A h \in Clients \ {g} : cl'[h] = cl[h]
  BY <1>3, <1>4 DEF TypeOK
<1>6. \A h \in Clients : cl[h].raced \in BOOLEAN
  BY DEF TypeOK, States
<1> QED
  BY <1>4, <1>5, <1>6 DEF Moves

-----------------------------------------------------------------------------
\* What a move leaves true of the clients: the client that moves answers for its new
\* step, and those that it makes wrong are those that it overtakes.
LEMMA MoveKeeps ==
  ASSUME IInv, NEW g \in Clients, NEW step, NEW Q, Moves(g, step, Q),
         ~At(g, {"off"}), step \notin {"off", "fill"},
         step = "answered" => vouched',
         ~vouched' => ~vouched \/ Between({"answered"}) \subseteq Q,
         row' = row \/ Between({"fill"}) \subseteq Q,
         step \in {"drop", "refusing"} => cl[g].key \notin authorized',
         \A h \in Clients \ {g} : At(h, {"drop", "refusing"}) =>
           cl[h].key \notin authorized' \/ cl[h].raced \/ h \in Q
  PROVE  /\ cl' \in [Clients -> States] /\ (\A h \in Clients : cl'[h].key = None <=> At(h, {"off"})')
         /\ AnswerInv' /\ FillInv' /\ RefusedInv'
<1> USE DEF At
<1>1. cl' \in [Clients -> States]
  BY DEF Moves
<1>2. cl'[g].pc = step /\ ~cl'[g].raced
  BY DEF Moves
<1>3. \A h \in Clients : cl'[h].key = cl[h].key /\ cl'[h].live = cl[h].live
  BY DEF Moves
<1>4. \A h \in Clients \ {g} : cl'[h].pc = cl[h].pc /\ cl'[h].raced = (cl[h].raced \/ h \in Q)
  BY DEF Moves
<1>5. \A h \in Clients : cl'[h].key = None <=> At(h, {"off"})'
  BY <1>2, <1>3, <1>4 DEF IInv, TypeOK
<1>6. AnswerInv'
  BY <1>2, <1>4 DEF IInv, AnswerInv, Between
<1>8. FillInv'
  BY <1>2, <1>3, <1>4 DEF IInv, FillInv, Between
<1>9. RefusedInv'
  BY <1>2, <1>3, <1>4 DEF RefusedInv
<1> QED
  BY <1>1, <1>5, <1>6, <1>8, <1>9

\* What the end of a client leaves true of the others.
LEMMA CloseKeeps ==
  ASSUME None \notin Keys, IInv, NEW g \in Clients, Close(g),
         vouched' = vouched, row' = row, authorized' = authorized, revoked' = revoked
  PROVE  /\ cl' \in [Clients -> States] /\ (\A h \in Clients : cl'[h].key = None <=> At(h, {"off"})')
         /\ AnswerInv' /\ FillInv' /\ RefusedInv'
         /\ \A h \in Clients \ {g} : cl'[h] = cl[h]
<1> USE DEF At
<1>1. /\ Off \in States /\ Off.pc = "off" /\ Off.key = None
  BY DEF Off, States
<1>2. cl' = [cl EXCEPT ![g] = Off]
  BY DEF Close
<1> HIDE DEF Off
<1>3. cl' \in [Clients -> States] /\ cl'[g] = Off /\ \A h \in Clients \ {g} : cl'[h] = cl[h]
  BY <1>1, <1>2 DEF IInv, TypeOK
<1>4. \A h \in Clients : cl'[h].key = None <=> At(h, {"off"})'
  BY <1>1, <1>3 DEF IInv, TypeOK
<1>5. AnswerInv'
  BY <1>1, <1>3 DEF IInv, AnswerInv
<1>6. FillInv' /\ RefusedInv'
  BY <1>1, <1>3 DEF IInv, FillInv, RefusedInv
<1> QED
  BY <1>3, <1>4, <1>5, <1>6

-----------------------------------------------------------------------------
\* Only the clients that are open have keys, so an unused one is left for another.
LEMMA UnusedLeft ==
  ASSUME EnoughKeys, TypeOK, NEW g \in Clients, At(g, {"off"}), row = None, entry = None
  PROVE  Unused # {}
<1> DEFINE others == Clients \ {g}
           held == {cl[h].key : h \in others}
<1>1. IsFiniteSet(others) /\ Cardinality(others) = Cardinality(Clients) - 1
  BY FS_RemoveElement DEF EnoughKeys
<1>2. Cardinality(Clients) \in Nat /\ Cardinality(Keys) \in Nat
  BY FS_CardinalityType DEF EnoughKeys
<1>3. IsFiniteSet(held) /\ Cardinality(held) <= Cardinality(others)
  <2>1. [h \in others |-> cl[h].key] \in Surjection(others, held)
    BY DEF Surjection
  <2> QED
    BY <1>1, <2>1, FS_Surjection
<1>4. Cardinality(held) < Cardinality(Keys)
  BY <1>1, <1>2, <1>3, FS_CardinalityType DEF EnoughKeys
<1>5. ~(Keys \subseteq held)
  BY <1>3, <1>4, FS_Subset, FS_CardinalityType
<1>7. PICK k \in Keys : k \notin held
  BY <1>5
<1>8. k \notin {row, entry} \cup {cl[h].key : h \in Clients}
  \* The key of g itself is None.
  BY <1>7 DEF EnoughKeys, TypeOK
<1> QED
  BY <1>7, <1>8 DEF Unused

\* A client opens (BotClient): its key is the entry, the row, or new, and Telegram's
\* knowledge of a key that nobody holds is forgotten.
LEMMA OpenStep ==
  ASSUME EnoughKeys, IInv, NEW g \in Clients, Open(g)
  PROVE  IInv'
<1> DEFINE key == IF entry # None THEN entry
                  ELSE IF row # None THEN row ELSE CHOOSE k \in Unused : TRUE
           step == IF entry = None /\ row # None THEN "fill" ELSE "connect"
<1>1. PICK live \in BOOLEAN, guarded \in BOOLEAN :
        cl' = [cl EXCEPT ![g] = [Off EXCEPT !.pc = step, !.live = live, !.guarded = guarded,
                                            !.key = key]]
  BY DEF Open
<1>2. /\ At(g, {"off"}) /\ authorized' = authorized \ Unused
      /\ row' = row /\ entry' = entry /\ memo' = memo /\ revoked' = revoked
      /\ vouched' = vouched /\ late' = late /\ old' = old
  BY DEF Open
<1>3. key \in Keys /\ None \notin Keys
  <2>1. row = None /\ entry = None => Unused # {} /\ Unused \subseteq Keys
    BY <1>2, UnusedLeft DEF IInv, Unused
  <2> QED
    BY <2>1 DEF IInv, TypeOK, EnoughKeys
<1>4. step \in {"fill", "connect"} /\ (step = "fill" => key = row)
  OBVIOUS
<1> HIDE DEF key, step
<1> DEFINE new == [Off EXCEPT !.pc = step, !.live = live, !.guarded = guarded, !.key = key]
<1>5. new \in States /\ new.pc = step /\ new.key = key /\ ~new.raced
  BY <1>3, <1>4 DEF Off, States
<1>6. cl' = [cl EXCEPT ![g] = new]
  BY <1>1
<1> HIDE DEF new
<1>7. cl' \in [Clients -> States] /\ cl'[g] = new /\ \A h \in Clients \ {g} : cl'[h] = cl[h]
  BY <1>5, <1>6 DEF IInv, TypeOK
<1> USE DEF At
<1>8. TypeOK'
  <2>1. \A h \in Clients : cl'[h].key = None <=> cl'[h].pc \in {"off"}
    BY <1>3, <1>4, <1>5, <1>7 DEF IInv, TypeOK
  <2> QED
    BY <1>2, <1>7, <2>1 DEF IInv, TypeOK
<1>9. AnswerInv' /\ FillInv'
  BY <1>2, <1>4, <1>5, <1>7 DEF IInv, AnswerInv, FillInv
<1>11. RefusedInv'
  BY <1>2, <1>4, <1>5, <1>7 DEF IInv, RefusedInv
<1>12. MemoVouched'
  BY <1>2, <1>7 DEF IInv, MemoVouched, Between
<1>13. EntryFollowsRow'
  BY <1>2, <1>7 DEF IInv, EntryFollowsRow, Between
<1> QED
  BY <1>8, <1>9, <1>11, <1>12, <1>13 DEF IInv

\* Fetch stores what it read: the row still, or the entry is known to be out of date.
LEMMA FillStep ==
  ASSUME IInv, NEW g \in Clients, Fill(g)
  PROVE  IInv'
<1>1. /\ At(g, {"fill"}) /\ Moves(g, "connect", {})
      /\ entry' = cl[g].key /\ old' = (old \/ cl[g].raced)
      /\ row' = row /\ memo' = memo /\ authorized' = authorized /\ revoked' = revoked
      /\ vouched' = vouched /\ late' = late
  BY GotoMoves DEF Fill, IInv
<1>2. /\ cl' \in [Clients -> States] /\ (\A h \in Clients : cl'[h].key = None <=> At(h, {"off"})')
      /\ AnswerInv' /\ FillInv' /\ RefusedInv'
  BY <1>1, MoveKeeps DEF IInv, At, RefusedInv
<1>3. cl[g].key \in Keys \cup {None} /\ cl[g].raced \in BOOLEAN
  BY DEF IInv, TypeOK, States
<1>4. TypeOK'
  BY <1>1, <1>2, <1>3 DEF IInv, TypeOK
<1>5. EntryFollowsRow'
  BY <1>1 DEF IInv, FillInv, EntryFollowsRow
<1>6. MemoVouched'
  BY <1>1 DEF IInv, MemoVouched, Between, At, Moves
<1> QED
  BY <1>2, <1>4, <1>5, <1>6 DEF IInv

\* kvStorage.Set: who read the row that is replaced is overtaken, and the entry is to be
\* deleted next.
LEMMA StoreStep ==
  ASSUME IInv, NEW g \in Clients, Connect(g) \/ Purge(g)
  PROVE  IInv'
<1>1. CASE Connect(g)
  <2> DEFINE Q == IF row = cl[g].key THEN {} ELSE Between({"fill"})
  <2>1. /\ At(g, {"connect"}) /\ Moves(g, "stored", Q)
        /\ row' = cl[g].key
        /\ entry' = entry /\ memo' = memo /\ authorized' = authorized /\ revoked' = revoked
        /\ vouched' = vouched /\ late' = late /\ old' = old
    BY <1>1, OvertakeMoves DEF Connect, IInv
  <2>2. row' = row \/ Between({"fill"}) \subseteq Q
    BY <2>1
  <2> HIDE DEF Q
  <2>3. /\ cl' \in [Clients -> States] /\ (\A h \in Clients : cl'[h].key = None <=> At(h, {"off"})')
        /\ AnswerInv' /\ FillInv' /\ RefusedInv'
    BY <2>1, <2>2, MoveKeeps DEF IInv, At, RefusedInv
  <2>4. cl[g].key \in Keys \cup {None}
    BY DEF IInv, TypeOK, States
  <2>5. TypeOK'
    BY <2>1, <2>3, <2>4 DEF IInv, TypeOK
  <2>6. EntryFollowsRow'
    BY <2>1 DEF EntryFollowsRow, Between, At, Moves
  <2>7. MemoVouched'
    BY <2>1 DEF IInv, MemoVouched, Between, At, Moves
  <2> QED
    BY <2>3, <2>5, <2>6, <2>7 DEF IInv
<1>2. CASE Purge(g)
  <2>1. /\ At(g, {"stored"}) /\ Moves(g, "begin", {})
        /\ entry' = None /\ old' = FALSE
        /\ row' = row /\ memo' = memo /\ authorized' = authorized /\ revoked' = revoked
        /\ vouched' = vouched /\ late' = late
    BY <1>2, GotoMoves DEF Purge, IInv
  <2>2. /\ cl' \in [Clients -> States] /\ (\A h \in Clients : cl'[h].key = None <=> At(h, {"off"})')
        /\ AnswerInv' /\ FillInv' /\ RefusedInv'
    BY <2>1, MoveKeeps DEF IInv, At, RefusedInv
  <2>3. TypeOK'
    BY <2>1, <2>2 DEF IInv, TypeOK
  <2>4. EntryFollowsRow'
    BY <2>1 DEF EntryFollowsRow
  <2>5. MemoVouched'
    BY <2>1 DEF IInv, MemoVouched, Between, At, Moves
  <2> QED
    BY <2>2, <2>3, <2>4, <2>5 DEF IInv
<1> QED
  BY <1>1, <1>2

\* The memo decides whether a client asks; nothing else moves.
LEMMA BeginStep ==
  ASSUME IInv, NEW g \in Clients, Begin(g)
  PROVE  IInv'
<1> DEFINE step == IF memo /\ ~cl[g].live THEN "work" ELSE "status"
<1>1. /\ At(g, {"begin"}) /\ row' = row /\ entry' = entry /\ memo' = memo
      /\ authorized' = authorized /\ revoked' = revoked /\ vouched' = vouched
      /\ late' = late /\ old' = old /\ Goto(g, step)
  BY DEF Begin
<1>2. step \in {"work", "status"}
  OBVIOUS
<1> HIDE DEF step
<1>3. Moves(g, step, {})
  BY <1>1, <1>2, GotoMoves DEF IInv
<1>4. /\ cl' \in [Clients -> States] /\ (\A h \in Clients : cl'[h].key = None <=> At(h, {"off"})')
      /\ AnswerInv' /\ FillInv' /\ RefusedInv'
  BY <1>1, <1>2, <1>3, MoveKeeps DEF IInv, At, RefusedInv
<1>5. TypeOK'
  BY <1>1, <1>4 DEF IInv, TypeOK
<1>6. MemoVouched' /\ EntryFollowsRow'
  BY <1>1, <1>2, <1>3 DEF IInv, MemoVouched, EntryFollowsRow, Between, At, Moves
<1> QED
  BY <1>4, <1>5, <1>6 DEF IInv

\* Telegram refuses the key of g: its client is to drop the row, or to log in.
LEMMA RejectedMoves ==
  ASSUME IInv, NEW g \in Clients, NEW step \in {"drop", "login", "refusing"},
         Rejected(g, step)
  PROVE  Moves(g, step, {})
<1> DEFINE first == [cl[g] EXCEPT !.pc = step]
           second == [first EXCEPT !.cooling = cl[g].guarded]
           new == [second EXCEPT !.raced = FALSE]
<1>1. cl[g] \in States
  BY DEF IInv, TypeOK
<1>2. cl' = [cl EXCEPT ![g] = new]
  BY <1>1 DEF Rejected, IInv, TypeOK, States
<1>4. first \in States /\ first.pc = step /\ first.key = cl[g].key /\ first.live = cl[g].live
  BY <1>1 DEF States
<1> HIDE DEF first
<1>5. /\ second \in States /\ second.pc = step /\ second.key = cl[g].key
      /\ second.live = cl[g].live
  BY <1>1, <1>4 DEF States
<1> HIDE DEF second
<1>6. /\ new \in States /\ new.pc = step /\ new.key = cl[g].key /\ new.live = cl[g].live
      /\ new.raced = FALSE
  BY <1>5 DEF States
<1> HIDE DEF new
<1>7. cl' \in [Clients -> States] /\ cl'[g] = new /\ \A h \in Clients \ {g} : cl'[h] = cl[h]
  BY <1>2, <1>6 DEF IInv, TypeOK
<1>8. \A h \in Clients : cl[h].raced \in BOOLEAN
  BY DEF IInv, TypeOK, States
<1> QED
  BY <1>6, <1>7, <1>8 DEF Moves

\* The entry that AuthRecovery deletes first takes its history with it.
LEMMA EntryDropped ==
  ASSUME TypeOK, NEW g \in Clients, DropEntry(g) \/ UNCHANGED <<entry, old>>
  PROVE  /\ entry' \in Keys \cup {None} /\ old' \in BOOLEAN
         /\ entry' = None \/ (entry' = entry /\ old' = old)
  BY DEF DropEntry, TypeOK

\* Auth().Status, the first time and after the login: only an authorized session is
\* vouched for, and only a refused one is to be dropped.
LEMMA StatusStep ==
  ASSUME IInv, NEW g \in Clients, Status(g) \/ StatusAgain(g)
  PROVE  IInv'
<1>1. /\ At(g, {"status", "again"}) /\ row' = row /\ memo' = memo
      /\ authorized' = authorized /\ revoked' = revoked /\ late' = late
  BY DEF Status, StatusAgain, At
<1>2. /\ entry' \in Keys \cup {None} /\ old' \in BOOLEAN
      /\ entry' = None \/ (entry' = entry /\ old' = old)
  BY EntryDropped DEF Status, StatusAgain, Accepted, Rejected, IInv, TypeOK
<1>3. \E step \in {"answered", "drop", "login", "work"} :
        /\ Moves(g, step, {})
        /\ step = "answered" => vouched'
        /\ vouched => vouched'
        /\ step = "drop" => cl[g].key \notin authorized
  <2>1. CASE Accepted(g)
    <3> DEFINE step == IF cl[g].live THEN "work" ELSE "answered"
    <3>1. Goto(g, step) /\ vouched' = (vouched \/ ~cl[g].live)
      BY <2>1 DEF Accepted
    <3>2. step \in {"work", "answered"} /\ (step = "answered" => ~cl[g].live)
      OBVIOUS
    <3> HIDE DEF step
    <3>3. Moves(g, step, {})
      BY <3>1, <3>2, GotoMoves DEF IInv
    <3> QED
      BY <3>1, <3>2, <3>3
  <2>2. ASSUME NEW step \in {"drop", "login"}, Rejected(g, step), vouched' = vouched,
               cl[g].key \notin authorized
        PROVE  <1>3
    BY <2>2, RejectedMoves
  <2>3. CASE Goto(g, "work") /\ vouched' = vouched
    BY <2>3, GotoMoves DEF IInv
  <2>4. CASE Status(g)
    BY <2>1, <2>2, <2>4 DEF Status
  <2>5. CASE StatusAgain(g)
    BY <2>1, <2>3, <2>5 DEF StatusAgain
  <2> QED
    BY <2>4, <2>5
<1>4. PICK step \in {"answered", "drop", "login", "work"} :
        /\ Moves(g, step, {})
        /\ step = "answered" => vouched'
        /\ vouched => vouched'
        /\ step = "drop" => cl[g].key \notin authorized
  BY <1>3
<1>5. vouched' \in BOOLEAN
  BY DEF Status, StatusAgain, Accepted, IInv, TypeOK, States
<1>7. /\ cl' \in [Clients -> States] /\ (\A h \in Clients : cl'[h].key = None <=> At(h, {"off"})')
      /\ AnswerInv' /\ FillInv' /\ RefusedInv'
  BY <1>1, <1>4, MoveKeeps DEF IInv, At, RefusedInv
<1>8. TypeOK'
  BY <1>1, <1>2, <1>4, <1>5, <1>7 DEF IInv, TypeOK
<1>9. EntryFollowsRow'
  BY <1>1, <1>2, <1>4 DEF IInv, EntryFollowsRow, Between, At, Moves
<1>10. MemoVouched'
  BY <1>1, <1>4 DEF IInv, MemoVouched, Between, At, Moves
<1> QED
  BY <1>7, <1>8, <1>9, <1>10 DEF IInv

\* The row is deleted, or that fails: who read the row is overtaken, and an entry that
\* is there again is out of date.
LEMMA DropRowStep ==
  ASSUME IInv, NEW g \in Clients, DropRow(g)
  PROVE  IInv'
<1> DEFINE step == IF At(g, {"drop"}) THEN "login"
                   ELSE IF cl[g].live THEN "work" ELSE "refused"
<1>1. /\ At(g, {"drop", "refusing"}) /\ entry' = entry /\ memo' = memo
      /\ authorized' = authorized /\ revoked' = revoked /\ vouched' = vouched /\ late' = late
  BY DEF DropRow
<1>2. /\ step \in {"login", "work", "refused"}
      /\ At(g, {"refusing"}) => step = "refused" \/ cl[g].live
  BY DEF At
<1>3. \/ /\ row' = None /\ old' = (old \/ entry # None)
         /\ Overtake(g, step, Between({"fill"}))
      \/ Goto(g, step) /\ row' = row /\ old' = old
  BY DEF DropRow
<1> HIDE DEF step
<1>4. PICK Q \in {{}, Between({"fill"})} :
        /\ Moves(g, step, Q)
        /\ \/ row' = None /\ old' = (old \/ entry # None) /\ Q = Between({"fill"})
           \/ row' = row /\ old' = old
  BY <1>2, <1>3, OvertakeMoves, GotoMoves DEF IInv
<1>5. /\ cl' \in [Clients -> States] /\ (\A h \in Clients : cl'[h].key = None <=> At(h, {"off"})')
      /\ AnswerInv' /\ FillInv' /\ RefusedInv'
  BY <1>1, <1>2, <1>4, MoveKeeps DEF IInv, At, RefusedInv
<1>6. TypeOK'
  BY <1>1, <1>4, <1>5 DEF IInv, TypeOK
<1>7. EntryFollowsRow'
  <2>1. CASE row' = None /\ old' = (old \/ entry # None)
    BY <1>1, <2>1 DEF EntryFollowsRow
  <2>2. CASE row' = row /\ old' = old
    BY <1>1, <1>4, <2>2 DEF IInv, EntryFollowsRow, Between, At, Moves
  <2> QED
    BY <1>4, <2>1, <2>2
<1>8. MemoVouched'
  BY <1>1, <1>2, <1>4 DEF IInv, MemoVouched, Between, At, Moves
<1> QED
  BY <1>5, <1>6, <1>7, <1>8 DEF IInv

\* Auth().Bot: who was refused with this key, and has not deleted it yet, is overtaken.
LEMMA LoginStep ==
  ASSUME IInv, NEW g \in Clients, Login(g)
  PROVE  IInv'
<1> DEFINE Q == {h \in Between({"drop", "refusing"}) : cl[h].key = cl[g].key}
           step == IF cl[g].live THEN "work" ELSE "again"
<1>0. step \in {"work", "again"} /\ Overtake(g, step, Q)
  BY DEF Login
<1> HIDE DEF step
<1>1. /\ At(g, {"login"}) /\ Moves(g, step, Q)
      /\ authorized' = authorized \cup {cl[g].key}
      /\ row' = row /\ entry' = entry /\ memo' = memo /\ revoked' = revoked
      /\ vouched' = vouched /\ late' = late /\ old' = old
  BY <1>0, OvertakeMoves DEF Login, IInv
<1>2. cl[g].key \in Keys
  BY <1>1 DEF IInv, TypeOK, States, At
<1>3. \A h \in Clients \ {g} : At(h, {"drop", "refusing"}) =>
        cl[h].key \notin authorized' \/ cl[h].raced \/ h \in Q
  BY <1>1 DEF IInv, RefusedInv, Between
<1> HIDE DEF Q
<1>4. /\ cl' \in [Clients -> States] /\ (\A h \in Clients : cl'[h].key = None <=> At(h, {"off"})')
      /\ AnswerInv' /\ FillInv' /\ RefusedInv'
  BY <1>0, <1>1, <1>3, MoveKeeps DEF IInv, At
<1>5. TypeOK'
  BY <1>1, <1>2, <1>4 DEF IInv, TypeOK
<1>6. EntryFollowsRow' /\ MemoVouched'
  BY <1>0, <1>1 DEF IInv, EntryFollowsRow, MemoVouched, Between, At, Moves
<1> QED
  BY <1>4, <1>5, <1>6 DEF IInv

\* The memo is set, after a refusal that came meanwhile or not.
LEMMA MemorizeStep ==
  ASSUME IInv, NEW g \in Clients, Memorize(g)
  PROVE  IInv'
<1>1. /\ At(g, {"answered"}) /\ Moves(g, "work", {})
      /\ memo' = TRUE /\ late' = cl[g].raced
      /\ row' = row /\ entry' = entry /\ authorized' = authorized /\ revoked' = revoked
      /\ vouched' = vouched /\ old' = old
  BY GotoMoves DEF Memorize, IInv
<1>2. /\ cl' \in [Clients -> States] /\ (\A h \in Clients : cl'[h].key = None <=> At(h, {"off"})')
      /\ AnswerInv' /\ FillInv' /\ RefusedInv'
  BY <1>1, MoveKeeps DEF IInv, At, RefusedInv
<1>3. cl[g].raced \in BOOLEAN
  BY DEF IInv, TypeOK, States
<1>4. TypeOK'
  BY <1>1, <1>2, <1>3 DEF IInv, TypeOK
<1>5. MemoVouched'
  BY <1>1 DEF IInv, AnswerInv, MemoVouched
<1>6. EntryFollowsRow'
  BY <1>1 DEF IInv, EntryFollowsRow, Between, At, Moves
<1> QED
  BY <1>2, <1>4, <1>5, <1>6 DEF IInv

\* The work is refused: whoever is about to set the memo is overtaken, and the memo is
\* to be deleted.
LEMMA RefusedStep ==
  ASSUME IInv, NEW g \in Clients, Refused(g)
  PROVE  IInv'
<1> DEFINE step == IF Recovers(g) THEN "refusing" ELSE "refused"
           Q == Between({"answered"})
<1>1. /\ At(g, {"work"}) /\ ~cl[g].live /\ vouched' = FALSE
      /\ row' = row /\ memo' = memo /\ authorized' = authorized /\ revoked' = revoked
      /\ late' = late
  BY DEF Refused
<1>2. /\ step \in {"refusing", "refused"}
      /\ step = "refusing" => cl[g].key \notin authorized
  BY DEF Refused, Recovers
<1>3. Moves(g, step, Q)
  BY <1>2, OvertakeMoves DEF Refused, IInv
<1> HIDE DEF step
<1>4. /\ entry' \in Keys \cup {None} /\ old' \in BOOLEAN
      /\ entry' = None \/ (entry' = entry /\ old' = old)
  BY EntryDropped DEF Refused, IInv
<1>5. /\ cl' \in [Clients -> States] /\ (\A h \in Clients : cl'[h].key = None <=> At(h, {"off"})')
      /\ AnswerInv' /\ FillInv' /\ RefusedInv'
  BY <1>1, <1>2, <1>3, MoveKeeps DEF IInv, At, RefusedInv
<1>6. TypeOK'
  BY <1>1, <1>4, <1>5 DEF IInv, TypeOK
<1>7. MemoVouched'
  BY <1>1, <1>2, <1>3 DEF MemoVouched, Between, At, Moves
<1>8. EntryFollowsRow'
  BY <1>1, <1>3, <1>4 DEF IInv, EntryFollowsRow, Between, At, Moves
<1> QED
  BY <1>5, <1>6, <1>7, <1>8 DEF IInv

\* A request on a live client is refused: its row is to be dropped.
LEMMA LiveRefusedStep ==
  ASSUME IInv, NEW g \in Clients, LiveRefused(g)
  PROVE  IInv'
<1>1. /\ At(g, {"work"}) /\ cl[g].key \notin authorized
      /\ row' = row /\ memo' = memo /\ authorized' = authorized /\ revoked' = revoked
      /\ vouched' = vouched /\ late' = late
  BY DEF LiveRefused
<1>2. Moves(g, "refusing", {})
  BY RejectedMoves DEF LiveRefused
<1>3. /\ entry' \in Keys \cup {None} /\ old' \in BOOLEAN
      /\ entry' = None \/ (entry' = entry /\ old' = old)
  BY EntryDropped DEF LiveRefused, Rejected, IInv
<1>4. /\ cl' \in [Clients -> States] /\ (\A h \in Clients : cl'[h].key = None <=> At(h, {"off"})')
      /\ AnswerInv' /\ FillInv' /\ RefusedInv'
  BY <1>1, <1>2, MoveKeeps DEF IInv, At, RefusedInv
<1>5. TypeOK'
  BY <1>1, <1>3, <1>4 DEF IInv, TypeOK
<1>6. MemoVouched' /\ EntryFollowsRow'
  BY <1>1, <1>2, <1>3 DEF IInv, MemoVouched, EntryFollowsRow, Between, At, Moves
<1> QED
  BY <1>4, <1>5, <1>6 DEF IInv

\* A client ends, with its work done, with the memo deleted, or on another error.
LEMMA EndStep ==
  ASSUME None \notin Keys, IInv, NEW g \in Clients, Works(g) \/ Forget(g) \/ Fails(g)
  PROVE  IInv'
<1>1. /\ Close(g) /\ row' = row /\ entry' = entry /\ authorized' = authorized
      /\ revoked' = revoked /\ vouched' = vouched /\ old' = old
  BY DEF Works, Forget, Fails
<1>2. \/ memo' = FALSE /\ late' = FALSE
      \/ memo' = memo /\ late' = late /\ ~At(g, {"refusing", "refused"})
  BY DEF Works, Forget, Forgotten, Fails, At
<1>3. ~At(g, {"stored"})
  BY DEF Works, Forget, Fails, At
<1>4. /\ cl' \in [Clients -> States] /\ (\A h \in Clients : cl'[h].key = None <=> At(h, {"off"})')
      /\ AnswerInv' /\ FillInv' /\ RefusedInv'
      /\ \A h \in Clients \ {g} : cl'[h] = cl[h]
  BY <1>1, CloseKeeps
<1>5. TypeOK'
  BY <1>1, <1>2, <1>4 DEF IInv, TypeOK
<1>6. MemoVouched'
  BY <1>1, <1>2, <1>4 DEF IInv, MemoVouched, Between, At
<1>7. EntryFollowsRow'
  BY <1>1, <1>3, <1>4 DEF IInv, EntryFollowsRow, Between, At
<1> QED
  BY <1>4, <1>5, <1>6, <1>7 DEF IInv

-----------------------------------------------------------------------------
\* Telegram revokes a key: what was vouched for is not promised any more.
LEMMA RevokeStep ==
  ASSUME EnoughKeys, IInv, Revoke
  PROVE  IInv'
<1>1. /\ revoked' = revoked + 1 /\ revoked' \in 0..MaxRevoked /\ authorized' \subseteq authorized
      /\ row' = row /\ entry' = entry /\ memo' = memo /\ vouched' = vouched
      /\ late' = late /\ old' = old /\ cl' = cl
  BY DEF Revoke, EnoughKeys, IInv, TypeOK
<1>2. TypeOK'
  BY <1>1 DEF IInv, TypeOK, At
<1>4. AnswerInv' /\ FillInv' /\ RefusedInv'
  BY <1>1 DEF IInv, AnswerInv, FillInv, RefusedInv, At
<1>5. MemoVouched' /\ EntryFollowsRow'
  BY <1>1 DEF IInv, MemoVouched, EntryFollowsRow, Between, At
<1> QED
  BY <1>2, <1>4, <1>5 DEF IInv

\* Time passes for a cooldown, the memo or the entry.
LEMMA ExpireStep ==
  ASSUME IInv, Expire
  PROVE  IInv'
<1> USE DEF At
<1>1. /\ row' = row /\ authorized' = authorized /\ revoked' = revoked /\ vouched' = vouched
      /\ memo' = FALSE \/ (memo' = memo /\ late' = late)
      /\ entry' = None \/ (entry' = entry /\ old' = old)
      /\ memo' \in BOOLEAN /\ late' \in BOOLEAN /\ old' \in BOOLEAN
      /\ entry' \in Keys \cup {None}
  BY DEF Expire, IInv, TypeOK
<1>2. /\ cl' \in [Clients -> States]
      /\ \A h \in Clients :
           /\ cl'[h].pc = cl[h].pc /\ cl'[h].key = cl[h].key
           /\ cl'[h].live = cl[h].live /\ cl'[h].raced = cl[h].raced
  <2>1. CASE cl' = cl
    BY <2>1 DEF IInv, TypeOK
  <2>2. ASSUME NEW g \in Clients, cl' = [cl EXCEPT ![g].cooling = FALSE]
        PROVE  <1>2!1 /\ <1>2!2
    <3> DEFINE new == [cl[g] EXCEPT !.cooling = FALSE]
    <3>1. cl[g] \in States
      BY DEF IInv, TypeOK
    <3>2. cl' = [cl EXCEPT ![g] = new]
      BY <2>2
    <3>3. /\ new \in States /\ new.pc = cl[g].pc /\ new.key = cl[g].key
          /\ new.live = cl[g].live /\ new.raced = cl[g].raced
      BY <3>1 DEF States
    <3> HIDE DEF new
    <3> QED
      BY <3>2, <3>3 DEF IInv, TypeOK
  <2> QED
    BY <2>1, <2>2 DEF Expire
<1>3. TypeOK'
  BY <1>1, <1>2 DEF IInv, TypeOK
<1>4. AnswerInv' /\ FillInv' /\ RefusedInv'
  BY <1>1, <1>2 DEF IInv, AnswerInv, FillInv, RefusedInv
<1>5. MemoVouched' /\ EntryFollowsRow'
  BY <1>1, <1>2 DEF IInv, MemoVouched, EntryFollowsRow, Between
<1> QED
  BY <1>3, <1>4, <1>5 DEF IInv

-----------------------------------------------------------------------------
\* The invariant holds of every behaviour of the clients of a bot.
THEOREM AuthInvariance ==
  ASSUME EnoughKeys
  PROVE  Spec => []IInv
<1>1. Init => IInv
  <2> SUFFICES ASSUME Init PROVE IInv
    OBVIOUS
  <2>1. TypeOK
    <3>1. Off \in States /\ Off.pc = "off" /\ Off.key = None
      BY DEF Off, States
    <3>2. cl \in [Clients -> States] /\ \A g \in Clients : cl[g] = Off
      BY <3>1 DEF Init
    <3>3. \A g \in Clients : cl[g].key = None <=> At(g, {"off"})
      BY <3>1, <3>2 DEF At
    <3>4. revoked \in 0..MaxRevoked
      BY EnoughKeys DEF Init, EnoughKeys
    <3> QED
      BY <3>2, <3>3, <3>4 DEF Init, TypeOK
  <2>2. MemoVouched /\ EntryFollowsRow /\ AnswerInv /\ FillInv /\ RefusedInv
    BY DEF Init, Off, MemoVouched, EntryFollowsRow, AnswerInv, FillInv, RefusedInv, At
  <2> QED
    BY <2>1, <2>2 DEF IInv
<1>2. IInv /\ [Next]_vars => IInv'
  <2> SUFFICES ASSUME IInv, [Next]_vars PROVE IInv'
    OBVIOUS
  <2>1. ASSUME NEW g \in Clients, Open(g)
        PROVE  IInv'
    BY <2>1, OpenStep
  <2>2. ASSUME NEW g \in Clients, Step(g)
        PROVE  IInv'
    <3>1. CASE Fill(g) \/ Connect(g) \/ Purge(g) \/ Begin(g)
      BY <3>1, FillStep, StoreStep, BeginStep
    <3>2. CASE Status(g) \/ StatusAgain(g) \/ DropRow(g) \/ Login(g) \/ Memorize(g)
      BY <3>2, StatusStep, DropRowStep, LoginStep, MemorizeStep
    <3>3. CASE Works(g) \/ Refused(g) \/ LiveRefused(g) \/ Forget(g)
      BY <3>3, RefusedStep, LiveRefusedStep, EndStep DEF EnoughKeys
    <3> QED
      BY <2>2, <3>1, <3>2, <3>3 DEF Step
  <2>3. ASSUME NEW g \in Clients, Fails(g)
        PROVE  IInv'
    BY <2>3, EndStep DEF EnoughKeys
  <2>4. CASE Revoke \/ Expire
    BY <2>4, RevokeStep, ExpireStep
  <2>5. CASE UNCHANGED vars
    BY <2>5 DEF vars, IInv, TypeOK, MemoVouched, EntryFollowsRow, AnswerInv, FillInv,
       RefusedInv, Between, At
  <2> QED
    BY <2>1, <2>2, <2>3, <2>4, <2>5 DEF Next
<1> QED
  BY <1>1, <1>2, PTL DEF Spec

\* The row of a good session is deleted only by a client that works with another one, or
\* that somebody overtook since its key was refused (AuthRecovery.Handle).
LEMMA GoodRowSpared ==
  ASSUME EnoughKeys, IInv, Next, row \in authorized, row' = None
  PROVE  \E g \in Clients : cl'[g] # cl[g] /\ (cl[g].key # row \/ cl[g].raced)
<1>1. row \in Keys /\ row # None
  BY DEF IInv, TypeOK, EnoughKeys
<1>2. PICK g \in Clients : DropRow(g)
  <2>1. ASSUME NEW g \in Clients, Connect(g)
        PROVE  FALSE
    BY <2>1 DEF Connect, IInv, TypeOK, At
  <2>2. ASSUME NEW g \in Clients, Step(g), ~DropRow(g), ~Connect(g)
        PROVE  row' = row
    BY <2>2 DEF Step, Fill, Purge, Begin, Status, Login, StatusAgain, Memorize, Works, Refused,
       LiveRefused, Forget
  <2>3. ASSUME NEW g \in Clients, Open(g) \/ Fails(g)
        PROVE  row' = row
    BY <2>3 DEF Open, Fails
  <2>4. Revoke \/ Expire => row' = row
    BY DEF Revoke, Expire
  <2> QED
    BY <1>1, <2>1, <2>2, <2>3, <2>4 DEF Next
<1>3. cl[g].key \notin authorized \/ cl[g].raced
  BY <1>2 DEF DropRow, IInv, RefusedInv
<1>4. cl'[g].pc # cl[g].pc
  <2> DEFINE step == IF At(g, {"drop"}) THEN "login"
                     ELSE IF cl[g].live THEN "work" ELSE "refused"
  <2>1. /\ step \in {"login", "work", "refused"}
        /\ \E Q \in {{}, Between({"fill"})} : Moves(g, step, Q)
    BY <1>2, OvertakeMoves, GotoMoves DEF DropRow, IInv
  <2> QED
    BY <1>2, <2>1 DEF DropRow, Moves, At
<1> QED
  BY <1>3, <1>4

-----------------------------------------------------------------------------
\* Refused work ends the trust in the sessions of a bot, none that was replaced or
\* deleted is loaded, and a client spares its own good session: for any number of
\* clients, live ones among them, keys and revocations, with the escapes each part names.
THEOREM TrustIsEarned ==
  ASSUME EnoughKeys
  PROVE  Spec => TrustEarned
<1>1. IInv => MemoVouched /\ EntryFollowsRow
  BY DEF IInv
<1>2. IInv /\ [Next]_vars =>
        [(row \in authorized /\ row' = None) =>
           \E g \in Clients : cl'[g] # cl[g] /\ (cl[g].key # row \/ cl[g].raced)]_vars
  BY GoodRowSpared
<1>3. Spec => [](MemoVouched /\ EntryFollowsRow)
  BY <1>1, AuthInvariance, PTL
<1>4. Spec => OwnSessionSpared
  BY <1>2, AuthInvariance, PTL DEF Spec, OwnSessionSpared
<1> QED
  BY <1>3, <1>4 DEF TrustEarned

\* The variables keep their types, and exactly the clients that are open have a key.
THEOREM AuthTypes ==
  ASSUME EnoughKeys
  PROVE  Spec => []TypeOK
<1>1. IInv => TypeOK
  BY DEF IInv
<1> QED
  BY <1>1, AuthInvariance, PTL
=============================================================================
