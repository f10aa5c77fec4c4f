---------------------------- MODULE StreamProofs ----------------------------
(***************************************************************************)
(* The safety of streams and uploads: the bots that those of a user share, *)
(* and the body of a stream, for any files, headers, sizes of chunks and   *)
(* of reads.  At the end, the types of all components of Services.         *)
(***************************************************************************)
EXTENDS ServiceProofs

-----------------------------------------------------------------------------
\* Uploads and streams of a user.
LEMMA BotsRun == Spec => Bots!StreamInit /\ [][Bots!StreamNext]_Bots!streamVars
<1>1. Init => Bots!StreamInit
  BY DEF Init
<1>2. [Next]_vars => [Bots!StreamNext]_Bots!streamVars
  BY DEF Next, vars, botsVars, Bots!streamVars, Bots!vars, Bots!rotationVars
<1> QED
  BY <1>1, <1>2, PTL DEF Spec

-----------------------------------------------------------------------------
(***************************************************************************)
(* The bots of a user: uploads and streams that draw them from one         *)
(* rotation.  What an upload knows is that the tokens drawn last, as many  *)
(* as its draws, are tokens it tried or saw passed over, as long as nobody *)
(* else draws; when its draws are as many as the tokens, these are all.    *)
(***************************************************************************)
\* How far position j lies behind cursor c: 1 for the last token drawn.
Behind(j, c) == IF j < c THEN c - j ELSE c - j + Bots!N

\* The position i steps after c.
After(c, i) == (c + i) % Bots!N

\* A draw i steps after the cursor moves it behind the token drawn: those at most k + 1 behind it
\* now were at most k behind it, or are drawn or passed over.
LEMMA DrawCovers ==
  ASSUME NEW w \in Nat \ {0}, w = Bots!N,
         NEW c \in 0..(w - 1), NEW i \in 0..(w - 1), NEW d, d = After(c, i + 1),
         NEW j \in 0..(w - 1), NEW k \in Nat
  PROVE  /\ d \in 0..(w - 1)
         /\ Behind(j, d) \in Nat /\ 0 < Behind(j, d) /\ Behind(j, d) <= w
         /\ Behind(j, d) <= k + 1 => \/ Behind(j, c) <= k
                                     \/ \E m \in 0..i : j = After(c, m)
<1>1. c + i + 1 \in Nat /\ c + i + 1 < 2 * w
  OBVIOUS
<1>2. d = IF c + i + 1 < w THEN c + i + 1 ELSE c + i + 1 - w
  <2> DEFINE x == c + i + 1
  <2>1. x \in Nat /\ x < 2 * w /\ d = x % w
    BY <1>1 DEF After
  <2> HIDE DEF x
  <2>2. x % w = IF x < w THEN x ELSE x - w
    BY <2>1, ModOnce
  <2>3. QED
    BY <2>1, <2>2 DEF x
<1>3. /\ d \in 0..(w - 1)
      /\ Behind(j, d) \in Nat /\ 0 < Behind(j, d) /\ Behind(j, d) <= w
  BY <1>2 DEF Behind
<1>4. ASSUME Behind(j, d) <= k + 1, Behind(j, c) > k
      PROVE  \E m \in 0..i : j = After(c, m)
  <2> DEFINE m == IF j >= c THEN j - c ELSE j - c + w
  <2>1. m \in 0..i
    BY <1>2, <1>4 DEF Behind
  <2> DEFINE x == c + m
  <2>2. x \in Nat /\ x < 2 * w /\ (IF x < w THEN x ELSE x - w) = j
    BY <2>1
  <2>3. x % w = j
    <3> HIDE DEF x
    <3>1. x % w = IF x < w THEN x ELSE x - w
      BY <2>2, ModOnce
    <3>2. QED
      BY <2>2, <3>1
  <2>4. j = After(c, m)
    BY <2>3 DEF After
  <2> HIDE DEF m
  <2>5. QED
    BY <2>1, <2>4
<1>5. QED
  <2>1. Behind(j, c) \in Int
    BY DEF Behind
  <2>2. Behind(j, d) <= k + 1 => \/ Behind(j, c) <= k
                                 \/ \E m \in 0..i : j = After(c, m)
    BY <1>4, <2>1
  <2>3. QED
    BY <1>3, <2>2

\* Next skips only bots that have to wait.
LEMMA SkipsBounded ==
  ASSUME Bots!BotsGiven, cursor \in 0..(Bots!N - 1)
  PROVE  Bots!Skips \in 0..(Bots!N - 1)
<1> DEFINE w == Bots!N
           Free(i) == Bots!TokenAt(i) \notin flooded
           First(i) == Free(i) /\ \A j \in 0..(i - 1) : Bots!TokenAt(j) \in flooded
<1>1. w \in Nat \ {0}
  BY DEF Bots!BotsGiven, Bots!N
<1>2. CASE Bots!Bots \subseteq flooded
  BY <1>1, <1>2 DEF Bots!Skips
<1>3. CASE ~(Bots!Bots \subseteq flooded)
  <2>1. PICK i \in 1..w : TokenList[i] \notin flooded
    BY <1>3 DEF Bots!Bots
  <2>2. PICK k \in 0..(w - 1) : Free(k)
    <3> DEFINE k == IF i - 1 >= cursor THEN i - 1 - cursor ELSE i - 1 - cursor + w
           x == cursor + k
    <3>1. /\ k \in 0..(w - 1) /\ x \in Nat /\ x < 2 * w
          /\ (IF x < w THEN x ELSE x - w) = i - 1
      BY <1>1
    <3>2. x % w = IF x < w THEN x ELSE x - w
      <4> HIDE DEF x, w
      <4>1. QED
        BY <1>1, <3>1, ModOnce
    <3>3. (cursor + k) % w = i - 1
      BY <3>1, <3>2
    <3> HIDE DEF k
    <3>4. Free(k)
      BY <2>1, <3>3 DEF Bots!TokenAt
    <3> HIDE DEF Free
    <3>5. QED
      BY <3>1, <3>4
  <2>3. \E m \in 0..(w - 1) : First(m)
    <3>1. SUFFICES ASSUME \A m \in 0..(w - 1) : ~First(m) PROVE FALSE
      OBVIOUS
    <3>2. ASSUME NEW q \in Nat, q < w, \A x \in 0..(q - 1) : ~Free(x)
          PROVE  ~Free(q)
      BY <1>1, <3>1, <3>2
    <3> DEFINE NoneFree(m) == \A q \in 0..m : ~Free(q)
           S == {m \in Nat : m < w => NoneFree(m)}
    <3> HIDE DEF Free, w
    <3>3. 0 \in S
      BY <1>1, <3>2
    <3>4. \A m \in S : m + 1 \in S
      <4>1. ASSUME NEW m \in S, m + 1 < w
            PROVE  NoneFree(m + 1)
        <5>1. m \in Nat /\ m < w /\ NoneFree(m)
          BY <1>1, <4>1
        <5>2. \A x \in 0..((m + 1) - 1) : ~Free(x)
          BY <5>1
        <5>3. ~Free(m + 1)
          BY <3>2, <4>1, <5>1, <5>2
        <5>4. QED
          BY <5>1, <5>2, <5>3
      <4> HIDE DEF NoneFree
      <4>2. QED
        BY <4>1
    <3>5. S = Nat
      <4>1. S \in SUBSET Nat
        OBVIOUS
      <4> HIDE DEF S
      <4>2. QED
        BY <3>3, <3>4, <4>1, Induct
    <3>6. k \in Nat /\ k < w /\ k \in 0..k
      BY <1>1
    <3>7. NoneFree(k)
      BY <3>5, <3>6
    <3>8. QED
      BY <2>2, <3>6, <3>7
  <2>4. Bots!Skips = CHOOSE m \in 0..(w - 1) : First(m)
    BY <1>3 DEF Bots!Skips
  <2> HIDE DEF First
  <2>5. QED
    BY <2>3, <2>4
<1>4. QED
  BY <1>2, <1>3

\* An upload; ErrUploadFailed, when no error is there to report, is no result.
Uploading ==
  [pc : {"idle", "draw", "try", "sleep", "done"}, cycle : 0..MaxWaitCycles, draws : 0..Bots!N,
   tried : SUBSET Bots!Bots, bot : Bots!Bots \cup {None}, wait : BOOLEAN, failed : BOOLEAN,
   result : {"none", "ok", "error", "429", "last"}, passed : SUBSET Bots!Bots,
   alone : BOOLEAN, limited : SUBSET Bots!Bots]

\* Draws of its cycle, the one it tries included.
Drawn(r) == IF r.pc = "try" THEN r.draws + 1 ELSE r.draws

\* The tokens drawn last are those it tried or Next passed over.
CoveredFrom(r, c) ==
  \A j \in 0..(Bots!N - 1) : Behind(j, c) <= Drawn(r) => TokenList[j + 1] \in r.tried \cup r.passed

\* What an upload knows when the cursor is c: there is an error to report once a draw is
\* spent, one that waits was told to, and undisturbed it has met the tokens behind the cursor.
UploadOK(r, c) ==
  /\ r.pc = "idle" => r.draws = 0 /\ r.tried = {}
  /\ r.pc = "try" => r.draws < Bots!N /\ r.bot \in r.tried
  /\ r.pc = "draw" /\ (r.draws > 0 \/ r.tried # {}) => r.failed
  /\ r.pc = "sleep" => r.cycle < MaxWaitCycles
  /\ r.wait => r.limited # {}
  /\ r.alone /\ r.pc \in {"draw", "try"} => CoveredFrom(r, c)

\* The rotation and the uploads that draw from it.
UploadsInv ==
  /\ cursor \in 0..(Bots!N - 1) /\ flooded \subseteq Bots!Bots /\ blocked \subseteq Bots!Bots
  /\ up \in [Parts -> Uploading]
  /\ \A u \in Parts : UploadOK(up[u], cursor)

\* A stream.
Streaming ==
  [pc : {"idle", "choose", "send", "retry", "done"}, rounds : 0..Bots!N,
   token : Bots!Bots \cup {User, None}, live : BOOLEAN, attempt : {"first", "again", "last"},
   off : Nat, todo : Seq(Bots!Bots), body : Seq(Nat), outcome : {"none", "ok", "error", "auth"},
   served : SUBSET Bots!Bots]

\* An attempt that wrote as much as the body holds wrote all of it.
BodyOK(r) ==
  /\ r.off <= Len(r.body) /\ Len(r.body) <= Length
  /\ r.off = Len(r.body) => \A i \in 1..Len(r.body) : r.body[i] = i
  /\ r.outcome = "ok" => r.pc = "done" /\ r.body = [i \in 1..Length |-> i]

\* The bots that refused the stream are neither its bot nor on the list of those to try,
\* and the session of the user comes last.
RefusalOK(r) ==
  /\ r.pc \in {"idle", "choose"} \/ (r.attempt = "first" /\ r.pc # "done") => r.served = {}
  /\ r.pc = "send" =>
       /\ r.token \in Bots!Bots \cup {User} /\ r.token \notin r.served
       /\ r.attempt = "last" => r.token = User
  /\ r.pc \in {"idle", "choose"} => r.attempt = "first"
  /\ r.pc = "retry" => r.attempt = "again"
  /\ r.attempt = "again" =>
       /\ \A i \in 1..Len(r.todo) :
            r.todo[i] \notin r.served /\ (r.pc = "send" => r.todo[i] # r.token)
       /\ \A i, j \in 1..Len(r.todo) : r.todo[i] = r.todo[j] => i = j

\* The streams.
StreamsInv ==
  /\ st \in [Streams -> Streaming]
  /\ \A s \in Streams : BodyOK(st[s]) /\ RefusalOK(st[s])

\* Both.
BotsInv == UploadsInv /\ StreamsInv

\* The fields of an upload.
UploadFields == {"pc", "cycle", "draws", "tried", "bot", "wait", "failed", "result", "passed",
                 "alone", "limited"}

\* A record with these fields, and two that agree but for some of them.
IsUpload(q)   == DOMAIN q = UploadFields /\ q = [f \in UploadFields |-> q[f]]
AsIs(q, r, S) == \A f \in UploadFields \ S : q[f] = r[f]

\* An upload is a record of these fields, each with its type.
LEMMA UploadRecord ==
  /\ \A r \in Uploading : IsUpload(r)
  /\ \A r : /\ IsUpload(r)
            /\ r.pc \in {"idle", "draw", "try", "sleep", "done"}
            /\ r.cycle \in 0..MaxWaitCycles /\ r.draws \in 0..Bots!N
            /\ r.tried \in SUBSET Bots!Bots /\ r.bot \in Bots!Bots \cup {None}
            /\ r.wait \in BOOLEAN /\ r.failed \in BOOLEAN
            /\ r.result \in {"none", "ok", "error", "429", "last"}
            /\ r.passed \in SUBSET Bots!Bots
            /\ r.alone \in BOOLEAN /\ r.limited \in SUBSET Bots!Bots
            => r \in Uploading
<1>1. \A r \in Uploading : IsUpload(r)
  BY DEF Uploading, UploadFields, IsUpload
<1>2. ASSUME NEW r, IsUpload(r),
             r.pc \in {"idle", "draw", "try", "sleep", "done"},
             r.cycle \in 0..MaxWaitCycles, r.draws \in 0..Bots!N,
             r.tried \in SUBSET Bots!Bots, r.bot \in Bots!Bots \cup {None},
             r.wait \in BOOLEAN, r.failed \in BOOLEAN,
             r.result \in {"none", "ok", "error", "429", "last"},
             r.passed \in SUBSET Bots!Bots,
             r.alone \in BOOLEAN, r.limited \in SUBSET Bots!Bots
      PROVE  r \in Uploading
  BY <1>2 DEF Uploading, UploadFields, IsUpload
<1>3. QED
  BY <1>1, <1>2

\* A user has a number of bots.
LEMMA BotNumbers ==
  ASSUME Bots!BotsGiven
  PROVE  Bots!N \in Nat \ {0} /\ MaxWaitCycles \in Nat /\ Length \in Nat
BY DEF Bots!BotsGiven, Bots!N

\* One more draw, of the token i steps after the cursor; those before it were passed over.
LEMMA DrawCovered ==
  ASSUME Bots!BotsGiven, NEW c \in 0..(Bots!N - 1), NEW i \in 0..(Bots!N - 1),
         NEW r \in Uploading, NEW q \in Uploading, CoveredFrom(r, c), Drawn(q) = Drawn(r) + 1,
         Drawn(r) \in Nat,
         \A x \in 0..i : TokenList[After(c, x) + 1] \in q.tried \cup q.passed,
         r.tried \subseteq q.tried, r.passed \subseteq q.passed
  PROVE  CoveredFrom(q, After(c, i + 1))
<1> DEFINE w == Bots!N
           d == After(c, i + 1)
           k == Drawn(r)
<1>1. w \in Nat \ {0}
  BY BotNumbers
<1>2. ASSUME NEW j \in 0..(w - 1), Behind(j, d) <= k + 1
      PROVE  TokenList[j + 1] \in q.tried \cup q.passed
  <2>1. Behind(j, c) <= k \/ \E m \in 0..i : j = After(c, m)
    <3>1. w = Bots!N /\ k \in Nat /\ c \in 0..(w - 1) /\ i \in 0..(w - 1)
      OBVIOUS
    <3> HIDE DEF w, k
    <3>2. QED
      BY <1>1, <1>2, <3>1, DrawCovers
  <2>2. CASE Behind(j, c) <= k
    BY <2>2 DEF CoveredFrom
  <2>3. CASE \E m \in 0..i : j = After(c, m)
    BY <2>3
  <2>4. QED
    BY <2>1, <2>2, <2>3
<1>3. QED
  BY <1>2 DEF CoveredFrom

\* The upload begins: no token drawn yet.
LEMMA UploadStarts ==
  ASSUME Bots!BotsGiven, NEW r \in Uploading, NEW c \in 0..(Bots!N - 1), UploadOK(r, c),
         r.pc = "idle"
  PROVE  LET q == [r EXCEPT !.pc = "draw"]
         IN  q \in Uploading /\ UploadOK(q, c)
<1> DEFINE q == [r EXCEPT !.pc = "draw"]
<1>1. /\ q.pc = "draw"
      /\ AsIs(q, r, {"pc"})
      /\ IsUpload(q)
  BY UploadRecord DEF AsIs, IsUpload, UploadFields
<1> HIDE DEF q
<1>2. /\ q.cycle = r.cycle /\ q.draws = r.draws /\ q.tried = r.tried /\ q.bot = r.bot
      /\ q.wait = r.wait /\ q.failed = r.failed /\ q.result = r.result /\ q.passed = r.passed
      /\ q.alone = r.alone /\ q.limited = r.limited
  BY <1>1 DEF AsIs, UploadFields
<1>3. q \in Uploading
  BY <1>1, <1>2, UploadRecord DEF Uploading
<1>4. CoveredFrom(q, c)
  <2>1. Bots!N \in Nat \ {0} /\ r.draws = 0
    BY BotNumbers DEF UploadOK
  <2>2. \A j \in 0..(Bots!N - 1) : ~(Behind(j, c) <= 0)
    BY <2>1 DEF Behind
  <2>3. QED
    BY <1>1, <1>2, <2>1, <2>2 DEF CoveredFrom, Drawn
<1>5. UploadOK(q, c)
  BY <1>1, <1>2, <1>4 DEF UploadOK
<1>6. QED
  BY <1>3, <1>5 DEF q

\* The bot that was drawn has been tried in this cycle: the draw is spent.
LEMMA UploadAgain ==
  ASSUME Bots!BotsGiven, NEW r \in Uploading, NEW c \in 0..(Bots!N - 1), UploadOK(r, c),
         r.pc = "draw", r.draws < Bots!N, NEW i \in 0..(Bots!N - 1),
         NEW b \in Bots!Bots, b = TokenList[After(c, i) + 1], NEW over \in SUBSET Bots!Bots,
         \A x \in 0..(i - 1) : TokenList[After(c, x) + 1] \in over, b \in r.tried
  PROVE  LET q == [r EXCEPT !.draws = @ + 1, !.passed = @ \cup over]
         IN  q \in Uploading /\ UploadOK(q, After(c, i + 1))
<1> DEFINE q == [r EXCEPT !.draws = @ + 1, !.passed = @ \cup over]
<1>1. /\ q.draws = r.draws + 1 /\ q.passed = r.passed \cup over
      /\ AsIs(q, r, {"draws", "passed"})
      /\ IsUpload(q)
  BY UploadRecord DEF AsIs, IsUpload, UploadFields
<1> HIDE DEF q
<1>2. /\ q.pc = r.pc /\ q.cycle = r.cycle /\ q.tried = r.tried /\ q.bot = r.bot
      /\ q.wait = r.wait /\ q.failed = r.failed /\ q.result = r.result /\ q.alone = r.alone
      /\ q.limited = r.limited
  BY <1>1 DEF AsIs, UploadFields
<1>3. q \in Uploading
  <2>1. r.draws + 1 \in 0..Bots!N
    BY BotNumbers DEF Uploading
  <2>2. r.passed \cup over \in SUBSET Bots!Bots
    BY DEF Uploading
  <2>3. QED
    BY <1>1, <1>2, <2>1, <2>2, UploadRecord DEF Uploading
<1>4. r.alone => CoveredFrom(q, After(c, i + 1))
  <2>1. Drawn(r) = r.draws /\ Drawn(q) = Drawn(r) + 1 /\ Drawn(r) \in Nat
    BY <1>1, <1>2 DEF Drawn, Uploading
  <2>2. \A x \in 0..i : TokenList[After(c, x) + 1] \in q.tried \cup q.passed
    <3>1. ASSUME NEW x \in 0..i
          PROVE  TokenList[After(c, x) + 1] \in q.tried \cup q.passed
      <4>1. CASE x = i
        BY <1>1, <1>2, <4>1
      <4>2. CASE x \in 0..(i - 1)
        BY <1>1, <4>2
      <4>3. QED
        BY <4>1, <4>2
    <3>2. QED
      BY <3>1
  <2>3. r.tried \subseteq q.tried /\ r.passed \subseteq q.passed
    BY <1>1, <1>2
  <2>4. r.alone => CoveredFrom(r, c)
    BY DEF UploadOK
  <2>5. QED
    BY <1>3, <2>1, <2>2, <2>3, <2>4, DrawCovered
<1>5. UploadOK(q, After(c, i + 1))
  BY <1>1, <1>2, <1>4 DEF UploadOK
<1>6. QED
  BY <1>3, <1>5 DEF q

\* The bot that was drawn is tried.
LEMMA UploadTries ==
  ASSUME Bots!BotsGiven, NEW r \in Uploading, NEW c \in 0..(Bots!N - 1), UploadOK(r, c),
         r.pc = "draw", r.draws < Bots!N, NEW i \in 0..(Bots!N - 1),
         NEW b \in Bots!Bots, b = TokenList[After(c, i) + 1], NEW over \in SUBSET Bots!Bots,
         \A x \in 0..(i - 1) : TokenList[After(c, x) + 1] \in over, b \notin r.tried
  PROVE  LET q == [r EXCEPT !.pc = "try", !.bot = b, !.tried = @ \cup {b}, !.passed = @ \cup over]
         IN  q \in Uploading /\ UploadOK(q, After(c, i + 1))
<1> DEFINE q == [r EXCEPT !.pc = "try", !.bot = b, !.tried = @ \cup {b}, !.passed = @ \cup over]
<1>1. /\ q.pc = "try" /\ q.bot = b /\ q.tried = r.tried \cup {b} /\ q.passed = r.passed \cup over
      /\ AsIs(q, r, {"pc", "bot", "tried", "passed"})
      /\ IsUpload(q)
  BY UploadRecord DEF AsIs, IsUpload, UploadFields
<1> HIDE DEF q
<1>2. /\ q.cycle = r.cycle /\ q.draws = r.draws /\ q.wait = r.wait /\ q.failed = r.failed
      /\ q.result = r.result /\ q.alone = r.alone /\ q.limited = r.limited
  BY <1>1 DEF AsIs, UploadFields
<1>3. q \in Uploading
  BY <1>1, <1>2, UploadRecord DEF Uploading
<1>4. r.alone => CoveredFrom(q, After(c, i + 1))
  <2>1. Drawn(r) = r.draws /\ Drawn(q) = Drawn(r) + 1 /\ Drawn(r) \in Nat
    BY <1>1, <1>2 DEF Drawn, Uploading
  <2>2. \A x \in 0..i : TokenList[After(c, x) + 1] \in q.tried \cup q.passed
    <3>1. ASSUME NEW x \in 0..i
          PROVE  TokenList[After(c, x) + 1] \in q.tried \cup q.passed
      <4>1. CASE x = i
        BY <1>1, <1>2, <4>1
      <4>2. CASE x \in 0..(i - 1)
        BY <1>1, <4>2
      <4>3. QED
        BY <4>1, <4>2
    <3>2. QED
      BY <3>1
  <2>3. r.tried \subseteq q.tried /\ r.passed \subseteq q.passed
    BY <1>1, <1>2
  <2>4. r.alone => CoveredFrom(r, c)
    BY DEF UploadOK
  <2>5. QED
    BY <1>3, <2>1, <2>2, <2>3, <2>4, DrawCovered
<1>5. UploadOK(q, After(c, i + 1))
  BY <1>1, <1>2, <1>4 DEF UploadOK
<1>6. QED
  BY <1>3, <1>5 DEF q

\* The bot refuses: there is an error to report.
LEMMA UploadRefused ==
  ASSUME Bots!BotsGiven, NEW r \in Uploading, NEW c \in 0..(Bots!N - 1), UploadOK(r, c),
         r.pc = "try"
  PROVE  LET q == [r EXCEPT !.pc = "draw", !.draws = @ + 1, !.bot = None, !.failed = TRUE]
         IN  q \in Uploading /\ UploadOK(q, c)
<1> DEFINE q == [r EXCEPT !.pc = "draw", !.draws = @ + 1, !.bot = None, !.failed = TRUE]
<1>1. /\ q.pc = "draw" /\ q.draws = r.draws + 1 /\ q.bot = None /\ q.failed = TRUE
      /\ AsIs(q, r, {"pc", "draws", "bot", "failed"})
      /\ IsUpload(q)
  BY UploadRecord DEF AsIs, IsUpload, UploadFields
<1> HIDE DEF q
<1>2. /\ q.cycle = r.cycle /\ q.tried = r.tried /\ q.wait = r.wait /\ q.result = r.result
      /\ q.passed = r.passed /\ q.alone = r.alone /\ q.limited = r.limited
  BY <1>1 DEF AsIs, UploadFields
<1>3. q \in Uploading
  <2>1. r.draws + 1 \in 0..Bots!N
    BY BotNumbers DEF UploadOK, Uploading
  <2>2. QED
    BY <1>1, <1>2, <2>1, UploadRecord DEF Uploading
<1>4. r.alone => CoveredFrom(q, c)
  <2>1. Drawn(q) = Drawn(r)
    BY <1>1, <1>2 DEF Drawn
  <2>2. r.alone => CoveredFrom(r, c)
    BY DEF UploadOK
  <2>3. QED
    BY <1>2, <2>1, <2>2 DEF CoveredFrom
<1>5. UploadOK(q, c)
  BY <1>1, <1>2, <1>4 DEF UploadOK
<1>6. QED
  BY <1>3, <1>5 DEF q

\* The bot asks to wait.
LEMMA UploadLimited ==
  ASSUME Bots!BotsGiven, NEW r \in Uploading, NEW c \in 0..(Bots!N - 1), UploadOK(r, c),
         r.pc = "try"
  PROVE  LET q == [r EXCEPT !.pc = "draw", !.draws = @ + 1, !.bot = None, !.failed = TRUE,
                           !.wait = TRUE, !.limited = @ \cup {r.bot}]
         IN  q \in Uploading /\ UploadOK(q, c)
<1> DEFINE q == [r EXCEPT !.pc = "draw", !.draws = @ + 1, !.bot = None, !.failed = TRUE,
                           !.wait = TRUE, !.limited = @ \cup {r.bot}]
<1>1. /\ q.pc = "draw" /\ q.draws = r.draws + 1 /\ q.bot = None /\ q.failed = TRUE
      /\ q.wait = TRUE /\ q.limited = r.limited \cup {r.bot}
      /\ AsIs(q, r, {"pc", "draws", "bot", "failed", "wait", "limited"})
      /\ IsUpload(q)
  BY UploadRecord DEF AsIs, IsUpload, UploadFields
<1> HIDE DEF q
<1>2. /\ q.cycle = r.cycle /\ q.tried = r.tried /\ q.result = r.result /\ q.passed = r.passed
      /\ q.alone = r.alone
  BY <1>1 DEF AsIs, UploadFields
<1>3. q \in Uploading
  <2>1. r.draws + 1 \in 0..Bots!N
    BY BotNumbers DEF UploadOK, Uploading
  <2>2. r.limited \cup {r.bot} \in SUBSET Bots!Bots
    BY DEF UploadOK, Uploading
  <2>3. QED
    BY <1>1, <1>2, <2>1, <2>2, UploadRecord DEF Uploading
<1>4. r.alone => CoveredFrom(q, c)
  <2>1. Drawn(q) = Drawn(r)
    BY <1>1, <1>2 DEF Drawn
  <2>2. r.alone => CoveredFrom(r, c)
    BY DEF UploadOK
  <2>3. QED
    BY <1>2, <2>1, <2>2 DEF CoveredFrom
<1>5. UploadOK(q, c)
  BY <1>1, <1>2, <1>4 DEF UploadOK
<1>6. QED
  BY <1>3, <1>5 DEF q

\* The draws are spent and a bot asked to wait.
LEMMA UploadSleeps ==
  ASSUME Bots!BotsGiven, NEW r \in Uploading, NEW c \in 0..(Bots!N - 1), UploadOK(r, c),
         r.pc = "draw", r.cycle < MaxWaitCycles
  PROVE  LET q == [r EXCEPT !.pc = "sleep"]
         IN  q \in Uploading /\ UploadOK(q, c)
<1> DEFINE q == [r EXCEPT !.pc = "sleep"]
<1>1. /\ q.pc = "sleep"
      /\ AsIs(q, r, {"pc"})
      /\ IsUpload(q)
  BY UploadRecord DEF AsIs, IsUpload, UploadFields
<1> HIDE DEF q
<1>2. /\ q.cycle = r.cycle /\ q.draws = r.draws /\ q.tried = r.tried /\ q.bot = r.bot
      /\ q.wait = r.wait /\ q.failed = r.failed /\ q.result = r.result /\ q.passed = r.passed
      /\ q.alone = r.alone /\ q.limited = r.limited
  BY <1>1 DEF AsIs, UploadFields
<1>3. q \in Uploading
  BY <1>1, <1>2, UploadRecord DEF Uploading
<1>5. UploadOK(q, c)
  BY <1>1, <1>2 DEF UploadOK
<1>6. QED
  BY <1>3, <1>5 DEF q

\* Another cycle: nothing drawn, nothing tried.
LEMMA UploadWakes ==
  ASSUME Bots!BotsGiven, NEW r \in Uploading, NEW c \in 0..(Bots!N - 1), UploadOK(r, c),
         r.pc = "sleep"
  PROVE  LET q == [r EXCEPT !.draws = 0, !.tried = {}, !.passed = {}, !.alone = TRUE,
                           !.limited = {}, !.pc = "draw", !.wait = FALSE, !.cycle = @ + 1]
         IN  q \in Uploading /\ UploadOK(q, c)
<1> DEFINE q == [r EXCEPT !.draws = 0, !.tried = {}, !.passed = {}, !.alone = TRUE,
                           !.limited = {}, !.pc = "draw", !.wait = FALSE, !.cycle = @ + 1]
<1>1. /\ q.draws = 0 /\ q.tried = {} /\ q.passed = {} /\ q.alone = TRUE
      /\ q.limited = {} /\ q.pc = "draw" /\ q.wait = FALSE /\ q.cycle = r.cycle + 1
      /\ AsIs(q, r, {"draws", "tried", "passed", "alone", "limited", "pc", "wait", "cycle"})
      /\ IsUpload(q)
  BY UploadRecord DEF AsIs, IsUpload, UploadFields
<1> HIDE DEF q
<1>2. /\ q.bot = r.bot /\ q.failed = r.failed /\ q.result = r.result
  BY <1>1 DEF AsIs, UploadFields
<1>3. q \in Uploading
  <2>1. r.cycle + 1 \in 0..MaxWaitCycles /\ 0 \in 0..Bots!N
    BY BotNumbers DEF UploadOK, Uploading
  <2>2. QED
    BY <1>1, <1>2, <2>1, UploadRecord DEF Uploading
<1>4. CoveredFrom(q, c)
  <2>1. Bots!N \in Nat \ {0}
    BY BotNumbers
  <2>2. \A j \in 0..(Bots!N - 1) : ~(Behind(j, c) <= 0)
    BY <2>1 DEF Behind
  <2>3. QED
    BY <1>1, <1>2, <2>1, <2>2 DEF CoveredFrom, Drawn
<1>5. UploadOK(q, c)
  BY <1>1, <1>2, <1>4 DEF UploadOK
<1>6. QED
  BY <1>3, <1>5 DEF q

\* Somebody else draws.
LEMMA UploadDisturbed ==
  ASSUME Bots!BotsGiven, NEW r \in Uploading, NEW c \in 0..(Bots!N - 1), UploadOK(r, c),
         NEW d \in 0..(Bots!N - 1)
  PROVE  LET q == [r EXCEPT !.alone = FALSE]
         IN  q \in Uploading /\ UploadOK(q, d)
<1> DEFINE q == [r EXCEPT !.alone = FALSE]
<1>1. /\ q.alone = FALSE
      /\ AsIs(q, r, {"alone"})
      /\ IsUpload(q)
  BY UploadRecord DEF AsIs, IsUpload, UploadFields
<1> HIDE DEF q
<1>2. /\ q.pc = r.pc /\ q.cycle = r.cycle /\ q.draws = r.draws /\ q.tried = r.tried
      /\ q.bot = r.bot /\ q.wait = r.wait /\ q.failed = r.failed /\ q.result = r.result
      /\ q.passed = r.passed /\ q.limited = r.limited
  BY <1>1 DEF AsIs, UploadFields
<1>3. q \in Uploading
  BY <1>1, <1>2, UploadRecord DEF Uploading
<1>5. UploadOK(q, d)
  BY <1>1, <1>2 DEF UploadOK
<1>6. QED
  BY <1>3, <1>5 DEF q

\* An upload that was answered, and one that has not begun.
LEMMA UploadEnds ==
  ASSUME Bots!BotsGiven, NEW c, NEW x \in {"ok", "error", "429", "last"}
  PROVE  /\ LET q == [Bots!Idle EXCEPT !.pc = "done", !.result = x]
            IN  q \in Uploading /\ UploadOK(q, c) /\ q.result = x
         /\ Bots!Idle \in Uploading /\ UploadOK(Bots!Idle, c)
<1>1. 0 \in 0..Bots!N /\ 0 \in 0..MaxWaitCycles
  BY BotNumbers
<1>2. Bots!Idle \in Uploading /\ IsUpload(Bots!Idle)
  BY <1>1, UploadRecord DEF Uploading, Bots!Idle
<1> DEFINE q == [Bots!Idle EXCEPT !.pc = "done", !.result = x]
           r == Bots!Idle
<1>3. q.pc = "done" /\ q.result = x /\ AsIs(q, r, {"pc", "result"}) /\ IsUpload(q)
  BY <1>2 DEF AsIs, IsUpload, UploadFields
<1> HIDE DEF q
<1>4. /\ q.cycle = r.cycle /\ q.draws = r.draws /\ q.tried = r.tried /\ q.bot = r.bot
      /\ q.wait = r.wait /\ q.failed = r.failed
      /\ q.passed = r.passed /\ q.alone = r.alone /\ q.limited = r.limited
  <2> HIDE DEF r
  <2>1. QED
    BY <1>3 DEF AsIs, UploadFields
<1>5. q \in Uploading
  <2> HIDE DEF r
  <2>1. r \in Uploading
    BY <1>2 DEF r
  <2>2. QED
    BY <1>3, <1>4, <2>1, UploadRecord DEF Uploading
<1>6. UploadOK(q, c)
  <2>1. ~q.wait
    BY <1>4 DEF Bots!Idle
  <2>2. QED
    BY <1>3, <2>1 DEF UploadOK
<1>7. UploadOK(Bots!Idle, c)
  BY DEF UploadOK, Bots!Idle
<1>8. QED
  BY <1>2, <1>3, <1>5, <1>6, <1>7 DEF q

\* Every position of the rotation has a token.
LEMMA TokenOfTurn ==
  ASSUME Bots!BotsGiven, NEW c \in 0..(Bots!N - 1), NEW i \in Nat
  PROVE  After(c, i) \in 0..(Bots!N - 1) /\ TokenList[After(c, i) + 1] \in Bots!Bots
<1> DEFINE w == Bots!N
           x == c + i
<1>1. w \in Nat \ {0} /\ x \in Nat
  BY BotNumbers
<1>2. x % w \in 0..(w - 1)
  <2> HIDE DEF w, x
  <2>1. QED
    BY <1>1, DivMod
<1>3. After(c, i) \in 0..(w - 1)
  BY <1>2 DEF After
<1>4. After(c, i) + 1 \in 1..w
  BY <1>1, <1>3
<1>5. QED
  BY <1>3, <1>4 DEF Bots!Bots

\* What Next names, leaves and passes over.
LEMMA DrawMoves ==
  ASSUME Bots!BotsGiven, cursor \in 0..(Bots!N - 1), NEW b, Bots!NextToken(b)
  PROVE  LET over == {Bots!TokenAt(i) : i \in 0..(Bots!Skips - 1)}
         IN  /\ Bots!Skips \in 0..(Bots!N - 1)
             /\ cursor' = After(cursor, Bots!Skips + 1) /\ cursor' \in 0..(Bots!N - 1)
             /\ b = TokenList[After(cursor, Bots!Skips) + 1] /\ b \in Bots!Bots
             /\ over \in SUBSET Bots!Bots
             /\ \A x \in 0..(Bots!Skips - 1) : TokenList[After(cursor, x) + 1] \in over
<1> DEFINE i == Bots!Skips
           over == {Bots!TokenAt(x) : x \in 0..(i - 1)}
<1>1. i \in 0..(Bots!N - 1) /\ i \in Nat /\ Bots!N \in Nat
  BY SkipsBounded, BotNumbers
<1>2. b = Bots!TokenAt(i) /\ cursor' = (cursor + i + 1) % Bots!N
  BY DEF Bots!NextToken
<1> HIDE DEF i
<1>3. cursor' = After(cursor, i + 1) /\ cursor' \in 0..(Bots!N - 1)
  <2>1. cursor + (i + 1) = cursor + i + 1 /\ i + 1 \in Nat
    BY <1>1
  <2>2. cursor' = After(cursor, i + 1)
    BY <1>2, <2>1 DEF After
  <2>3. QED
    BY <2>1, <2>2, TokenOfTurn
<1>4. \A x \in Nat : Bots!TokenAt(x) = TokenList[After(cursor, x) + 1]
  BY DEF Bots!TokenAt, After
<1>5. \A x \in Nat : Bots!TokenAt(x) \in Bots!Bots
  BY <1>4, TokenOfTurn
<1>6. \A x \in 0..(i - 1) : x \in Nat
  BY <1>1
<1>7. QED
  BY <1>1, <1>2, <1>3, <1>4, <1>5, <1>6 DEF i

\* One upload takes a step that leaves the rotation where it is.
LEMMA OneUpload ==
  ASSUME UploadsInv, NEW u \in Parts, NEW q \in Uploading, UploadOK(q, cursor),
         up' = [up EXCEPT ![u] = q], cursor' = cursor,
         flooded' \subseteq Bots!Bots, blocked' \subseteq Bots!Bots
  PROVE  UploadsInv'
<1>1. up' \in [Parts -> Uploading]
  BY DEF UploadsInv
<1>2. \A v \in Parts : up'[v] = IF v = u THEN q ELSE up[v]
  BY DEF UploadsInv
<1>3. \A v \in Parts : UploadOK(up'[v], cursor)
  BY <1>2 DEF UploadsInv
<1>4. QED
  BY <1>1, <1>3 DEF UploadsInv

\* Next is called: for upload u, or for a stream.
LEMMA UploadDraws ==
  ASSUME Bots!BotsGiven, UploadsInv, NEW d \in 0..(Bots!N - 1), cursor' = d,
         NEW mine, NEW who,
         up' = [v \in Parts |-> IF v = who THEN mine ELSE [up[v] EXCEPT !.alone = FALSE]],
         who \in Parts => mine \in Uploading /\ UploadOK(mine, d),
         UNCHANGED <<flooded, blocked>>
  PROVE  UploadsInv'
<1>1. ASSUME NEW v \in Parts
      PROVE  up'[v] \in Uploading /\ UploadOK(up'[v], d)
  <2>1. CASE v = who
    BY <2>1
  <2>2. CASE v # who
    <3> DEFINE r == up[v]
               q == [r EXCEPT !.alone = FALSE]
    <3>1. up'[v] = q /\ r \in Uploading /\ UploadOK(r, cursor) /\ cursor \in 0..(Bots!N - 1)
      BY <2>2 DEF UploadsInv
    <3> HIDE DEF r
    <3>2. q \in Uploading /\ UploadOK(q, d)
      BY <3>1, UploadDisturbed
    <3> HIDE DEF q
    <3>3. QED
      BY <3>1, <3>2
  <2>3. QED
    BY <2>1, <2>2
<1>2. up' \in [Parts -> Uploading]
  BY <1>1
<1>3. QED
  BY <1>1, <1>2 DEF UploadsInv

\* The request begins.
LEMMA BeginStep ==
  ASSUME Bots!BotsGiven, UploadsInv, NEW u \in Parts, Bots!Start(u)
  PROVE  UploadsInv'
<1> DEFINE r == up[u]
           q == [r EXCEPT !.pc = "draw"]
<1>1. r \in Uploading /\ UploadOK(r, cursor) /\ cursor \in 0..(Bots!N - 1)
  BY DEF UploadsInv
<1>2. r.pc = "idle"
  BY DEF Bots!Start
<1>3. up' = [up EXCEPT ![u] = q]
  BY DEF Bots!Start, UploadsInv
<1>4. cursor' = cursor /\ flooded' \subseteq Bots!Bots /\ blocked' \subseteq Bots!Bots
  BY DEF UploadsInv, Bots!Start, Bots!rotationVars
<1> HIDE DEF r
<1>5. q \in Uploading /\ UploadOK(q, cursor)
  BY <1>1, <1>2, UploadStarts
<1> HIDE DEF q
<1>6. QED
  BY <1>3, <1>4, <1>5, OneUpload

\* A bot refuses.
LEMMA RefusedStep ==
  ASSUME Bots!BotsGiven, UploadsInv, NEW u \in Parts, Bots!Refused(u)
  PROVE  UploadsInv'
<1> DEFINE r == up[u]
           q == [r EXCEPT !.pc = "draw", !.draws = @ + 1, !.bot = None, !.failed = TRUE]
<1>1. r \in Uploading /\ UploadOK(r, cursor) /\ cursor \in 0..(Bots!N - 1)
  BY DEF UploadsInv
<1>2. r.pc = "try"
  BY DEF Bots!Refused
<1>3. up' = [up EXCEPT ![u] = q]
  BY DEF Bots!Refused, UploadsInv
<1>4. cursor' = cursor /\ flooded' \subseteq Bots!Bots /\ blocked' \subseteq Bots!Bots
  BY <1>1, <1>2 DEF UploadsInv, Bots!Refused, Bots!BlockBot, UploadOK, Uploading
<1> HIDE DEF r
<1>5. q \in Uploading /\ UploadOK(q, cursor)
  BY <1>1, <1>2, UploadRefused
<1> HIDE DEF q
<1>6. QED
  BY <1>3, <1>4, <1>5, OneUpload

\* A bot asks to wait.
LEMMA LimitedStep ==
  ASSUME Bots!BotsGiven, UploadsInv, NEW u \in Parts, Bots!Limited(u)
  PROVE  UploadsInv'
<1> DEFINE r == up[u]
           q == [r EXCEPT !.pc = "draw", !.draws = @ + 1, !.bot = None, !.failed = TRUE,
                        !.wait = TRUE, !.limited = @ \cup {r.bot}]
<1>1. r \in Uploading /\ UploadOK(r, cursor) /\ cursor \in 0..(Bots!N - 1)
  BY DEF UploadsInv
<1>2. r.pc = "try"
  BY DEF Bots!Limited
<1>3. up' = [up EXCEPT ![u] = q]
  BY DEF Bots!Limited, UploadsInv
<1>4. cursor' = cursor /\ flooded' \subseteq Bots!Bots /\ blocked' \subseteq Bots!Bots
  BY <1>1, <1>2 DEF UploadsInv, Bots!Limited, Bots!MarkBlocked, UploadOK, Uploading
<1> HIDE DEF r
<1>5. q \in Uploading /\ UploadOK(q, cursor)
  BY <1>1, <1>2, UploadLimited
<1> HIDE DEF q
<1>6. QED
  BY <1>3, <1>4, <1>5, OneUpload

\* The request waits.
LEMMA SleepStep ==
  ASSUME Bots!BotsGiven, UploadsInv, NEW u \in Parts, Bots!Sleep(u)
  PROVE  UploadsInv'
<1> DEFINE r == up[u]
           q == [r EXCEPT !.pc = "sleep"]
<1>1. r \in Uploading /\ UploadOK(r, cursor) /\ cursor \in 0..(Bots!N - 1)
  BY DEF UploadsInv
<1>2. r.pc = "draw" /\ r.cycle < MaxWaitCycles
  BY DEF Bots!Sleep, Bots!Spent
<1>3. up' = [up EXCEPT ![u] = q]
  BY DEF Bots!Sleep, UploadsInv
<1>4. cursor' = cursor /\ flooded' \subseteq Bots!Bots /\ blocked' \subseteq Bots!Bots
  BY DEF UploadsInv, Bots!Sleep, Bots!rotationVars
<1> HIDE DEF r
<1>5. q \in Uploading /\ UploadOK(q, cursor)
  BY <1>1, <1>2, UploadSleeps
<1> HIDE DEF q
<1>6. QED
  BY <1>3, <1>4, <1>5, OneUpload

\* The request begins another cycle.
LEMMA WakeStep ==
  ASSUME Bots!BotsGiven, UploadsInv, NEW u \in Parts, Bots!Wake(u)
  PROVE  UploadsInv'
<1> DEFINE r == up[u]
           q == [r EXCEPT !.draws = 0, !.tried = {}, !.passed = {}, !.alone = TRUE, !.limited = {},
                        !.pc = "draw", !.wait = FALSE, !.cycle = @ + 1]
<1>1. r \in Uploading /\ UploadOK(r, cursor) /\ cursor \in 0..(Bots!N - 1)
  BY DEF UploadsInv
<1>2. r.pc = "sleep"
  BY DEF Bots!Wake
<1>3. up' = [up EXCEPT ![u] = q]
  BY DEF Bots!Wake, UploadsInv,Bots!FreshCycle
<1>4. cursor' = cursor /\ flooded' \subseteq Bots!Bots /\ blocked' \subseteq Bots!Bots
  BY DEF UploadsInv, Bots!Wake, Bots!rotationVars
<1> HIDE DEF r
<1>5. q \in Uploading /\ UploadOK(q, cursor)
  BY <1>1, <1>2, UploadWakes
<1> HIDE DEF q
<1>6. QED
  BY <1>3, <1>4, <1>5, OneUpload

\* The part is sent, or it fails for good.
LEMMA SettleStep ==
  ASSUME Bots!BotsGiven, UploadsInv, NEW u \in Parts, Bots!Settle(u)
  PROVE  UploadsInv' /\ up'[u].result \in {"ok", "error"} /\ \A v \in Parts \ {u} : up'[v] = up[v]
<1>1. PICK x \in {"ok", "error"} : Bots!Answer(u, x)
  BY DEF Bots!Settle
<1> DEFINE q == [Bots!Idle EXCEPT !.pc = "done", !.result = x]
<1>2. up' = [up EXCEPT ![u] = q]
  BY <1>1 DEF Bots!Answer
<1>3. q \in Uploading /\ UploadOK(q, cursor) /\ q.result = x
  BY <1>1, UploadEnds
<1>4. UNCHANGED <<cursor, flooded, blocked>>
  BY DEF Bots!Settle, Bots!rotationVars
<1> HIDE DEF q
<1>5. UploadsInv'
  BY <1>2, <1>3, <1>4, OneUpload DEF UploadsInv
<1>6. up'[u] = q /\ \A v \in Parts \ {u} : up'[v] = up[v]
  BY <1>2 DEF UploadsInv
<1>7. QED
  BY <1>1, <1>3, <1>5, <1>6

\* Every bot has been drawn in every cycle.  The 429 is for a bot that asked to wait, and
\* there is an error to report.
LEMMA ExhaustStep ==
  ASSUME Bots!BotsGiven, UploadsInv, NEW u \in Parts, Bots!Exhaust(u)
  PROVE  /\ UploadsInv'
         /\ up'[u].result = "429" => up[u].limited # {}
         /\ up'[u].result # "failed"
         /\ \A v \in Parts \ {u} : up'[v] = up[v]
<1> DEFINE r == up[u]
           x == IF r.wait THEN "429" ELSE IF r.failed THEN "last" ELSE "failed"
           q == [Bots!Idle EXCEPT !.pc = "done", !.result = x]
<1>1. r \in Uploading /\ UploadOK(r, cursor) /\ cursor \in 0..(Bots!N - 1)
  BY DEF UploadsInv
<1>2. r.pc = "draw" /\ r.draws = Bots!N
  BY DEF Bots!Exhaust, Bots!Spent
<1>3. up' = [up EXCEPT ![u] = q]
  BY DEF Bots!Exhaust, Bots!Answer
<1>4. UNCHANGED <<cursor, flooded, blocked>>
  BY DEF Bots!Exhaust, Bots!rotationVars
<1> HIDE DEF r
<1>5. r.failed
  BY <1>1, <1>2, BotNumbers DEF UploadOK
<1>6. x \in {"429", "last"} /\ (x = "429" => r.limited # {})
  BY <1>1, <1>5 DEF UploadOK, Uploading
<1> HIDE DEF x
<1>7. q \in Uploading /\ UploadOK(q, cursor) /\ q.result = x
  BY <1>6, UploadEnds
<1> HIDE DEF q
<1>8. UploadsInv'
  BY <1>3, <1>4, <1>7, OneUpload DEF UploadsInv
<1>9. up'[u] = q /\ \A v \in Parts \ {u} : up'[v] = up[v]
  BY <1>3 DEF UploadsInv
<1>10. QED
  BY <1>6, <1>7, <1>8, <1>9 DEF r

\* The request draws a bot.
LEMMA DrawStep ==
  ASSUME Bots!BotsGiven, UploadsInv, NEW u \in Parts, Bots!Draw(u)
  PROVE  UploadsInv' /\ \A v \in Parts : up'[v].result = up[v].result
<1> DEFINE r == up[u]
           c == cursor
           i == Bots!Skips
           over == {Bots!TokenAt(x) : x \in 0..(i - 1)}
           again == [r EXCEPT !.draws = @ + 1, !.passed = @ \cup over]
<1>1. r \in Uploading /\ UploadOK(r, c) /\ c \in 0..(Bots!N - 1)
  BY DEF UploadsInv
<1>2. r.pc = "draw" /\ r.draws < Bots!N /\ UNCHANGED <<flooded, blocked>>
  BY DEF Bots!Draw
<1>3. PICK b \in Bots!Bots :
        /\ Bots!NextToken(b)
        /\ LET mine == IF b \in r.tried THEN again
                       ELSE [r EXCEPT !.pc = "try", !.bot = b, !.tried = @ \cup {b},
                                      !.passed = @ \cup over]
           IN  up' = [v \in Parts |-> IF v = u THEN mine ELSE [up[v] EXCEPT !.alone = FALSE]]
  BY DEF Bots!Draw
<1> DEFINE tries == [r EXCEPT !.pc = "try", !.bot = b, !.tried = @ \cup {b}, !.passed = @ \cup over]
           mine == IF b \in r.tried THEN again ELSE tries
<1>4. up' = [v \in Parts |-> IF v = u THEN mine ELSE [up[v] EXCEPT !.alone = FALSE]]
  BY <1>3
<1>5. /\ i \in 0..(Bots!N - 1) /\ cursor' = After(c, i + 1) /\ cursor' \in 0..(Bots!N - 1)
      /\ b = TokenList[After(c, i) + 1] /\ over \in SUBSET Bots!Bots
      /\ \A x \in 0..(i - 1) : TokenList[After(c, x) + 1] \in over
  BY <1>1, <1>3, DrawMoves
<1> HIDE DEF r, c, i, over
<1>6. b \in r.tried => again \in Uploading /\ UploadOK(again, After(c, i + 1))
  BY <1>1, <1>2, <1>5, UploadAgain
<1>7. b \notin r.tried => tries \in Uploading /\ UploadOK(tries, After(c, i + 1))
  BY <1>1, <1>2, <1>5, UploadTries
<1>8. mine.result = r.result
  BY <1>1 DEF Uploading
<1> HIDE DEF again, tries
<1>9. mine \in Uploading /\ UploadOK(mine, cursor')
  BY <1>5, <1>6, <1>7
<1>10. \A v \in Parts : up'[v].result = up[v].result
  <2>1. ASSUME NEW v \in Parts
        PROVE  up'[v].result = up[v].result
    <3>1. CASE v = u
      <4>1. up'[v] = mine
        BY <1>4, <3>1
      <4> HIDE DEF mine
      <4>2. QED
        BY <1>8, <3>1, <4>1 DEF r
    <3>2. CASE v # u
      <4>1. up'[v] = [up[v] EXCEPT !.alone = FALSE] /\ up[v] \in Uploading
        BY <1>4, <3>2 DEF UploadsInv
      <4>2. QED
        BY <4>1 DEF Uploading
    <3>3. QED
      BY <3>1, <3>2
  <2>2. QED
    BY <2>1
<1> HIDE DEF mine
<1>11. QED
  BY <1>2, <1>4, <1>5, <1>9, <1>10, UploadDraws

\* Blocks come to their end.
LEMMA ExpiresStep ==
  ASSUME UploadsInv, Bots!BlockExpires, UNCHANGED up
  PROVE  UploadsInv'
<1>1. cursor' = cursor /\ flooded' \subseteq Bots!Bots /\ blocked' \subseteq Bots!Bots
  BY DEF Bots!BlockExpires, UploadsInv
<1>2. QED
  BY <1>1 DEF UploadsInv

\* A step of the uploads keeps what is known of them, and answers honestly.
LEMMA UploadSteps ==
  ASSUME Bots!BotsGiven, UploadsInv, Bots!Next
  PROVE  /\ UploadsInv'
         /\ \A u \in Parts : up'[u].result # up[u].result =>
              /\ up'[u].result = "429" => up[u].limited # {}
              /\ up'[u].result # "failed"
<1>1. ASSUME NEW u \in Parts, Bots!Request(u)
      PROVE  /\ UploadsInv'
             /\ \A v \in Parts : up'[v].result # up[v].result =>
                  /\ up'[v].result = "429" => up[v].limited # {}
                  /\ up'[v].result # "failed"
  <2> DEFINE Kept == \A v \in Parts : up'[v].result = up[v].result
  <2>1. CASE Bots!Draw(u)
    BY <2>1, DrawStep
  <2>2. CASE Bots!Settle(u)
    BY <2>2, SettleStep
  <2>3. CASE Bots!Exhaust(u)
    BY <2>3, ExhaustStep
  <2>4. CASE Bots!Start(u)
    <3>1. Kept
      BY <2>4 DEF Bots!Start, UploadsInv, Uploading
    <3>2. QED
      BY <2>4, <3>1, BeginStep
  <2>5. CASE Bots!Refused(u)
    <3>1. Kept
      BY <2>5 DEF Bots!Refused, UploadsInv, Uploading
    <3>2. QED
      BY <2>5, <3>1, RefusedStep
  <2>6. CASE Bots!Limited(u)
    <3>1. Kept
      BY <2>6 DEF Bots!Limited, UploadsInv, Uploading
    <3>2. QED
      BY <2>6, <3>1, LimitedStep
  <2>7. CASE Bots!Sleep(u)
    <3>1. Kept
      BY <2>7 DEF Bots!Sleep, UploadsInv, Uploading
    <3>2. QED
      BY <2>7, <3>1, SleepStep
  <2>8. CASE Bots!Wake(u)
    <3>1. Kept
      BY <2>8 DEF Bots!Wake, Bots!FreshCycle, UploadsInv, Uploading
    <3>2. QED
      BY <2>8, <3>1, WakeStep
  <2>9. QED
    BY <1>1, <2>1, <2>2, <2>3, <2>4, <2>5, <2>6, <2>7, <2>8 DEF Bots!Request
<1>2. CASE Bots!BlockExpires /\ UNCHANGED up
  BY <1>2, ExpiresStep
<1>3. QED
  BY <1>1, <1>2 DEF Bots!Next

\* The fields of a stream.
StreamFields == {"pc", "rounds", "token", "live", "attempt", "off", "todo", "body", "outcome",
                 "served"}
IsStream(q)     == DOMAIN q = StreamFields /\ q = [f \in StreamFields |-> q[f]]
StillIs(q, r, S) == \A f \in StreamFields \ S : q[f] = r[f]

\* A stream is a record of these fields, each with its type.
LEMMA StreamRecord ==
  /\ \A r \in Streaming : IsStream(r)
  /\ \A r : /\ IsStream(r)
            /\ r.pc \in {"idle", "choose", "send", "retry", "done"}
            /\ r.rounds \in 0..Bots!N
            /\ r.token \in Bots!Bots \cup {User, None}
            /\ r.live \in BOOLEAN
            /\ r.attempt \in {"first", "again", "last"}
            /\ r.off \in Nat
            /\ r.todo \in Seq(Bots!Bots)
            /\ r.body \in Seq(Nat)
            /\ r.outcome \in {"none", "ok", "error", "auth"}
            /\ r.served \in SUBSET Bots!Bots
            => r \in Streaming
<1>1. \A r \in Streaming : IsStream(r)
  BY DEF Streaming, StreamFields, IsStream
<1>2. ASSUME NEW r, IsStream(r),
             r.pc \in {"idle", "choose", "send", "retry", "done"},
             r.rounds \in 0..Bots!N,
             r.token \in Bots!Bots \cup {User, None},
             r.live \in BOOLEAN,
             r.attempt \in {"first", "again", "last"},
             r.off \in Nat,
             r.todo \in Seq(Bots!Bots),
             r.body \in Seq(Nat),
             r.outcome \in {"none", "ok", "error", "auth"},
             r.served \in SUBSET Bots!Bots
      PROVE  r \in Streaming
  BY <1>2 DEF Streaming, StreamFields, IsStream
<1>3. QED
  BY <1>1, <1>2

\* The bots that GetAvailableBots names, and those of them that are not b.
LEMMA BotLists ==
  ASSUME Bots!BotsGiven
  PROVE  /\ Bots!AvailableBots \in Seq(Bots!Bots) /\ Len(Bots!AvailableBots) \in 0..Bots!N
         /\ \A b : LET found == Bots!Keep(Bots!AvailableBots, Bots!Bots \ {b})
                   IN  /\ found \in Seq(Bots!Bots)
                       /\ \A i \in 1..Len(found) : found[i] # b
                       /\ \A i, j \in 1..Len(found) : found[i] = found[j] => i = j
<1> DEFINE T == Bots!Bots
           all == Bots!AvailableBots
<1>1. \A s, S : Bots!Keep(s, S) = Keep(s, S)
  BY DEF Bots!Keep, Keep
<1>2. /\ TokenList \in Seq(T) /\ Len(TokenList) = Bots!N /\ Bots!N \in Nat
      /\ \A i, j \in 1..Len(TokenList) : TokenList[i] = TokenList[j] => i = j
  BY BotNumbers DEF Bots!BotsGiven, Bots!N
<1>3. all = Keep(TokenList, T \ blocked)
  BY <1>1 DEF Bots!AvailableBots
<1> HIDE DEF T, all
<1>4. /\ all \in Seq(T) /\ Len(all) <= Len(TokenList) /\ Len(all) \in Nat
      /\ \A i, j \in 1..Len(all) : all[i] = all[j] => i = j
  <2>1. /\ Keep(TokenList, T \ blocked) \in Seq(T)
        /\ Len(Keep(TokenList, T \ blocked)) <= Len(TokenList)
        /\ \A i, j \in 1..Len(Keep(TokenList, T \ blocked)) :
              Keep(TokenList, T \ blocked)[i] = Keep(TokenList, T \ blocked)[j] => i = j
    BY <1>2, KeepMembers
  <2>2. Len(Keep(TokenList, T \ blocked)) \in Nat
    BY <2>1
  <2>3. QED
    BY <1>3, <2>1, <2>2, Zenon
<1>5. ASSUME NEW b
      PROVE  LET found == Bots!Keep(all, T \ {b})
             IN  /\ found \in Seq(T)
                 /\ \A i \in 1..Len(found) : found[i] # b
                 /\ \A i, j \in 1..Len(found) : found[i] = found[j] => i = j
  <2> DEFINE found == Keep(all, T \ {b})
  <2>1. /\ found \in Seq(T)
        /\ \A i \in 1..Len(found) : \E j \in 1..Len(all) : found[i] = all[j] /\ all[j] \in T \ {b}
        /\ \A i, j \in 1..Len(found) : found[i] = found[j] => i = j
    BY <1>4, KeepMembers
  <2>2. Bots!Keep(all, T \ {b}) = found
    BY <1>1
  <2> HIDE DEF found
  <2>3. QED
    BY <2>1, <2>2
<1>6. all \in Seq(T) /\ Len(all) \in 0..Bots!N
  BY <1>2, <1>4
<1>7. QED
  <2>1. \A b : LET found == Bots!Keep(all, T \ {b})
                IN  /\ found \in Seq(T)
                    /\ \A i \in 1..Len(found) : found[i] # b
                    /\ \A i, j \in 1..Len(found) : found[i] = found[j] => i = j
    BY <1>5
  <2>2. QED
    BY <1>6, <2>1 DEF T, all

\* A stream that has not begun.
LEMMA NoStreamYet ==
  ASSUME Bots!BotsGiven
  PROVE  Bots!NoStream \in Streaming /\ BodyOK(Bots!NoStream) /\ RefusalOK(Bots!NoStream)
<1> DEFINE r == Bots!NoStream
<1>1. r \in Streaming
  <2>1. 0 \in 0..Bots!N
    BY BotNumbers
  <2>2. QED
    BY <2>1 DEF Streaming, Bots!NoStream
<1>2. /\ r.body = <<>> /\ r.off = 0 /\ r.outcome = "none" /\ r.pc = "idle"
      /\ r.served = {} /\ r.attempt = "first"
  BY DEF Bots!NoStream
<1>3. BodyOK(r)
  BY <1>2, BotNumbers DEF BodyOK
<1>4. RefusalOK(r)
  BY <1>2 DEF RefusalOK
<1>5. QED
  BY <1>1, <1>3, <1>4

\* A client is given to a stream that begins.
LEMMA FirstSend ==
  ASSUME Bots!BotsGiven, NEW r \in Streaming, BodyOK(r), RefusalOK(r),
         r.pc \in {"idle", "choose"}, NEW b \in Bots!Bots \cup {User}
  PROVE  LET q == Bots!Send(r, b)
         IN  q \in Streaming /\ BodyOK(q) /\ RefusalOK(q)
<1> DEFINE q == Bots!Send(r, b)
<1>1. /\ q.pc = "send" /\ q.token = b /\ q.off = 0
      /\ StillIs(q, r, {"pc", "token", "off"}) /\ IsStream(q)
  BY StreamRecord DEF StillIs, IsStream, StreamFields, Bots!Send
<1> HIDE DEF q
<1>2. /\ q.rounds = r.rounds /\ q.live = r.live /\ q.attempt = r.attempt /\ q.todo = r.todo
      /\ q.body = r.body /\ q.outcome = r.outcome /\ q.served = r.served
  BY <1>1 DEF StillIs, StreamFields
<1>3. q \in Streaming
  <2>1. b \in Bots!Bots \cup {User, None} /\ 0 \in Nat
    OBVIOUS
  <2>2. QED
    BY <1>1, <1>2, <2>1, StreamRecord DEF Streaming
<1>4. BodyOK(q)
  <2>1. Len(r.body) \in Nat
    BY DEF Streaming
  <2>2. 0 = Len(r.body) => \A i \in 1..Len(r.body) : r.body[i] = i
    OBVIOUS
  <2>3. QED
    BY <1>1, <1>2, <2>1, <2>2 DEF BodyOK, Streaming
<1>5. RefusalOK(q)
  BY <1>1, <1>2 DEF RefusalOK
<1>6. QED
  BY <1>3, <1>4, <1>5 DEF q

\* A bot gives a client, live or not.
LEMMA LiveSend ==
  ASSUME Bots!BotsGiven, NEW r \in Streaming, BodyOK(r), RefusalOK(r),
         r.pc = "choose", NEW b \in Bots!Bots, NEW alive \in BOOLEAN
  PROVE  LET q == [Bots!Send(r, b) EXCEPT !.live = alive]
         IN  q \in Streaming /\ BodyOK(q) /\ RefusalOK(q)
<1> DEFINE q == [Bots!Send(r, b) EXCEPT !.live = alive]
<1>1. /\ q.pc = "send" /\ q.token = b /\ q.off = 0
      /\ q.live = alive
      /\ StillIs(q, r, {"pc", "token", "off", "live"}) /\ IsStream(q)
  BY StreamRecord DEF StillIs, IsStream, StreamFields, Bots!Send
<1> HIDE DEF q
<1>2. /\ q.rounds = r.rounds /\ q.attempt = r.attempt /\ q.todo = r.todo /\ q.body = r.body
      /\ q.outcome = r.outcome /\ q.served = r.served
  BY <1>1 DEF StillIs, StreamFields
<1>3. q \in Streaming
  <2>1. b \in Bots!Bots \cup {User, None} /\ 0 \in Nat
    OBVIOUS
  <2>2. QED
    BY <1>1, <1>2, <2>1, StreamRecord DEF Streaming
<1>4. BodyOK(q)
  <2>1. Len(r.body) \in Nat
    BY DEF Streaming
  <2>2. 0 = Len(r.body) => \A i \in 1..Len(r.body) : r.body[i] = i
    OBVIOUS
  <2>3. QED
    BY <1>1, <1>2, <2>1, <2>2 DEF BodyOK, Streaming
<1>5. RefusalOK(q)
  BY <1>1, <1>2 DEF RefusalOK
<1>6. QED
  BY <1>3, <1>4, <1>5 DEF q

\* There are bots to choose from.
LEMMA StreamChooses ==
  ASSUME Bots!BotsGiven, NEW r \in Streaming, BodyOK(r), RefusalOK(r),
         r.pc = "idle", NEW k \in 0..Bots!N
  PROVE  LET q == [r EXCEPT !.pc = "choose", !.rounds = k]
         IN  q \in Streaming /\ BodyOK(q) /\ RefusalOK(q)
<1> DEFINE q == [r EXCEPT !.pc = "choose", !.rounds = k]
<1>1. /\ q.pc = "choose" /\ q.rounds = k
      /\ StillIs(q, r, {"pc", "rounds"}) /\ IsStream(q)
  BY StreamRecord DEF StillIs, IsStream, StreamFields, Bots!Send
<1> HIDE DEF q
<1>2. /\ q.token = r.token /\ q.live = r.live /\ q.attempt = r.attempt /\ q.off = r.off
      /\ q.todo = r.todo /\ q.body = r.body /\ q.outcome = r.outcome /\ q.served = r.served
  BY <1>1 DEF StillIs, StreamFields
<1>3. q \in Streaming
  BY <1>1, <1>2, StreamRecord DEF Streaming
<1>4. BodyOK(q)
  BY <1>1, <1>2 DEF BodyOK
<1>5. RefusalOK(q)
  BY <1>1, <1>2 DEF RefusalOK
<1>6. QED
  BY <1>3, <1>4, <1>5 DEF q

\* A bot is skipped.
LEMMA StreamSkips ==
  ASSUME Bots!BotsGiven, NEW r \in Streaming, BodyOK(r), RefusalOK(r),
         r.pc = "choose", r.rounds > 0
  PROVE  LET q == [r EXCEPT !.rounds = @ - 1]
         IN  q \in Streaming /\ BodyOK(q) /\ RefusalOK(q)
<1> DEFINE q == [r EXCEPT !.rounds = @ - 1]
<1>1. /\ q.rounds = r.rounds - 1
      /\ StillIs(q, r, {"rounds"}) /\ IsStream(q)
  BY StreamRecord DEF StillIs, IsStream, StreamFields, Bots!Send
<1> HIDE DEF q
<1>2. /\ q.pc = r.pc /\ q.token = r.token /\ q.live = r.live /\ q.attempt = r.attempt
      /\ q.off = r.off /\ q.todo = r.todo /\ q.body = r.body /\ q.outcome = r.outcome
      /\ q.served = r.served
  BY <1>1 DEF StillIs, StreamFields
<1>3. q \in Streaming
  <2>1. r.rounds - 1 \in 0..Bots!N
    BY BotNumbers DEF Streaming
  <2>2. QED
    BY <1>1, <1>2, <2>1, StreamRecord DEF Streaming
<1>4. BodyOK(q)
  BY <1>1, <1>2 DEF BodyOK
<1>5. RefusalOK(q)
  BY <1>1, <1>2 DEF RefusalOK
<1>6. QED
  BY <1>3, <1>4, <1>5 DEF q

\* The stream ends; well only with its whole range written.
LEMMA StreamStops ==
  ASSUME Bots!BotsGiven, NEW r \in Streaming, BodyOK(r), RefusalOK(r),
         NEW o \in {"ok", "error", "auth"}, r.pc # "done",
         o = "ok" => r.pc = "send" /\ r.off = Length
  PROVE  LET q == [r EXCEPT !.pc = "done", !.outcome = o, !.todo = <<>>, !.served = {}]
         IN  q \in Streaming /\ BodyOK(q) /\ RefusalOK(q)
<1> DEFINE q == [r EXCEPT !.pc = "done", !.outcome = o, !.todo = <<>>, !.served = {}]
<1>1. /\ q.pc = "done" /\ q.outcome = o /\ q.todo = <<>>
      /\ q.served = {}
      /\ StillIs(q, r, {"pc", "outcome", "todo", "served"}) /\ IsStream(q)
  BY StreamRecord DEF StillIs, IsStream, StreamFields, Bots!Send
<1> HIDE DEF q
<1>2. /\ q.rounds = r.rounds /\ q.token = r.token /\ q.live = r.live /\ q.attempt = r.attempt
      /\ q.off = r.off /\ q.body = r.body
  BY <1>1 DEF StillIs, StreamFields
<1>3. q \in Streaming
  <2>1. <<>> \in Seq(Bots!Bots)
    OBVIOUS
  <2>2. QED
    BY <1>1, <1>2, <2>1, StreamRecord DEF Streaming
<1>4. BodyOK(q)
  <2>1. o = "ok" => r.body = [i \in 1..Length |-> i]
    <3>1. SUFFICES ASSUME o = "ok" PROVE r.body = [i \in 1..Length |-> i]
      OBVIOUS
    <3>2. r.body \in Seq(Nat) /\ Len(r.body) \in Nat /\ r.off \in Nat /\ Length \in Nat
      BY BotNumbers DEF Streaming
    <3>3. Len(r.body) = Length /\ \A i \in 1..Length : r.body[i] = i
      BY <3>1, <3>2 DEF BodyOK
    <3>4. QED
      BY <3>2, <3>3
  <2>2. QED
    BY <1>1, <1>2, <2>1 DEF BodyOK
<1>5. RefusalOK(q)
  BY <1>1, <1>2 DEF RefusalOK
<1>6. QED
  BY <1>3, <1>4, <1>5 DEF q

\* One more unit of the range is written.
LEMMA StreamWrites ==
  ASSUME Bots!BotsGiven, NEW r \in Streaming, BodyOK(r), RefusalOK(r),
         r.pc = "send", Len(r.body) < Length
  PROVE  LET q == [r EXCEPT !.body = Append(@, r.off + 1), !.off = @ + 1]
         IN  q \in Streaming /\ BodyOK(q) /\ RefusalOK(q)
<1> DEFINE q == [r EXCEPT !.body = Append(@, r.off + 1), !.off = @ + 1]
<1>1. /\ q.body = Append(r.body, r.off + 1) /\ q.off = r.off + 1
      /\ StillIs(q, r, {"body", "off"}) /\ IsStream(q)
  BY StreamRecord DEF StillIs, IsStream, StreamFields, Bots!Send
<1> HIDE DEF q
<1>2. /\ q.pc = r.pc /\ q.rounds = r.rounds /\ q.token = r.token /\ q.live = r.live
      /\ q.attempt = r.attempt /\ q.todo = r.todo /\ q.outcome = r.outcome /\ q.served = r.served
  BY <1>1 DEF StillIs, StreamFields
<1>3. q \in Streaming
  <2>1. r.off + 1 \in Nat /\ Append(r.body, r.off + 1) \in Seq(Nat)
    BY AppendProperties DEF Streaming
  <2>2. QED
    BY <1>1, <1>2, <2>1, StreamRecord DEF Streaming
<1>4. BodyOK(q)
  <2> DEFINE was == r.body
             x == r.off + 1
  <2>1. was \in Seq(Nat) /\ Len(was) \in Nat /\ x \in Nat /\ r.off \in Nat /\ Length \in Nat
    BY BotNumbers DEF Streaming
  <2>2. /\ Len(q.body) = Len(was) + 1 /\ q.body[Len(was) + 1] = x
        /\ \A i \in 1..Len(was) : q.body[i] = was[i]
    <3> HIDE DEF was, x
    <3>1. q.body = Append(was, x)
      BY <1>1 DEF was, x
    <3>2. QED
      BY <2>1, <3>1, AppendProperties
  <2>3. q.off = Len(q.body) => \A i \in 1..Len(q.body) : q.body[i] = i
    BY <1>1, <2>1, <2>2 DEF BodyOK
  <2>4. q.off <= Len(q.body) /\ Len(q.body) <= Length
    BY <1>1, <2>1, <2>2 DEF BodyOK
  <2>5. QED
    BY <1>1, <1>2, <2>3, <2>4 DEF BodyOK
<1>5. RefusalOK(q)
  BY <1>1, <1>2 DEF RefusalOK
<1>6. QED
  BY <1>3, <1>4, <1>5 DEF q

\* The bot refuses: it has served the stream, and is on no list.
LEMMA StreamIsRefused ==
  ASSUME Bots!BotsGiven, NEW r \in Streaming, BodyOK(r), RefusalOK(r),
         r.pc = "send", r.token # User, NEW left \in Seq(Bots!Bots),
         r.attempt # "first" => left = r.todo,
         \A i \in 1..Len(left) : left[i] # r.token,
         \A i, j \in 1..Len(left) : left[i] = left[j] => i = j
  PROVE  LET q == [r EXCEPT !.pc = "retry", !.attempt = "again",
                           !.served = @ \cup {r.token}, !.todo = left]
         IN  q \in Streaming /\ BodyOK(q) /\ RefusalOK(q)
<1> DEFINE q == [r EXCEPT !.pc = "retry", !.attempt = "again",
                           !.served = @ \cup {r.token}, !.todo = left]
<1>1. /\ q.pc = "retry" /\ q.attempt = "again" /\ q.served = r.served \cup {r.token}
      /\ q.todo = left
      /\ StillIs(q, r, {"pc", "attempt", "served", "todo"}) /\ IsStream(q)
  BY StreamRecord DEF StillIs, IsStream, StreamFields, Bots!Send
<1> HIDE DEF q
<1>2. /\ q.rounds = r.rounds /\ q.token = r.token /\ q.live = r.live /\ q.off = r.off
      /\ q.body = r.body /\ q.outcome = r.outcome
  BY <1>1 DEF StillIs, StreamFields
<1>3. q \in Streaming
  <2>1. r.served \cup {r.token} \in SUBSET Bots!Bots
    BY DEF Streaming, RefusalOK
  <2>2. QED
    BY <1>1, <1>2, <2>1, StreamRecord DEF Streaming
<1>4. BodyOK(q)
  BY <1>1, <1>2 DEF BodyOK
<1>5. RefusalOK(q)
  <2>1. r.attempt # "first" => r.attempt = "again"
    BY DEF RefusalOK, Streaming
  <2>2. r.attempt = "first" => r.served = {}
    BY DEF RefusalOK
  <2>3. \A i \in 1..Len(left) : left[i] \notin r.served
    BY <2>1, <2>2 DEF RefusalOK
  <2>4. QED
    BY <1>1, <1>2, <2>3 DEF RefusalOK
<1>6. QED
  BY <1>3, <1>4, <1>5 DEF q

\* The next bot of the list is passed over.
LEMMA StreamPasses ==
  ASSUME Bots!BotsGiven, NEW r \in Streaming, BodyOK(r), RefusalOK(r),
         r.pc = "retry", r.todo # <<>>
  PROVE  LET q == [r EXCEPT !.todo = Tail(@)]
         IN  q \in Streaming /\ BodyOK(q) /\ RefusalOK(q)
<1> DEFINE q == [r EXCEPT !.todo = Tail(@)]
<1>1. /\ q.todo = Tail(r.todo)
      /\ StillIs(q, r, {"todo"}) /\ IsStream(q)
  BY StreamRecord DEF StillIs, IsStream, StreamFields, Bots!Send
<1> HIDE DEF q
<1>2. /\ q.pc = r.pc /\ q.rounds = r.rounds /\ q.token = r.token /\ q.live = r.live
      /\ q.attempt = r.attempt /\ q.off = r.off /\ q.body = r.body /\ q.outcome = r.outcome
      /\ q.served = r.served
  BY <1>1 DEF StillIs, StreamFields
<1>3. q \in Streaming
  <2> DEFINE whole == r.todo
  <2>1. whole \in Seq(Bots!Bots) /\ whole # <<>>
    BY DEF Streaming
  <2>2. /\ Tail(whole) \in Seq(Bots!Bots) /\ Len(Tail(whole)) = Len(whole) - 1 /\ Len(whole) \in Nat
        /\ \A i \in 1..Len(Tail(whole)) : Tail(whole)[i] = whole[i + 1] /\ i + 1 \in 1..Len(whole)
        /\ Head(whole) = whole[1] /\ 1 \in 1..Len(whole) /\ Head(whole) \in Bots!Bots
    <3> HIDE DEF whole
    <3>1. QED
      BY <2>1, HeadTailProperties, ElementOfSeq
  <2>3. Tail(r.todo) \in Seq(Bots!Bots) /\ Head(r.todo) \in Bots!Bots /\ 0 \in Nat
    BY <2>2
  <2> HIDE DEF whole
  <2>4. QED
    BY <1>1, <1>2, <2>3, StreamRecord DEF Streaming
<1>4. BodyOK(q)
  BY <1>1, <1>2 DEF BodyOK
<1>5. RefusalOK(q)
  <2> DEFINE whole == r.todo
  <2>1. whole \in Seq(Bots!Bots) /\ whole # <<>>
    BY DEF Streaming
  <2>2. /\ Tail(whole) \in Seq(Bots!Bots) /\ Len(Tail(whole)) = Len(whole) - 1 /\ Len(whole) \in Nat
        /\ \A i \in 1..Len(Tail(whole)) : Tail(whole)[i] = whole[i + 1] /\ i + 1 \in 1..Len(whole)
        /\ Head(whole) = whole[1] /\ 1 \in 1..Len(whole) /\ Head(whole) \in Bots!Bots
    <3> HIDE DEF whole
    <3>1. QED
      BY <2>1, HeadTailProperties, ElementOfSeq
  <2>3. r.attempt = "again"
    BY DEF RefusalOK
  <2>4. /\ \A i \in 1..Len(whole) : whole[i] \notin r.served
        /\ \A i, j \in 1..Len(whole) : whole[i] = whole[j] => i = j
    BY <2>3 DEF RefusalOK
  <2>5. \A i \in 1..Len(Tail(whole)) :
        Tail(whole)[i] \notin r.served /\ Tail(whole)[i] # Head(whole)
    <3> HIDE DEF whole
    <3>1. QED
      BY <2>2, <2>4
  <2>6. \A i, j \in 1..Len(Tail(whole)) : Tail(whole)[i] = Tail(whole)[j] => i = j
    <3> HIDE DEF whole
    <3>1. QED
      BY <2>2, <2>4
  <2>7. Head(whole) \notin r.served /\ Head(whole) \in Bots!Bots
    BY <2>2, <2>4
  <2> HIDE DEF whole
  <2>8. q.todo = Tail(whole)
    BY <1>1 DEF whole
  <2>9. QED
    BY <1>1, <1>2, <2>3, <2>5, <2>6, <2>7, <2>8 DEF RefusalOK
<1>6. QED
  BY <1>3, <1>4, <1>5 DEF q

\* The next bot of the list serves the stream.
LEMMA StreamTriesNext ==
  ASSUME Bots!BotsGiven, NEW r \in Streaming, BodyOK(r), RefusalOK(r),
         r.pc = "retry", r.todo # <<>>
  PROVE  LET q == Bots!Send([r EXCEPT !.todo = Tail(@)], Head(r.todo))
         IN  q \in Streaming /\ BodyOK(q) /\ RefusalOK(q)
<1> DEFINE q == Bots!Send([r EXCEPT !.todo = Tail(@)], Head(r.todo))
<1>1. /\ q.pc = "send" /\ q.token = Head(r.todo) /\ q.off = 0
      /\ q.todo = Tail(r.todo)
      /\ StillIs(q, r, {"pc", "token", "off", "todo"}) /\ IsStream(q)
  BY StreamRecord DEF StillIs, IsStream, StreamFields, Bots!Send
<1> HIDE DEF q
<1>2. /\ q.rounds = r.rounds /\ q.live = r.live /\ q.attempt = r.attempt /\ q.body = r.body
      /\ q.outcome = r.outcome /\ q.served = r.served
  BY <1>1 DEF StillIs, StreamFields
<1>3. q \in Streaming
  <2> DEFINE whole == r.todo
  <2>1. whole \in Seq(Bots!Bots) /\ whole # <<>>
    BY DEF Streaming
  <2>2. /\ Tail(whole) \in Seq(Bots!Bots) /\ Len(Tail(whole)) = Len(whole) - 1 /\ Len(whole) \in Nat
        /\ \A i \in 1..Len(Tail(whole)) : Tail(whole)[i] = whole[i + 1] /\ i + 1 \in 1..Len(whole)
        /\ Head(whole) = whole[1] /\ 1 \in 1..Len(whole) /\ Head(whole) \in Bots!Bots
    <3> HIDE DEF whole
    <3>1. QED
      BY <2>1, HeadTailProperties, ElementOfSeq
  <2>3. Tail(r.todo) \in Seq(Bots!Bots) /\ Head(r.todo) \in Bots!Bots /\ 0 \in Nat
    BY <2>2
  <2> HIDE DEF whole
  <2>4. QED
    BY <1>1, <1>2, <2>3, StreamRecord DEF Streaming
<1>4. BodyOK(q)
  <2>1. Len(r.body) \in Nat
    BY DEF Streaming
  <2>2. 0 = Len(r.body) => \A i \in 1..Len(r.body) : r.body[i] = i
    OBVIOUS
  <2>3. QED
    BY <1>1, <1>2, <2>1, <2>2 DEF BodyOK, Streaming
<1>5. RefusalOK(q)
  <2> DEFINE whole == r.todo
  <2>1. whole \in Seq(Bots!Bots) /\ whole # <<>>
    BY DEF Streaming
  <2>2. /\ Tail(whole) \in Seq(Bots!Bots) /\ Len(Tail(whole)) = Len(whole) - 1 /\ Len(whole) \in Nat
        /\ \A i \in 1..Len(Tail(whole)) : Tail(whole)[i] = whole[i + 1] /\ i + 1 \in 1..Len(whole)
        /\ Head(whole) = whole[1] /\ 1 \in 1..Len(whole) /\ Head(whole) \in Bots!Bots
    <3> HIDE DEF whole
    <3>1. QED
      BY <2>1, HeadTailProperties, ElementOfSeq
  <2>3. r.attempt = "again"
    BY DEF RefusalOK
  <2>4. /\ \A i \in 1..Len(whole) : whole[i] \notin r.served
        /\ \A i, j \in 1..Len(whole) : whole[i] = whole[j] => i = j
    BY <2>3 DEF RefusalOK
  <2>5. \A i \in 1..Len(Tail(whole)) :
        Tail(whole)[i] \notin r.served /\ Tail(whole)[i] # Head(whole)
    <3> HIDE DEF whole
    <3>1. QED
      BY <2>2, <2>4
  <2>6. \A i, j \in 1..Len(Tail(whole)) : Tail(whole)[i] = Tail(whole)[j] => i = j
    <3> HIDE DEF whole
    <3>1. QED
      BY <2>2, <2>4
  <2>7. Head(whole) \notin r.served /\ Head(whole) \in Bots!Bots
    BY <2>2, <2>4
  <2> HIDE DEF whole
  <2>8. q.todo = Tail(whole) /\ q.token = Head(whole)
    BY <1>1 DEF whole
  <2>9. QED
    BY <1>1, <1>2, <2>3, <2>5, <2>6, <2>7, <2>8 DEF RefusalOK
<1>6. QED
  BY <1>3, <1>4, <1>5 DEF q

\* The session of the user, at last.
LEMMA StreamTriesUser ==
  ASSUME Bots!BotsGiven, NEW r \in Streaming, BodyOK(r), RefusalOK(r),
         r.pc = "retry"
  PROVE  LET q == [Bots!Send(r, User) EXCEPT !.attempt = "last"]
         IN  q \in Streaming /\ BodyOK(q) /\ RefusalOK(q)
<1> DEFINE q == [Bots!Send(r, User) EXCEPT !.attempt = "last"]
<1>1. /\ q.pc = "send" /\ q.token = User /\ q.off = 0
      /\ q.attempt = "last"
      /\ StillIs(q, r, {"pc", "token", "off", "attempt"}) /\ IsStream(q)
  BY StreamRecord DEF StillIs, IsStream, StreamFields, Bots!Send
<1> HIDE DEF q
<1>2. /\ q.rounds = r.rounds /\ q.live = r.live /\ q.todo = r.todo /\ q.body = r.body
      /\ q.outcome = r.outcome /\ q.served = r.served
  BY <1>1 DEF StillIs, StreamFields
<1>3. q \in Streaming
  <2>1. 0 \in Nat
    OBVIOUS
  <2>2. QED
    BY <1>1, <1>2, <2>1, StreamRecord DEF Streaming
<1>4. BodyOK(q)
  <2>1. Len(r.body) \in Nat
    BY DEF Streaming
  <2>2. 0 = Len(r.body) => \A i \in 1..Len(r.body) : r.body[i] = i
    OBVIOUS
  <2>3. QED
    BY <1>1, <1>2, <2>1, <2>2 DEF BodyOK, Streaming
<1>5. RefusalOK(q)
  <2>1. User \notin r.served
    BY DEF Streaming, Bots!BotsGiven
  <2>2. QED
    BY <1>1, <1>2, <2>1 DEF RefusalOK
<1>6. QED
  BY <1>3, <1>4, <1>5 DEF q

\* One stream takes a step.
LEMMA OneStream ==
  ASSUME StreamsInv, NEW s \in Streams, NEW q \in Streaming, BodyOK(q), RefusalOK(q),
         st' = [st EXCEPT ![s] = q]
  PROVE  StreamsInv'
<1>1. st' \in [Streams -> Streaming]
  BY DEF StreamsInv
<1>2. \A v \in Streams : st'[v] = IF v = s THEN q ELSE st[v]
  BY DEF StreamsInv
<1>3. \A v \in Streams : BodyOK(st'[v]) /\ RefusalOK(st'[v])
  BY <1>2 DEF StreamsInv
<1>4. QED
  BY <1>1, <1>3 DEF StreamsInv

\* The uploads when a stream calls Next.
LEMMA DisturbStep ==
  ASSUME Bots!BotsGiven, UploadsInv, NEW b, Bots!NextToken(b), Bots!Disturb,
         UNCHANGED <<flooded, blocked>>
  PROVE  UploadsInv' /\ b \in Bots!Bots /\ \A u \in Parts : up'[u].result = up[u].result
<1>1. cursor' \in 0..(Bots!N - 1) /\ b \in Bots!Bots
  BY DrawMoves DEF UploadsInv
<1>2. ASSUME NEW v \in Parts
      PROVE  up'[v] \in Uploading /\ UploadOK(up'[v], cursor') /\ up'[v].result = up[v].result
  <2> DEFINE r == up[v]
             q == [r EXCEPT !.alone = FALSE]
  <2>1. up'[v] = q /\ r \in Uploading /\ UploadOK(r, cursor) /\ cursor \in 0..(Bots!N - 1)
    BY DEF UploadsInv, Bots!Disturb
  <2> HIDE DEF r
  <2>2. q \in Uploading /\ UploadOK(q, cursor')
    BY <1>1, <2>1, UploadDisturbed
  <2>3. q.result = r.result
    BY <2>1 DEF Uploading
  <2> HIDE DEF q
  <2>4. QED
    BY <2>1, <2>2, <2>3 DEF r
<1>3. up' \in [Parts -> Uploading]
  BY <1>2 DEF Bots!Disturb
<1>4. QED
  BY <1>1, <1>2, <1>3 DEF UploadsInv

\* A stream ends.
LEMMA EndStep ==
  ASSUME Bots!BotsGiven, StreamsInv, NEW s \in Streams, NEW o \in {"ok", "error", "auth"},
         st[s].pc # "done", o = "ok" => st[s].pc = "send" /\ st[s].off = Length, Bots!End(s, o)
  PROVE  StreamsInv'
<1> DEFINE r == st[s]
           q == [r EXCEPT !.pc = "done", !.outcome = o, !.todo = <<>>, !.served = {}]
<1>1. r \in Streaming /\ BodyOK(r) /\ RefusalOK(r)
  BY DEF StreamsInv
<1>2. st' = [st EXCEPT ![s] = q]
  BY DEF Bots!End, StreamsInv
<1>3. q \in Streaming /\ BodyOK(q) /\ RefusalOK(q)
  <2> HIDE DEF q
  <2>1. r.pc # "done" /\ (o = "ok" => r.pc = "send" /\ r.off = Length)
    OBVIOUS
  <2> HIDE DEF r
  <2>2. QED
    BY <1>1, <2>1, StreamStops DEF q
<1> HIDE DEF q
<1>4. QED
  BY <1>2, <1>3, OneStream

\* The user's session, or a choice among the bots that are not blocked.
LEMMA OpenStep ==
  ASSUME Bots!BotsGiven, StreamsInv, NEW s \in Streams, Bots!OpenStream(s)
  PROVE  StreamsInv'
<1> DEFINE r == st[s]
           k == Len(Bots!AvailableBots)
           now1 == Bots!Send(r, User)
           picks == [r EXCEPT !.pc = "choose", !.rounds = k]
           q == IF Bots!AvailableBots = <<>> THEN now1 ELSE picks
<1>1. r \in Streaming /\ BodyOK(r) /\ RefusalOK(r) /\ r.pc = "idle" /\ k \in 0..Bots!N
  BY BotLists DEF StreamsInv, Bots!OpenStream
<1>2. st' = [st EXCEPT ![s] = q]
  BY DEF Bots!OpenStream, StreamsInv
<1> HIDE DEF r, k
<1>3. now1 \in Streaming /\ BodyOK(now1) /\ RefusalOK(now1)
  BY <1>1, FirstSend
<1>4. picks \in Streaming /\ BodyOK(picks) /\ RefusalOK(picks)
  BY <1>1, StreamChooses
<1> HIDE DEF now1, picks
<1>5. q \in Streaming /\ BodyOK(q) /\ RefusalOK(q)
  BY <1>3, <1>4
<1> HIDE DEF q
<1>6. QED
  BY <1>2, <1>5, OneStream

\* A stream calls Next: the bot is skipped, or gives a client.
LEMMA ChooseStep ==
  ASSUME Bots!BotsGiven, UploadsInv, StreamsInv, NEW s \in Streams, Bots!Choose(s)
  PROVE  StreamsInv' /\ UploadsInv' /\ \A u \in Parts : up'[u].result = up[u].result
<1> DEFINE r == st[s]
           skips == [r EXCEPT !.rounds = @ - 1]
<1>1. PICK b \in Bots!Bots :
        /\ Bots!NextToken(b)
        /\ \/ st' = [st EXCEPT ![s].rounds = @ - 1]
           \/ \E alive \in BOOLEAN :
                st' = [st EXCEPT ![s] = [Bots!Send(@, b) EXCEPT !.live = alive]]
  BY DEF Bots!Choose
<1>2. UploadsInv' /\ \A u \in Parts : up'[u].result = up[u].result
  BY <1>1, DisturbStep DEF Bots!Choose
<1>3. r \in Streaming /\ BodyOK(r) /\ RefusalOK(r) /\ r.pc = "choose" /\ r.rounds > 0
  BY DEF StreamsInv, Bots!Choose
<1>4. CASE st' = [st EXCEPT ![s].rounds = @ - 1]
  <2>1. st' = [st EXCEPT ![s] = skips]
    BY <1>4 DEF StreamsInv
  <2> HIDE DEF r
  <2>2. skips \in Streaming /\ BodyOK(skips) /\ RefusalOK(skips)
    BY <1>3, StreamSkips
  <2> HIDE DEF skips
  <2>3. QED
    BY <1>2, <2>1, <2>2, OneStream
<1>5. ASSUME NEW alive \in BOOLEAN, st' = [st EXCEPT ![s] = [Bots!Send(@, b) EXCEPT !.live = alive]]
      PROVE  StreamsInv'
  <2> DEFINE q == [Bots!Send(r, b) EXCEPT !.live = alive]
  <2>1. st' = [st EXCEPT ![s] = q]
    BY <1>5 DEF StreamsInv
  <2> HIDE DEF r
  <2>2. q \in Streaming /\ BodyOK(q) /\ RefusalOK(q)
    BY <1>1, <1>3, <1>5, LiveSend
  <2> HIDE DEF q
  <2>3. QED
    BY <2>1, <2>2, OneStream
<1>6. QED
  BY <1>1, <1>2, <1>4, <1>5

\* No bot gave a client.
LEMMA FallBackStep ==
  ASSUME Bots!BotsGiven, StreamsInv, NEW s \in Streams, Bots!FallBack(s)
  PROVE  StreamsInv'
<1> DEFINE r == st[s]
           q == Bots!Send(r, User)
<1>1. r \in Streaming /\ BodyOK(r) /\ RefusalOK(r) /\ r.pc = "choose"
  BY DEF StreamsInv, Bots!FallBack
<1>2. CASE Bots!End(s, "error")
  BY <1>1, <1>2, EndStep
<1>3. CASE st' = [st EXCEPT ![s] = Bots!Send(@, User)]
  <2>1. st' = [st EXCEPT ![s] = q]
    BY <1>3 DEF StreamsInv
  <2> HIDE DEF r
  <2>2. q \in Streaming /\ BodyOK(q) /\ RefusalOK(q)
    BY <1>1, FirstSend
  <2> HIDE DEF q
  <2>3. QED
    BY <2>1, <2>2, OneStream
<1>4. QED
  BY <1>2, <1>3 DEF Bots!FallBack

\* A unit of the range is written.
LEMMA WriteStep ==
  ASSUME Bots!BotsGiven, StreamsInv, NEW s \in Streams, Bots!WriteBody(s)
  PROVE  StreamsInv'
<1> DEFINE r == st[s]
           q == [r EXCEPT !.body = Append(@, r.off + 1), !.off = @ + 1]
<1>1. r \in Streaming /\ BodyOK(r) /\ RefusalOK(r)
  BY DEF StreamsInv
<1>2. r.pc = "send" /\ Len(r.body) < Length
  BY DEF Bots!WriteBody, Bots!Room
<1>3. st' = [st EXCEPT ![s] = q]
  BY DEF Bots!WriteBody, StreamsInv
<1> HIDE DEF r
<1>4. q \in Streaming /\ BodyOK(q) /\ RefusalOK(q)
  BY <1>1, <1>2, StreamWrites
<1> HIDE DEF q
<1>5. QED
  BY <1>3, <1>4, OneStream

\* A bot refuses the stream, or the user's session is refused.
LEMMA StreamRefusedStep ==
  ASSUME Bots!BotsGiven, StreamsInv, UploadsInv, NEW s \in Streams, Bots!StreamRefused(s)
  PROVE  StreamsInv' /\ UploadsInv'
<1> DEFINE r == st[s]
           others == Bots!Keep(Bots!AvailableBots, Bots!Bots \ {r.token})
           rest == IF r.attempt = "first" THEN others ELSE r.todo
           q == [r EXCEPT !.pc = "retry", !.attempt = "again",
                          !.served = @ \cup {r.token}, !.todo = rest]
<1>1. r \in Streaming /\ BodyOK(r) /\ RefusalOK(r) /\ r.pc = "send"
  BY DEF StreamsInv, Bots!StreamRefused
<1>2. CASE r.token = User
  <2>1. Bots!End(s, "auth") /\ UNCHANGED <<cursor, up, flooded, blocked>>
    BY <1>2 DEF Bots!StreamRefused
  <2>2. UploadsInv'
    BY <2>1 DEF UploadsInv
  <2>3. QED
    BY <1>1, <2>1, <2>2, EndStep
<1>3. CASE r.token # User
  <2>1. Bots!BlockBot(r.token) /\ UNCHANGED <<cursor, up>>
    BY <1>3 DEF Bots!StreamRefused
  <2>2. st' = [st EXCEPT ![s] = q]
    BY <1>3 DEF Bots!StreamRefused, StreamsInv
  <2>3. /\ others \in Seq(Bots!Bots)
        /\ \A i \in 1..Len(others) : others[i] # r.token
        /\ \A i, j \in 1..Len(others) : others[i] = others[j] => i = j
    BY BotLists
  <2>4. r.token \in Bots!Bots
    BY <1>1, <1>3 DEF RefusalOK
  <2>5. UploadsInv'
    BY <2>1, <2>4 DEF UploadsInv, Bots!BlockBot
  <2> HIDE DEF r, others
  <2>6. r.attempt # "first" =>
          /\ r.todo \in Seq(Bots!Bots)
          /\ \A i \in 1..Len(r.todo) : r.todo[i] # r.token
          /\ \A i, j \in 1..Len(r.todo) : r.todo[i] = r.todo[j] => i = j
    BY <1>1, <1>3 DEF RefusalOK, Streaming
  <2>7. /\ rest \in Seq(Bots!Bots) /\ (r.attempt # "first" => rest = r.todo)
        /\ \A i \in 1..Len(rest) : rest[i] # r.token
        /\ \A i, j \in 1..Len(rest) : rest[i] = rest[j] => i = j
    BY <2>3, <2>6
  <2> HIDE DEF rest
  <2>8. q \in Streaming /\ BodyOK(q) /\ RefusalOK(q)
    BY <1>1, <1>3, <2>7, StreamIsRefused
  <2> HIDE DEF q
  <2>9. QED
    BY <2>2, <2>5, <2>8, OneStream
<1>4. QED
  BY <1>2, <1>3

\* The next bot of the list.
LEMMA TryOtherStep ==
  ASSUME Bots!BotsGiven, StreamsInv, NEW s \in Streams, Bots!TryOther(s)
  PROVE  StreamsInv'
<1> DEFINE r == st[s]
           passes == [r EXCEPT !.todo = Tail(@)]
           q == Bots!Send(passes, Head(r.todo))
<1>1. r \in Streaming /\ BodyOK(r) /\ RefusalOK(r) /\ r.pc = "retry" /\ r.todo # <<>>
  BY DEF StreamsInv, Bots!TryOther
<1>2. st' = [st EXCEPT ![s] = passes] \/ st' = [st EXCEPT ![s] = q]
  BY DEF Bots!TryOther
<1> HIDE DEF r
<1>3. passes \in Streaming /\ BodyOK(passes) /\ RefusalOK(passes)
  BY <1>1, StreamPasses
<1>4. q \in Streaming /\ BodyOK(q) /\ RefusalOK(q)
  BY <1>1, StreamTriesNext
<1> HIDE DEF passes, q
<1>5. QED
  BY <1>2, <1>3, <1>4, OneStream

\* The list is spent: the session of the user, or the end.
LEMMA TryUserStep ==
  ASSUME Bots!BotsGiven, StreamsInv, NEW s \in Streams, Bots!TryUser(s)
  PROVE  StreamsInv'
<1> DEFINE r == st[s]
           q == [Bots!Send(r, User) EXCEPT !.attempt = "last"]
<1>1. r \in Streaming /\ BodyOK(r) /\ RefusalOK(r) /\ r.pc = "retry"
  BY DEF StreamsInv, Bots!TryUser
<1>2. CASE Bots!End(s, "auth")
  BY <1>1, <1>2, EndStep
<1>3. CASE st' = [st EXCEPT ![s] = [Bots!Send(@, User) EXCEPT !.attempt = "last"]]
  <2>1. st' = [st EXCEPT ![s] = q]
    BY <1>3 DEF StreamsInv
  <2> HIDE DEF r
  <2>2. q \in Streaming /\ BodyOK(q) /\ RefusalOK(q)
    BY <1>1, StreamTriesUser
  <2> HIDE DEF q
  <2>3. QED
    BY <2>1, <2>2, OneStream
<1>4. QED
  BY <1>2, <1>3 DEF Bots!TryUser

\* The uploads are what they were, and so are their answers.
LEMMA UploadsRest ==
  ASSUME UploadsInv, UNCHANGED Bots!vars
  PROVE  UploadsInv' /\ \A u \in Parts : up'[u].result = up[u].result
BY DEF UploadsInv, Bots!vars, Bots!rotationVars

\* The answers to uploads that a step gives are honest.
Honest ==
  \A u \in Parts : up'[u].result # up[u].result =>
    /\ up'[u].result = "429" => up[u].limited # {}
    /\ up'[u].result # "failed"

\* Uploads and streams keep the invariant.
LEMMA BotsStep ==
  ASSUME Bots!BotsGiven, BotsInv, Bots!StreamNext
  PROVE  BotsInv' /\ Honest
<1> USE DEF BotsInv, Honest
<1>1. CASE Bots!Next /\ UNCHANGED st
  <2>1. StreamsInv'
    BY <1>1 DEF StreamsInv
  <2>2. QED
    BY <1>1, <2>1, UploadSteps
<1>2. ASSUME NEW s \in Streams, Bots!Advance(s) \/ Bots!Fails(s)
      PROVE  BotsInv' /\ Honest
  <2>1. CASE Bots!OpenStream(s)
    <3>1. UNCHANGED Bots!vars
      BY <2>1 DEF Bots!OpenStream
    <3>2. QED
      BY <2>1, <3>1, OpenStep, UploadsRest
  <2>2. CASE Bots!Choose(s)
    BY <2>2, ChooseStep
  <2>3. CASE Bots!FallBack(s)
    <3>1. UNCHANGED Bots!vars
      BY <2>3 DEF Bots!FallBack
    <3>2. QED
      BY <2>3, <3>1, FallBackStep, UploadsRest
  <2>4. CASE Bots!WriteBody(s)
    <3>1. UNCHANGED Bots!vars
      BY <2>4 DEF Bots!WriteBody
    <3>2. QED
      BY <2>4, <3>1, WriteStep, UploadsRest
  <2>5. CASE Bots!Finish(s)
    <3>1. UNCHANGED Bots!vars /\ Bots!End(s, "ok") /\ st[s].pc = "send" /\ st[s].off = Length
      BY <2>5 DEF Bots!Finish
    <3>2. QED
      BY <3>1, EndStep, UploadsRest
  <2>6. CASE Bots!StreamRefused(s)
    <3>1. up' = up
      BY <2>6 DEF Bots!StreamRefused
    <3>2. QED
      BY <2>6, <3>1, StreamRefusedStep
  <2>7. CASE Bots!TryOther(s)
    <3>1. UNCHANGED Bots!vars
      BY <2>7 DEF Bots!TryOther
    <3>2. QED
      BY <2>7, <3>1, TryOtherStep, UploadsRest
  <2>8. CASE Bots!TryUser(s)
    <3>1. UNCHANGED Bots!vars
      BY <2>8 DEF Bots!TryUser
    <3>2. QED
      BY <2>8, <3>1, TryUserStep, UploadsRest
  <2>9. CASE Bots!Fails(s)
    <3>1. UNCHANGED Bots!vars /\ Bots!End(s, "error") /\ st[s].pc = "send"
      BY <2>9 DEF Bots!Fails
    <3>2. QED
      BY <3>1, EndStep, UploadsRest
  <2>10. QED
    BY <1>2, <2>1, <2>2, <2>3, <2>4, <2>5, <2>6, <2>7, <2>8, <2>9 DEF Bots!Advance
<1>3. QED
  BY <1>1, <1>2 DEF Bots!StreamNext

\* What the uploads and streams of a user know, for any number of bots, parts and streams
\* (UploadsUpload, BotWorker.Next, FilesStream).
THEOREM BotsInvariance == Spec => []BotsInv
<1> USE BotsAssumption
<1>1. Bots!StreamInit => BotsInv
  <2> SUFFICES ASSUME Bots!StreamInit PROVE BotsInv
    OBVIOUS
  <2>1. UploadsInv
    <3>1. 0 \in 0..(Bots!N - 1)
      BY BotNumbers
    <3>2. cursor = 0 /\ flooded = {} /\ blocked = {} /\ up = [u \in Parts |-> Bots!Idle]
      BY DEF Bots!StreamInit, Bots!Init, Bots!RotationInit, Bots!UploadInit
    <3>3. Bots!Idle \in Uploading /\ UploadOK(Bots!Idle, cursor)
      BY UploadEnds
    <3>4. QED
      BY <3>1, <3>2, <3>3 DEF UploadsInv
  <2>2. StreamsInv
    BY NoStreamYet DEF StreamsInv, Bots!StreamInit
  <2>3. QED
    BY <2>1, <2>2 DEF BotsInv
<1>2. BotsInv /\ [Bots!StreamNext]_Bots!streamVars => BotsInv'
  <2>1. ASSUME BotsInv, UNCHANGED Bots!streamVars
        PROVE  BotsInv'
    BY <2>1 DEF BotsInv, UploadsInv, StreamsInv, Bots!streamVars, Bots!vars, Bots!rotationVars
  <2>2. QED
    BY <2>1, BotsStep
<1> QED
  BY <1>1, <1>2, BotsRun, PTL

\* A request that spent its draws alone has met every bot.
LEMMA AllTried ==
  ASSUME Bots!BotsGiven, UploadsInv
  PROVE  Bots!AloneTriesEveryBot
<1> SUFFICES ASSUME NEW u \in Parts, Bots!Spent(u) /\ up[u].alone
             PROVE  Bots!Bots \subseteq up[u].tried \cup up[u].passed
  BY DEF Bots!AloneTriesEveryBot
<1>1. Bots!N \in Nat \ {0} /\ cursor \in 0..(Bots!N - 1)
  BY BotNumbers DEF UploadsInv
<1>2. CoveredFrom(up[u], cursor) /\ Drawn(up[u]) = Bots!N
  BY DEF UploadsInv, UploadOK, Bots!Spent, Drawn
<1>3. ASSUME NEW j \in 0..(Bots!N - 1)
      PROVE  TokenList[j + 1] \in up[u].tried \cup up[u].passed
  <2>1. Behind(j, cursor) <= Bots!N
    BY <1>1 DEF Behind
  <2>2. QED
    BY <1>2, <2>1 DEF CoveredFrom
<1>4. ASSUME NEW i \in 1..Bots!N
      PROVE  TokenList[i] \in up[u].tried \cup up[u].passed
  <2>1. i - 1 \in 0..(Bots!N - 1) /\ (i - 1) + 1 = i
    BY <1>1
  <2>2. QED
    BY <1>3, <2>1
<1>5. QED
  BY <1>4 DEF Bots!Bots

\* What a user's bots promise, for any number of bots, parts and streams: an undisturbed
\* upload meets every bot that is not blocked, a 429 is for one that asked to wait, a stream
\* that ends well delivered its range once and in order, and none comes back to a bot that
\* refused it (UploadsUpload, FilesStream).
THEOREM BotsAreTried == Spec => BotsTried
<1> USE BotsAssumption
<1>1. BotsInv =>
        (subject = "bots" => Bots!AloneTriesEveryBot /\ Bots!OkMeansWhole /\ Bots!RefusedOnce)
  <2> SUFFICES ASSUME BotsInv PROVE Bots!AloneTriesEveryBot /\ Bots!OkMeansWhole /\ Bots!RefusedOnce
    OBVIOUS
  <2>1. Bots!AloneTriesEveryBot
    BY AllTried DEF BotsInv
  <2>2. Bots!OkMeansWhole
    BY DEF BotsInv, StreamsInv, BodyOK, Bots!OkMeansWhole
  <2>3. Bots!RefusedOnce
    BY DEF BotsInv, StreamsInv, RefusalOK, Bots!RefusedOnce
  <2>4. QED
    BY <2>1, <2>2, <2>3
<1>2. BotsInv /\ [Bots!StreamNext]_Bots!streamVars => [Honest]_up
  BY BotsStep DEF Bots!streamVars, Bots!vars
<1>3. [Honest]_up => [\A u \in Parts : up'[u].result # up[u].result =>
                        /\ up'[u].result = "429" => up[u].limited # {}
                        /\ up'[u].result # "failed"]_up
  BY DEF Honest
<1> QED
  BY <1>1, <1>2, <1>3, BotsInvariance, BotsRun, PTL DEF BotsTried, Bots!HonestVerdict

-----------------------------------------------------------------------------
(***************************************************************************)
(* The body of a stream.  Between two reads the reader is at the next byte *)
(* of its part, its buffer holds bytes that are wanted, and what was read  *)
(* is what was asked for from its start.                                   *)
(***************************************************************************)
\* Halving comes to an end between one byte and the largest chunk.
LEMMA ChunkHalved ==
  ASSUME Body!BodyGiven, NEW s, NEW e
  PROVE  Body!ChunkSize(s, e) \in 1..MaxChunk
<1> DEFINE M == MaxChunk
           Small(c) == c <= MinChunk \/ c <= e - s
           Equation(g) == g = [c \in 1..M |-> IF Small(c) THEN c ELSE g[c \div 2]]
           halved == CHOOSE g : Equation(g)
           Half(m) == \E g \in [1..m -> 1..M] :
                        \A c \in 1..m : g[c] = IF Small(c) THEN c ELSE g[c \div 2]
           S == {m \in Nat : m <= M => Half(m)}
<1>1. M \in Nat \ {0} /\ Small(1) /\ MinChunk \in Nat \ {0}
  BY DEF Body!BodyGiven
<1>2. \A c \in Nat : c > 1 => c \div 2 \in 1..(c - 1)
  <2>1. SUFFICES ASSUME NEW c \in Nat, c > 1 PROVE c \div 2 \in 1..(c - 1)
    OBVIOUS
  <2>2. c \div 2 \in Nat /\ c % 2 \in 0..1 /\ c = 2 * (c \div 2) + (c % 2)
    BY DivMod
  <2>3. QED
    BY <2>1, <2>2
<1> HIDE DEF Small, M
<1>3. 0 \in S
  <2>1. Half(0)
    <3>1. [c \in 1..0 |-> 1] \in [1..0 -> 1..M]
      BY <1>1
    <3>2. WITNESS [c \in 1..0 |-> 1] \in [1..0 -> 1..M]
    <3>3. QED
      OBVIOUS
  <2> HIDE DEF Half
  <2>2. QED
    BY <2>1
<1>4. ASSUME NEW m \in S, m + 1 <= M
      PROVE  Half(m + 1)
  <2>1. m \in Nat /\ m <= M
    BY <1>1, <1>4
  <2>2. PICK g \in [1..m -> 1..M] :
          \A c \in 1..m : g[c] = IF Small(c) THEN c ELSE g[c \div 2]
    BY <1>4, <2>1
  <2> DEFINE more == [c \in 1..(m + 1) |-> IF c <= m THEN g[c]
                                           ELSE IF Small(c) THEN c ELSE g[c \div 2]]
  <2>3. \A c \in 1..(m + 1) : ~Small(c) => c > 1 /\ c \div 2 \in 1..m /\ c \div 2 \in 1..(m + 1)
    <3>1. SUFFICES ASSUME NEW c \in 1..(m + 1), ~Small(c)
                   PROVE  c > 1 /\ c \div 2 \in 1..m /\ c \div 2 \in 1..(m + 1)
      OBVIOUS
    <3>2. c \in Nat /\ c # 1 /\ c <= m + 1 /\ c # 0
      BY <1>1, <2>1, <3>1
    <3>3. c \div 2 \in 1..(c - 1)
      BY <1>2, <3>2
    <3>4. QED
      BY <2>1, <3>2, <3>3
  <2>4. more \in [1..(m + 1) -> 1..M]
    <3>1. ASSUME NEW c \in 1..(m + 1)
          PROVE  more[c] \in 1..M
      <4>1. CASE c <= m
        BY <2>1, <2>2, <4>1
      <4>2. CASE c > m /\ Small(c)
        BY <1>1, <1>4, <2>1, <4>2
      <4>3. CASE c > m /\ ~Small(c)
        <5>1. c \div 2 \in 1..m
          BY <2>3, <4>3
        <5> HIDE DEF more
        <5>2. more[c] = g[c \div 2]
          BY <2>1, <4>3 DEF more
        <5>3. QED
          BY <2>2, <5>1, <5>2
      <4>4. QED
        BY <2>1, <4>1, <4>2, <4>3
    <3>2. QED
      BY <3>1
  <2>5. ASSUME NEW c \in 1..(m + 1)
        PROVE  more[c] = IF Small(c) THEN c ELSE more[c \div 2]
    <3>1. CASE Small(c) /\ c <= m
      BY <2>1, <2>2, <3>1
    <3>2. CASE Small(c) /\ c > m
      BY <2>1, <3>2
    <3>3. CASE ~Small(c)
      <4>1. c \div 2 \in 1..m /\ c \div 2 \in 1..(m + 1)
        BY <2>3, <3>3
      <4> DEFINE h == c \div 2
      <4>2. h \in 1..m /\ h \in 1..(m + 1) /\ h <= m
        BY <2>1, <4>1
      <4> HIDE DEF h
      <4>3. more[h] = g[h]
        BY <4>2
      <4>4. more[c] = g[h]
        <5>1. CASE c <= m
          BY <2>1, <2>2, <3>3, <5>1 DEF h
        <5>2. CASE c > m
          BY <2>1, <3>3, <5>2 DEF h
        <5>3. QED
          BY <2>1, <5>1, <5>2
      <4> HIDE DEF more
      <4>5. QED
        BY <3>3, <4>3, <4>4 DEF h
    <3>4. QED
      BY <2>1, <3>1, <3>2, <3>3
  <2> HIDE DEF more
  <2>6. QED
    BY <2>4, <2>5
<1>5. S = Nat
  <2>1. S \in SUBSET Nat /\ \A m \in S : m + 1 \in S
    <3> HIDE DEF Half
    <3>1. QED
      BY <1>4
  <2> HIDE DEF S
  <2>2. QED
    BY <1>3, <2>1, Induct
<1>6. PICK g \in [1..M -> 1..M] : \A c \in 1..M : g[c] = IF Small(c) THEN c ELSE g[c \div 2]
  <2>1. Half(M)
    <3> HIDE DEF Half
    <3>1. M \in S /\ M <= M
      BY <1>1, <1>5
    <3>2. QED
      BY <3>1
  <2>2. QED
    BY <2>1
<1>7. Equation(g)
  BY <1>6
<1>8. Equation(halved)
  <2> HIDE DEF Equation
  <2>1. QED
    BY <1>7
<1>9. \A c \in 1..M : halved[c] = IF Small(c) THEN c ELSE halved[c \div 2]
  <2> HIDE DEF halved
  <2>1. QED
    BY <1>8
<1> DEFINE T == {m \in Nat : \A c \in 1..M : c <= m => halved[c] \in 1..M}
<1> HIDE DEF halved
<1>10. 0 \in T
  BY <1>1
<1>11. ASSUME NEW m \in T
       PROVE  m + 1 \in T
  <2>1. SUFFICES ASSUME NEW c \in 1..M, c <= m + 1 PROVE halved[c] \in 1..M
    OBVIOUS
  <2>2. CASE Small(c)
    <3>1. halved[c] = c
      BY <1>9, <2>2
    <3>2. QED
      BY <3>1
  <2>3. CASE ~Small(c)
    <3>1. c \in Nat /\ c > 1
      BY <1>1, <2>3
    <3>2. c \div 2 \in 1..(c - 1)
      BY <1>2, <3>1
    <3>3. c \div 2 \in 1..M /\ c \div 2 <= m
      BY <1>1, <2>1, <3>1, <3>2
    <3>4. halved[c] = halved[c \div 2]
      BY <1>9, <2>3
    <3>5. QED
      BY <3>3, <3>4
  <2>4. QED
    BY <2>2, <2>3
<1>12. T = Nat
  <2>1. T \in SUBSET Nat /\ \A m \in T : m + 1 \in T
    BY <1>11
  <2> HIDE DEF T
  <2>2. QED
    BY <1>10, <2>1, Induct
<1>13. halved[M] \in 1..M
  <2>1. M \in T /\ M \in 1..M /\ M <= M
    <3> HIDE DEF T
    <3>1. QED
      BY <1>1, <1>12
  <2>2. QED
    BY <2>1
<1>14. Body!ChunkSize(s, e) = halved[M]
  BY DEF Body!ChunkSize, halved, Small, M
<1>15. QED
  BY <1>13, <1>14 DEF M

\* The reader of one part: Readers of the model, without regard to what they read.
PartReaders ==
  [part : Nat, offset : Nat, limit : Int, chunk : Nat, left : Int, right : Int, total : Int,
   cur : Nat, buf : Seq(Nat \X Nat)]

\* The buffered bytes of part no from x on.
BytesFrom(buf, no, x) == \A i \in 1..Len(buf) : buf[i] = <<no, x + i - 1>>

\* Reader r is about to deliver byte x of part no, the byte last is its last one.  Chunk q is
\* the next it fetches; its first one begins before x.
ReaderAt(r, no, x, last) ==
  /\ r \in PartReaders /\ last \in Nat /\ x \in 0..last
  /\ r.part = no /\ r.limit = last - x + 1
  /\ r.chunk \in 1..MaxChunk /\ r.right = (last % r.chunk) + 1 /\ r.cur >= 1
  /\ \E q \in Nat :
       /\ r.offset = r.chunk * q /\ r.total = r.cur + (last \div r.chunk) - q
       /\ IF r.cur = 1
          THEN r.buf = <<>> /\ r.left \in 0..(r.chunk - 1) /\ r.offset + r.left = x
          ELSE /\ x + Len(r.buf) = IF q <= last \div r.chunk THEN r.offset ELSE last + 1
               /\ Len(r.buf) <= MaxChunk /\ BytesFrom(r.buf, no, x)

\* A new reader (newTGReader).
LEMMA NewReaderAt ==
  ASSUME Body!BodyGiven, NEW no \in Nat, NEW last \in Nat, NEW x \in 0..last
  PROVE  ReaderAt(Body!NewReader(no, x, last), no, x, last)
<1> DEFINE c == Body!ChunkSize(x, last)
           q == x \div c
           k == last \div c
           r == Body!NewReader(no, x, last)
<1>1. c \in 1..MaxChunk /\ c \in Nat \ {0}
  BY ChunkHalved DEF Body!BodyGiven
<1>2. q \in Nat /\ x % c \in 0..(c - 1) /\ x = c * q + (x % c)
  <2>1. x \in Nat
    OBVIOUS
  <2> HIDE DEF c
  <2>2. QED
    BY <1>1, <2>1, DivMod
<1>3. k \in Nat /\ last % c \in 0..(c - 1) /\ last = c * k + (last % c)
  BY <1>1, DivMod
<1>4. x - (x % c) = c * q /\ x - (x - (x % c)) = x % c /\ c * q \in Nat
  <2> DEFINE z == x % c
  <2>1. x = c * q + z /\ z \in Int /\ c \in Nat /\ q \in Nat
    BY <1>1, <1>2
  <2> HIDE DEF c, q, z
  <2>2. c * q \in Nat
    BY <2>1
  <2>3. QED
    BY <2>1, <2>2 DEF z
<1>5. (last - c * q + c) \div c = 1 + k - q
  <2> DEFINE a == last - c * q + c
             rest == last % c
             m == 1 + k - q
  <2>1. a = c * m + rest
    <3>1. c * m = c + c * k - c * q
      <4> HIDE DEF c, k, q
      <4>1. QED
        BY <1>1, <1>2, <1>3
    <3>2. QED
      BY <1>1, <1>2, <1>3, <3>1
  <2>2. a \in Nat
    <3>1. x \in 0..last /\ x = c * q + (x % c) /\ x % c \in Nat
      BY <1>2
    <3> HIDE DEF c, q, k
    <3>2. PICK z \in Nat : x = c * q + z
      BY <3>1, Zenon
    <3>3. c * q \in Nat
      BY <1>1, <1>2
    <3>4. QED
      BY <1>1, <3>1, <3>2, <3>3
  <2> HIDE DEF a, rest, c, k, q
  <2>3. a \div c \in Nat /\ a % c \in 0..(c - 1) /\ a = c * (a \div c) + (a % c)
    BY <1>1, <2>2, DivMod
  <2>4. m \in Int
    BY <1>2, <1>3
  <2> HIDE DEF m
  <2>5. a \div c = m
    BY <1>1, <1>3, <2>1, <2>3, <2>4, DivUnique DEF rest
  <2>6. QED
    BY <2>5 DEF a, m
<1>6. r = [part |-> no, offset |-> x - (x % c), limit |-> last - x + 1, chunk |-> c,
           left |-> x - (x - (x % c)), right |-> (last % c) + 1,
           total |-> (last - (x - (x % c)) + c) \div c, cur |-> 1, buf |-> <<>>]
  BY DEF Body!NewReader
<1> HIDE DEF c, q, k, r
<1>7. r = [part |-> no, offset |-> c * q, limit |-> last - x + 1, chunk |-> c,
           left |-> x % c, right |-> (last % c) + 1,
           total |-> 1 + k - q, cur |-> 1, buf |-> <<>>]
  BY <1>4, <1>5, <1>6
<1>8. r \in PartReaders
  <2>1. <<>> \in Seq(Nat \X Nat)
    OBVIOUS
  <2>2. 1 + k - q \in Int /\ x % c \in Int /\ (last % c) + 1 \in Int /\ last - x + 1 \in Int
    BY <1>2, <1>3
  <2>3. QED
    BY <1>1, <1>4, <1>7, <2>1, <2>2 DEF PartReaders
<1>9. c * q + (x % c) = x
  BY <1>2
<1>10. /\ r.part = no /\ r.limit = last - x + 1 /\ r.chunk = c /\ r.right = (last % c) + 1
       /\ r.cur = 1 /\ r.offset = c * q /\ r.total = 1 + k - q /\ r.buf = <<>> /\ r.left = x % c
  BY <1>7
<1>11. ReaderAt(r, no, x, last)
  <2>1. /\ r.chunk \in 1..MaxChunk /\ r.right = (last % r.chunk) + 1 /\ r.cur >= 1
        /\ r.part = no /\ r.limit = last - x + 1
    BY <1>1, <1>10
  <2>2. r.total = r.cur + (last \div r.chunk) - q
    BY <1>10 DEF k
  <2>3. r.buf = <<>> /\ r.left \in 0..(r.chunk - 1) /\ r.offset + r.left = x
    BY <1>2, <1>9, <1>10
  <2>4. QED
    BY <1>2, <1>8, <1>10, <2>1, <2>2, <2>3 DEF ReaderAt
<1>12. QED
  BY <1>11 DEF r

\* Bytes that a reader has taken out of its buffer, and those that remain.
LEMMA BytesTaken ==
  ASSUME NEW buf \in Seq(Nat \X Nat), NEW no, NEW x \in Nat, BytesFrom(buf, no, x),
         NEW k \in 1..Len(buf)
  PROVE  /\ SubSeq(buf, 1, k) \in Seq(Nat \X Nat) /\ Len(SubSeq(buf, 1, k)) = k
         /\ BytesFrom(SubSeq(buf, 1, k), no, x)
         /\ SubSeq(buf, k + 1, Len(buf)) \in Seq(Nat \X Nat)
         /\ Len(SubSeq(buf, k + 1, Len(buf))) = Len(buf) - k
         /\ BytesFrom(SubSeq(buf, k + 1, Len(buf)), no, x + k)
<1>1. Len(buf) \in Nat /\ \A i \in 1..Len(buf) : buf[i] \in Nat \X Nat
  BY ElementOfSeq
<1> DEFINE s == SubSeq(buf, 1, k)
           t == SubSeq(buf, k + 1, Len(buf))
<1>2. /\ s \in Seq(Nat \X Nat) /\ Len(s) = k /\ \A i \in 1..k : s[i] = buf[i]
  <2>1. /\ s \in Seq(Nat \X Nat)
        /\ Len(s) = IF 1 <= k THEN k - 1 + 1 ELSE 0
        /\ \A i \in 1..(k - 1 + 1) : s[i] = buf[1 + i - 1]
    BY <1>1, SubSeqProperties
  <2> HIDE DEF s
  <2>2. QED
    BY <1>1, <2>1
<1>3. /\ t \in Seq(Nat \X Nat) /\ Len(t) = Len(buf) - k
      /\ \A i \in 1..(Len(buf) - k) : t[i] = buf[k + i]
  <2>1. /\ t \in Seq(Nat \X Nat)
        /\ Len(t) = IF k + 1 <= Len(buf) THEN Len(buf) - (k + 1) + 1 ELSE 0
        /\ \A i \in 1..(Len(buf) - (k + 1) + 1) : t[i] = buf[(k + 1) + i - 1]
    BY <1>1, SubSeqProperties
  <2> HIDE DEF t
  <2>2. Len(t) = Len(buf) - k /\ k \in Nat
    BY <1>1, <2>1
  <2>3. \A i \in 1..(Len(buf) - k) : t[i] = buf[k + i]
    <3>1. SUFFICES ASSUME NEW i \in 1..(Len(buf) - k) PROVE t[i] = buf[k + i]
      OBVIOUS
    <3>2. i \in 1..(Len(buf) - (k + 1) + 1) /\ (k + 1) + i - 1 = k + i
      BY <1>1, <2>2
    <3>3. QED
      BY <2>1, <3>2
  <2>4. QED
    BY <2>1, <2>2, <2>3
<1> HIDE DEF s, t
<1>4. BytesFrom(s, no, x)
  <2>1. \A i \in 1..k : i \in 1..Len(buf)
    BY <1>1
  <2>2. QED
    BY <1>2, <2>1 DEF BytesFrom
<1>5. BytesFrom(t, no, x + k)
  <2>1. SUFFICES ASSUME NEW i \in 1..Len(t) PROVE t[i] = <<no, (x + k) + i - 1>>
    BY DEF BytesFrom
  <2>2. i \in Nat /\ k + i \in 1..Len(buf) /\ t[i] = buf[k + i]
    BY <1>1, <1>3, <2>1
  <2>3. buf[k + i] = <<no, x + (k + i) - 1>>
    BY <2>2 DEF BytesFrom
  <2>4. x + (k + i) - 1 = (x + k) + i - 1
    BY <2>2
  <2>5. QED
    BY <2>2, <2>3, <2>4
<1>6. QED
  BY <1>2, <1>3, <1>4, <1>5 DEF s, t

\* The numbers of a chunk that is cut: chunk q of size c begins at byte c * q, the last byte is in
\* chunk k, held bytes are there, and byte x is the y-th of the chunk.
LEMMA FillNumbers ==
  ASSUME NEW c \in Nat \ {0}, NEW q \in Nat, NEW k \in Nat, NEW z \in 0..(c - 1), NEW last \in Nat,
         last = c * k + z, NEW y \in 0..(c - 1), NEW x \in 0..last, x = c * q + y,
         NEW held \in Nat, last < held
  PROVE  LET hi == IF q = k THEN z + 1 ELSE c
             w  == IF c <= held - c * q THEN c ELSE held - c * q
         IN  /\ q <= k /\ c * q \in Nat /\ w \in Nat /\ hi \in Nat /\ y < hi /\ hi <= w
             /\ q # k => w = c /\ hi = c
             /\ x + (hi - y) = IF q + 1 <= k THEN c * (q + 1) ELSE last + 1
             /\ hi - y \in 1..c /\ c * q + c = c * (q + 1)
<1>1. /\ c * q \in Nat /\ c * k \in Nat /\ c * (q + 1) = c * q + c
      /\ c * (k + 1) = c * k + c
  OBVIOUS
<1>2. q <= k
  <2>1. SUFFICES ASSUME q >= k + 1 PROVE FALSE
    OBVIOUS
  <2>2. c * q >= c * (k + 1)
    BY <2>1
  <2>3. QED
    BY <1>1, <2>2
<1>3. q # k => c * q + c <= c * k
  <2>1. SUFFICES ASSUME q + 1 <= k PROVE c * (q + 1) <= c * k
    BY <1>1, <1>2
  <2>2. QED
    BY <2>1
<1> DEFINE a == c * q
           b == c * k
<1>4. /\ a \in Nat /\ b \in Nat /\ last = b + z /\ x = a + y /\ c * (q + 1) = a + c
      /\ (q = k => a = b) /\ (q # k => a + c <= b)
  BY <1>1, <1>3
<1> HIDE DEF a, b
<1> DEFINE hi == IF q = k THEN z + 1 ELSE c
           w  == IF c <= held - a THEN c ELSE held - a
<1>5. CASE q = k
  BY <1>2, <1>4, <1>5 DEF a
<1>6. CASE q # k
  <2>1. a + c <= held
    BY <1>4, <1>6
  <2>2. w = c /\ hi = c
    BY <1>4, <1>6, <2>1
  <2>3. q + 1 <= k
    BY <1>2, <1>6
  <2>4. x + (hi - y) = a + c
    BY <1>4, <2>2
  <2>5. QED
    BY <1>2, <1>4, <1>6, <2>2, <2>3, <2>4 DEF a
<1>7. QED
  BY <1>5, <1>6

\* The w bytes of part no from lo on.
PartBytes(no, lo, w) == [i \in 1..w |-> <<no, lo + i - 1>>]

\* What is left of the w bytes of a chunk that begins at lo, cut from byte y on and before hi.
CutTo(cut, ch, no, lo, w, y, hi) ==
  /\ cut \in Seq(Nat \X Nat) /\ Len(cut) = hi - y /\ BytesFrom(cut, no, lo + y)
  /\ Len(ch) = w /\ (y = 0 /\ hi = w => cut = ch)

\* A chunk is cut to what the reader needs of it (tgReader.next).
LEMMA CutChunk ==
  ASSUME NEW no \in Nat, NEW lo \in Nat, NEW w \in Nat, NEW y \in Nat, NEW hi \in Nat, y < hi,
      hi <= w
  PROVE  CutTo(SubSeq(PartBytes(no, lo, w), y + 1, hi), PartBytes(no, lo, w), no, lo, w, y, hi)
<1> DEFINE ch  == PartBytes(no, lo, w)
           cut == SubSeq(ch, y + 1, hi)
<1>1. \A i \in 1..w : ch[i] = <<no, lo + i - 1>> /\ ch[i] \in Nat \X Nat
  BY DEF PartBytes
<1>2. \A i \in (y + 1)..hi : ch[i] \in Nat \X Nat
  <2>1. \A i \in (y + 1)..hi : i \in 1..w
    OBVIOUS
  <2> HIDE DEF ch
  <2>2. QED
    BY <1>1, <2>1
<1>7. ch \in Seq(Nat \X Nat) /\ Len(ch) = w
  BY DEF PartBytes
<1> HIDE DEF ch
<1>3. /\ cut \in Seq(Nat \X Nat)
      /\ Len(cut) = IF y + 1 <= hi THEN hi - (y + 1) + 1 ELSE 0
      /\ \A i \in 1..(hi - (y + 1) + 1) : cut[i] = ch[(y + 1) + i - 1]
  BY <1>2, SubSeqProperties
<1> HIDE DEF cut
<1>4. Len(cut) = hi - y
  BY <1>3
<1>5. BytesFrom(cut, no, lo + y)
  <2>1. SUFFICES ASSUME NEW i \in 1..Len(cut) PROVE cut[i] = <<no, (lo + y) + i - 1>>
    BY DEF BytesFrom
  <2>2. /\ i \in 1..(hi - (y + 1) + 1) /\ (y + 1) + i - 1 = y + i /\ y + i \in 1..w
        /\ lo + (y + i) - 1 = (lo + y) + i - 1
    BY <1>4
  <2>3. cut[i] = ch[y + i]
    BY <1>3, <2>2
  <2>4. QED
    BY <1>1, <2>2, <2>3
<1>8. ASSUME y = 0, hi = w
      PROVE  cut = ch
  <2>1. Len(cut) = Len(ch)
    BY <1>4, <1>7, <1>8
  <2>2. \A i \in 1..Len(cut) : cut[i] = ch[i]
    <3>1. SUFFICES ASSUME NEW i \in 1..Len(cut) PROVE cut[i] = ch[i]
      OBVIOUS
    <3>2. i \in 1..(hi - (y + 1) + 1) /\ (y + 1) + i - 1 = i
      BY <1>4, <1>8
    <3>3. QED
      BY <1>3, <3>2
  <2>3. QED
    BY <1>3, <1>7, <2>1, <2>2, SeqEqual
<1>6. QED
  BY <1>3, <1>4, <1>5, <1>7, <1>8 DEF cut, ch, CutTo

\* A reader that fetched a chunk, and one of whose buffer some bytes were taken.
WithChunk(r, b, m, o) == [r EXCEPT !.buf = b, !.cur = m, !.offset = o]
WithRest(r, b, w) == [r EXCEPT !.buf = b, !.limit = w]

\* What they have in common with r, and what not.
ChunkFields(f, r, b, m, o) ==
  /\ f \in PartReaders /\ f.buf = b /\ f.cur = m /\ f.offset = o
  /\ f.part = r.part /\ f.limit = r.limit /\ f.chunk = r.chunk
  /\ f.left = r.left /\ f.right = r.right /\ f.total = r.total
RestFields(f, r, b, w) ==
  /\ f \in PartReaders /\ f.buf = b /\ f.cur = r.cur /\ f.offset = r.offset
  /\ f.part = r.part /\ f.limit = w /\ f.chunk = r.chunk
  /\ f.left = r.left /\ f.right = r.right /\ f.total = r.total

\* The fields of a reader before and after a chunk was fetched or bytes were taken.
LEMMA ReaderFields ==
  ASSUME NEW r \in PartReaders, NEW b \in Seq(Nat \X Nat)
  PROVE  /\ \A m \in Nat, o \in Nat : ChunkFields(WithChunk(r, b, m, o), r, b, m, o)
         /\ \A w \in Int : RestFields(WithRest(r, b, w), r, b, w)
<1>1. ASSUME NEW m \in Nat, NEW o \in Nat
      PROVE  ChunkFields(WithChunk(r, b, m, o), r, b, m, o)
  BY DEF PartReaders, WithChunk, ChunkFields
<1>2. ASSUME NEW w \in Int
      PROVE  RestFields(WithRest(r, b, w), r, b, w)
  BY DEF PartReaders, WithRest, RestFields
<1>3. QED
  BY <1>1, <1>2

\* The reader has bytes in its buffer, once it fetched a chunk if it had none.
LEMMA FilledAt ==
  ASSUME Body!BodyGiven, NEW r, NEW no \in Nat, NEW x, NEW last, ReaderAt(r, no, x, last),
         stored.parts[no + 1] \in Nat, last < stored.parts[no + 1]
  PROVE  /\ ReaderAt(Body!Filled(r), no, x, last)
         /\ Body!Filled(r).cur # 1 /\ Len(Body!Filled(r).buf) \in Nat \ {0}
<1>1. r \in PartReaders /\ last \in Nat /\ x \in 0..last /\ r.part = no
  BY DEF ReaderAt
<1>2. PICK c \in Nat \ {0}, cur \in Nat \ {0}, held \in Nat, k \in Nat, z \in Nat, most \in Nat :
        /\ r.chunk = c /\ r.cur = cur /\ held = stored.parts[no + 1] /\ k = last \div c
        /\ z = last % c /\ last = c * k + z /\ most = MaxChunk /\ c <= most
        /\ last < held /\ z \in 0..(c - 1)
  <2> DEFINE c == r.chunk
             k == last \div c
             z == last % c
  <2>1. c \in Nat \ {0} /\ r.cur \in Nat \ {0} /\ MaxChunk \in Nat /\ c <= MaxChunk
    <3>1. MaxChunk \in Nat
      BY DEF Body!BodyGiven
    <3>2. r.chunk \in 1..MaxChunk /\ r.cur \in Nat /\ r.cur >= 1
      BY DEF ReaderAt, PartReaders
    <3> HIDE DEF k, z
    <3>3. QED
      BY <3>1, <3>2
  <2>2. k \in Nat /\ z \in 0..(c - 1) /\ last = c * k + z
    <3> HIDE DEF c
    <3>1. QED
      BY <1>1, <2>1, DivMod
  <2>3. c \in Nat \ {0} /\ z \in 0..(c - 1) /\ c <= MaxChunk /\ last = c * k + z
    BY <2>1, <2>2
  <2> DEFINE G(c0, cur0, held0, k0, z0, most0) ==
        /\ r.chunk = c0 /\ r.cur = cur0 /\ held0 = stored.parts[no + 1] /\ k0 = last \div c0
        /\ z0 = last % c0 /\ last = c0 * k0 + z0 /\ most0 = MaxChunk /\ c0 <= most0
        /\ last < held0 /\ z0 \in 0..(c0 - 1)
  <2>4. G(c, r.cur, stored.parts[no + 1], k, z, MaxChunk)
    BY <2>1, <2>3
  <2>7. z \in Nat
    BY <2>1, <2>2
  <2> HIDE DEF G, c, k, z
  <2>5. \E c0 \in Nat \ {0}, cur0 \in Nat \ {0}, held0 \in Nat, k0 \in Nat, z0 \in Nat,
            most0 \in Nat : G(c0, cur0, held0, k0, z0, most0)
    BY <2>1, <2>2, <2>4, <2>7, Zenon
  <2>6. QED
    BY <2>5 DEF G
<1>3. PICK q \in Nat :
        /\ r.offset = c * q /\ r.total = cur + k - q
        /\ IF cur = 1
           THEN r.buf = <<>> /\ r.left \in 0..(c - 1) /\ r.offset + r.left = x
           ELSE /\ x + Len(r.buf) = IF q <= k THEN r.offset ELSE last + 1
                /\ Len(r.buf) <= most /\ BytesFrom(r.buf, no, x)
  BY <1>2 DEF ReaderAt
<1>4. r.buf \in Seq(Nat \X Nat) /\ r.limit = last - x + 1 /\ r.right = z + 1
  BY <1>2 DEF ReaderAt, PartReaders
<1>5. CASE r.buf # <<>>
  <2>1. Body!Filled(r) = r /\ r.cur # 1
    BY <1>2, <1>3, <1>5 DEF Body!Filled
  <2>2. Len(r.buf) \in Nat \ {0}
    BY <1>4, <1>5, EmptySeq, LenProperties
  <2>3. QED
    BY <2>1, <2>2
<1>6. CASE r.buf = <<>>
  <2>1. PICK y \in 0..(c - 1) : x = c * q + y /\ y = IF cur = 1 THEN r.left ELSE 0
    <3>1. CASE cur = 1
      <4>1. r.left \in 0..(c - 1) /\ x = c * q + r.left
        BY <1>3, <3>1
      <4>2. QED
        BY <3>1, <4>1
    <3>2. CASE cur # 1
      <4>1. Len(r.buf) = 0
        BY <1>6
      <4>2. x + 0 = (IF q <= k THEN c * q ELSE last + 1)
        BY <1>3, <3>2, <4>1
      <4>3. x = c * q + 0 /\ 0 \in 0..(c - 1)
        BY <1>1, <1>2, <4>2
      <4>4. QED
        BY <3>2, <4>3
    <3>3. QED
      BY <3>1, <3>2
  <2>20. last = c * k + z /\ z \in 0..(c - 1) /\ last < held
    BY <1>2
  <2>2. PICK hi \in Nat, w \in Nat, lo \in Nat :
          /\ hi = IF q = k THEN z + 1 ELSE c
          /\ lo = c * q /\ w = IF c <= held - lo THEN c ELSE held - lo
          /\ q <= k /\ y < hi /\ hi <= w /\ (q # k => w = c /\ hi = c)
          /\ x + (hi - y) = IF q + 1 <= k THEN c * (q + 1) ELSE last + 1
          /\ hi - y \in 1..c /\ lo + c = c * (q + 1)
    <3> DEFINE H == IF q = k THEN z + 1 ELSE c
               L == c * q
               W == IF c <= held - L THEN c ELSE held - L
    <3>1. /\ q <= k /\ L \in Nat /\ W \in Nat /\ H \in Nat /\ y < H /\ H <= W
          /\ q # k => W = c /\ H = c
          /\ x + (H - y) = IF q + 1 <= k THEN c * (q + 1) ELSE last + 1
          /\ H - y \in 1..c /\ L + c = c * (q + 1)
      BY <1>1, <2>1, <2>20, FillNumbers
    <3>2. QED
      BY <3>1
  <2> DEFINE ch == PartBytes(no, lo, w)
             cut == SubSeq(ch, y + 1, hi)
  <2>3. /\ cut \in Seq(Nat \X Nat) /\ Len(cut) = hi - y /\ BytesFrom(cut, no, lo + y)
        /\ Len(ch) = w /\ (y = 0 /\ hi = w => cut = ch)
    <3>1. y \in Nat /\ y < hi /\ hi <= w
      BY <2>2
    <3>2. QED
      <4>1. CutTo(cut, ch, no, lo, w, y, hi)
        BY <3>1, CutChunk, Zenon
      <4> HIDE DEF cut, ch
      <4>2. QED
        BY <4>1, Zenon DEF CutTo
  <2>4. Body!Chunk(r) = ch
    BY <1>1, <1>2, <1>3, <2>2 DEF Body!Chunk, Body!Least, PartBytes
  <2>5. Body!Cut(r, ch) = cut
    <3>1. r.total = cur + k - q /\ r.cur = cur /\ r.right = z + 1
      BY <1>2, <1>3, <1>4
    <3>2. (r.total = 1 <=> cur = 1 /\ q = k) /\ (cur = r.total <=> q = k)
      <4>1. q <= k
        BY <2>2
      <4>2. QED
        BY <3>1, <4>1
    <3> HIDE DEF ch
    <3>3. CASE q = k
      <4>1. hi = r.right /\ cur = r.total
        BY <2>2, <3>1, <3>2, <3>3
      <4>2. CASE cur = 1
        BY <2>1, <3>1, <3>2, <3>3, <4>1, <4>2 DEF Body!Cut
      <4>3. CASE cur # 1
        <5>1. y + 1 = 1
          BY <2>1, <4>3
        <5>2. Body!Cut(r, ch) = SubSeq(ch, 1, r.right)
          BY <3>1, <3>2, <3>3, <4>3 DEF Body!Cut
        <5>3. QED
          BY <4>1, <5>1, <5>2
      <4>4. QED
        BY <4>2, <4>3
    <3>4. CASE q # k
      <4>1. hi = w /\ Len(ch) = hi
        BY <2>2, <2>3, <3>4
      <4>2. CASE cur = 1
        BY <2>1, <3>1, <3>2, <3>4, <4>1, <4>2 DEF Body!Cut
      <4>3. CASE cur # 1
        <5>1. y = 0
          BY <2>1, <4>3
        <5>2. Body!Cut(r, ch) = ch
          BY <3>1, <3>2, <3>4, <4>3 DEF Body!Cut
        <5>3. QED
          BY <2>3, <4>1, <5>1, <5>2
      <4>4. QED
        BY <4>2, <4>3
    <3>5. QED
      BY <3>3, <3>4
  <2> DEFINE f == WithChunk(r, cut, cur + 1, lo + c)
  <2>6. Body!Filled(r) = f
    BY <1>2, <1>3, <1>6, <2>2, <2>4, <2>5 DEF Body!Filled, WithChunk
  <2> HIDE DEF cut
  <2>7. /\ f \in PartReaders /\ f.buf = cut /\ f.cur = cur + 1 /\ f.offset = lo + c
        /\ f.part = r.part
        /\ f.limit = r.limit /\ f.chunk = r.chunk /\ f.left = r.left /\ f.right = r.right
        /\ f.total = r.total
    <3>1. cur + 1 \in Nat /\ lo + c \in Nat
      BY <1>2, <2>2
    <3>2. ChunkFields(f, r, cut, cur + 1, lo + c)
      BY <1>1, <2>3, <3>1, ReaderFields, Zenon
    <3> HIDE DEF f
    <3>3. QED
      BY <3>2, Zenon DEF ChunkFields
  <2> HIDE DEF f
  <2>8. f.total = (cur + 1) + k - (q + 1) /\ cur + 1 # 1 /\ cur + 1 >= 1 /\ q + 1 \in Nat
    <3>1. f.total = cur + k - q
      BY <1>3, <2>7
    <3>2. QED
      BY <3>1
  <2>9. x = lo + y /\ hi - y <= most
    BY <1>2, <2>1, <2>2
  <2>10. ReaderAt(f, no, x, last)
    <3>1. /\ f.limit = last - x + 1 /\ f.chunk = c /\ f.chunk \in 1..MaxChunk
          /\ f.right = (last % c) + 1
          /\ f.part = no /\ f.cur >= 1
      <4>1. c \in 1..MaxChunk
        BY <1>2
      <4>2. /\ f.limit = last - x + 1 /\ f.chunk = c /\ f.right = (last % c) + 1
            /\ f.part = no /\ f.cur >= 1
        BY <1>1, <1>2, <1>4, <2>7, <2>8
      <4>3. QED
        BY <4>1, <4>2
    <3>2. f.offset = c * (q + 1) /\ f.total = f.cur + (last \div c) - (q + 1)
      BY <1>2, <2>2, <2>7, <2>8
    <3>3. /\ x + Len(f.buf) = (IF q + 1 <= last \div c THEN f.offset ELSE last + 1)
          /\ Len(f.buf) <= MaxChunk /\ BytesFrom(f.buf, no, x)
      BY <1>2, <2>2, <2>3, <2>7, <2>9, <3>2
    <3>4. f.cur # 1 /\ q + 1 \in Nat
      BY <2>7, <2>8
    <3>5. QED
      BY <1>1, <2>7, <3>1, <3>2, <3>3, <3>4 DEF ReaderAt
  <2>11. f.cur # 1 /\ Len(f.buf) \in Nat \ {0}
    <3>1. hi - y \in Nat \ {0}
      BY <1>2, <2>2
    <3>2. QED
      BY <2>3, <2>7, <2>8, <3>1
  <2>12. QED
    BY <2>6, <2>10, <2>11
<1>7. QED
  BY <1>5, <1>6

\* Some bytes were taken from the buffer, others of the part are left (tgReader.Read).
LEMMA TakenAt ==
  ASSUME Body!BodyGiven, NEW r, NEW no \in Nat, NEW x, NEW last, ReaderAt(r, no, x, last),
      r.cur # 1,
         NEW k \in 1..Len(r.buf), k < r.limit
  PROVE  /\ k \in Nat /\ x + k \in 0..last
         /\ ReaderAt(WithRest(r, SubSeq(r.buf, k + 1, Len(r.buf)), r.limit - k), no, x + k, last)
<1>1. /\ r \in PartReaders /\ last \in Nat /\ x \in 0..last /\ r.buf \in Seq(Nat \X Nat)
      /\ r.limit = last - x + 1
  BY DEF ReaderAt, PartReaders
<1>2. PICK len \in Nat, most \in Nat : len = Len(r.buf) /\ most = MaxChunk
  BY <1>1, LenProperties DEF Body!BodyGiven
<1>3. PICK q \in Nat :
        /\ r.offset = r.chunk * q /\ r.total = r.cur + (last \div r.chunk) - q
        /\ x + len = IF q <= last \div r.chunk THEN r.offset ELSE last + 1
        /\ len <= most /\ BytesFrom(r.buf, no, x)
  BY <1>2 DEF ReaderAt
<1> DEFINE rest == SubSeq(r.buf, k + 1, Len(r.buf))
           f == WithRest(r, rest, r.limit - k)
<1>4. rest \in Seq(Nat \X Nat) /\ Len(rest) = len - k /\ BytesFrom(rest, no, x + k)
  <2>1. x \in Nat /\ k \in 1..Len(r.buf)
    BY <1>1
  <2>2. QED
    BY <1>1, <1>2, <1>3, <2>1, BytesTaken
<1>5. k \in Nat /\ k <= len /\ k < last - x + 1 /\ k >= 1
  BY <1>1, <1>2
<1>6. /\ x + k \in 0..last /\ last - x + 1 - k \in Int /\ last - x + 1 - k = last - (x + k) + 1
      /\ len - k <= most /\ (x + k) + (len - k) = x + len
  <2>1. len <= most
    BY <1>3
  <2>2. QED
    BY <1>1, <1>5, <2>1
<1> HIDE DEF rest
<1>7. /\ f \in PartReaders /\ f.buf = rest /\ f.cur = r.cur /\ f.offset = r.offset
      /\ f.part = r.part /\ f.limit = last - x + 1 - k /\ f.chunk = r.chunk /\ f.left = r.left
      /\ f.right = r.right /\ f.total = r.total
  <2>1. r.limit - k \in Int /\ r.limit - k = last - x + 1 - k
    BY <1>1, <1>6
  <2> HIDE DEF f
  <2>2. QED
    <3>1. RestFields(f, r, rest, r.limit - k)
      BY <1>1, <1>4, <2>1, ReaderFields, Zenon DEF f
    <3>2. QED
      BY <2>1, <3>1, Zenon DEF RestFields
<1> HIDE DEF f
<1>8. /\ f.part = no /\ f.limit = last - (x + k) + 1 /\ f.chunk \in 1..MaxChunk
      /\ f.right = (last % f.chunk) + 1 /\ f.cur >= 1 /\ f.cur # 1
  BY <1>6, <1>7 DEF ReaderAt
<1>9. /\ f.offset = f.chunk * q /\ f.total = f.cur + (last \div f.chunk) - q
      /\ (x + k) + Len(f.buf) = (IF q <= last \div f.chunk THEN f.offset ELSE last + 1)
      /\ Len(f.buf) <= MaxChunk /\ BytesFrom(f.buf, no, x + k)
  BY <1>2, <1>3, <1>4, <1>6, <1>7
<1>10. ReaderAt(f, no, x + k, last)
  BY <1>1, <1>6, <1>7, <1>8, <1>9 DEF ReaderAt
<1>11. QED
  BY <1>5, <1>6, <1>10 DEF f, rest

\* What is kept are as many as there are members in S.
LEMMA KeepCount ==
  ASSUME NEW T, NEW s \in Seq(T), NEW S
  PROVE  LET in == {j \in 1..Len(s) : s[j] \in S}
         IN  IsFiniteSet(in) /\ Len(Keep(s, S)) = Cardinality(in)
<1> DEFINE w == Len(s)
           In(m) == {j \in 1..m : s[j] \in S}
<1>1. w \in Nat
  OBVIOUS
<1>2. PICK g : /\ Keep(s, S) = g[Len(s)] /\ g[0] = <<>>
               /\ \A i \in 1..Len(s) :
                    g[i] = IF s[i] \in S THEN Append(g[i - 1], s[i]) ELSE g[i - 1]
  BY KeepEquation
<1> DEFINE N == {m \in Nat : m <= w => /\ g[m] \in Seq(T) /\ IsFiniteSet(In(m))
                                       /\ Len(g[m]) = Cardinality(In(m))}
<1>3. 0 \in N
  <2>1. In(0) = {}
    OBVIOUS
  <2> HIDE DEF In
  <2>2. IsFiniteSet(In(0)) /\ Cardinality(In(0)) = 0
    BY <2>1, FS_EmptySet
  <2>3. g[0] \in Seq(T) /\ Len(g[0]) = 0
    BY <1>2
  <2>4. QED
    BY <2>2, <2>3
<1>4. ASSUME NEW m \in N
      PROVE  m + 1 \in N
  <2>1. SUFFICES ASSUME m + 1 <= w
                 PROVE  /\ g[m + 1] \in Seq(T) /\ IsFiniteSet(In(m + 1))
                        /\ Len(g[m + 1]) = Cardinality(In(m + 1))
    OBVIOUS
  <2>2. m \in Nat /\ m + 1 \in 1..Len(s) /\ s[m + 1] \in T
    BY <1>1, <2>1, ElementOfSeq
  <2>3. g[m] \in Seq(T) /\ IsFiniteSet(In(m)) /\ Len(g[m]) = Cardinality(In(m))
    BY <1>1, <2>1, <2>2
  <2>4. g[m + 1] = IF s[m + 1] \in S THEN Append(g[m], s[m + 1]) ELSE g[m]
    <3>1. (m + 1) - 1 = m
      BY <2>2
    <3>2. QED
      BY <1>2, <2>2, <3>1
  <2>5. CASE s[m + 1] \in S
    <3>1. In(m + 1) = In(m) \cup {m + 1} /\ m + 1 \notin In(m)
      BY <2>2, <2>5
    <3> HIDE DEF In
    <3>2. IsFiniteSet(In(m + 1)) /\ Cardinality(In(m + 1)) = Cardinality(In(m)) + 1
      BY <2>3, <3>1, FS_AddElement
    <3>3. g[m + 1] \in Seq(T) /\ Len(g[m + 1]) = Len(g[m]) + 1
      BY <2>2, <2>3, <2>4, <2>5
    <3>4. QED
      BY <2>3, <3>2, <3>3
  <2>6. CASE s[m + 1] \notin S
    <3>1. In(m + 1) = In(m)
      BY <2>2, <2>6
    <3> HIDE DEF In
    <3>2. QED
      BY <2>3, <2>4, <2>6, <3>1
  <2>7. QED
    BY <2>5, <2>6
<1>5. N = Nat
  <2>1. N \in SUBSET Nat /\ \A m \in N : m + 1 \in N
    BY <1>4
  <2> HIDE DEF N
  <2>2. QED
    BY <1>3, <2>1, Induct
<1>6. IsFiniteSet(In(w)) /\ Len(g[w]) = Cardinality(In(w))
  <2>1. w \in N
    <3> HIDE DEF N
    <3>1. QED
      BY <1>1, <1>5
  <2> HIDE DEF In
  <2>2. QED
    BY <2>1
<1>7. QED
  BY <1>2, <1>6

\* A valid range-spec is one that asks for bytes of the file and is no suffix longer than it.
LEMMA ValidAsked ==
  ASSUME NEW spec \in Body!Specs, NEW bytes \in Nat \ {0}
  PROVE  /\ Body!Valid(spec, bytes) <=>
              Body!Asked(spec, bytes) # {} /\ ~(spec.first = Body!Absent /\ spec.last > bytes)
         /\ Body!Valid(spec, bytes) =>
              /\ Body!StartOf(spec, bytes) \in Nat /\ Body!EndOf(spec, bytes) \in Nat
              /\ Body!StartOf(spec, bytes) <= Body!EndOf(spec, bytes)
              /\ Body!EndOf(spec, bytes) < bytes
              /\ Body!StartOf(spec, bytes)..Body!EndOf(spec, bytes) = Body!Asked(spec, bytes)
<1>1. PICK a \in Int, b \in Int : /\ spec.first = a /\ spec.last = b /\ a >= -1 /\ b >= -1
  BY DEF Body!Specs, Body!Absent
<1> DEFINE from == IF a = -1 THEN bytes - b ELSE a
           to == IF a = -1 \/ b = -1 THEN bytes - 1 ELSE IF b <= bytes - 1 THEN b ELSE bytes - 1
           asked == {p0 \in 0..(bytes - 1) : IF a = -1 THEN b # -1 /\ p0 >= bytes - b
                                             ELSE p0 >= a /\ (b # -1 => p0 <= b)}
           valid == ~(a = -1 /\ b = -1) /\ from \in 0..to
<1>2. /\ Body!StartOf(spec, bytes) = from /\ Body!EndOf(spec, bytes) = to
      /\ Body!Asked(spec, bytes) = asked /\ (Body!Valid(spec, bytes) <=> valid)
  BY <1>1 DEF Body!StartOf, Body!EndOf, Body!Asked, Body!Valid, Body!Absent, Body!Least
<1>3. valid => from \in Nat /\ to \in Nat /\ from <= to /\ to < bytes
  BY <1>1
<1>4. valid => from..to = asked
  <2>1. SUFFICES ASSUME valid PROVE \A p0 \in Int : p0 \in from..to <=> p0 \in asked
    BY <1>3
  <2>2. QED
    BY <1>1, <2>1
<1>5. valid => asked # {} /\ ~(a = -1 /\ b > bytes)
  <2>1. SUFFICES ASSUME valid PROVE asked # {} /\ ~(a = -1 /\ b > bytes)
    OBVIOUS
  <2>2. from \in from..to
    BY <1>3, <2>1
  <2>3. asked # {}
    <3> HIDE DEF asked
    <3>1. QED
      BY <1>4, <2>1, <2>2
  <2>4. QED
    BY <1>1, <2>1, <2>3
<1>6. asked # {} /\ ~(a = -1 /\ b > bytes) => valid
  <2>1. SUFFICES ASSUME NEW p0 \in asked, ~(a = -1 /\ b > bytes) PROVE valid
    OBVIOUS
  <2>2. QED
    BY <1>1, <2>1
<1>7. /\ valid <=> asked # {} /\ ~(a = -1 /\ b > bytes)
  BY <1>5, <1>6
<1> HIDE DEF from, to, asked, valid
<1>8. spec.first = Body!Absent <=> a = -1
  BY <1>1 DEF Body!Absent
<1>9. QED
  BY <1>1, <1>2, <1>3, <1>4, <1>7, <1>8

\* The range-specs of the header that are valid, and the range of one.
ValidSpecs(bytes) == {i \in DOMAIN header : Body!Valid(header[i], bytes)}
RangeOf(spec, bytes) == [start |-> Body!StartOf(spec, bytes), end |-> Body!EndOf(spec, bytes)]

\* The ranges of a header are those of its valid range-specs.
LEMMA ParsedRanges ==
  ASSUME Body!BodyGiven, header \in Headers, NEW bytes \in Nat \ {0}
  PROVE  /\ Len(Body!Parse(header, bytes)) = Cardinality(ValidSpecs(bytes))
         /\ Len(Body!Parse(header, bytes)) = 1 => \E i \in ValidSpecs(bytes) :
              Body!Parse(header, bytes)[1] = RangeOf(header[i], bytes)
<1> USE DEF ValidSpecs, RangeOf
<1> DEFINE S == {spec \in Body!Specs : Body!Valid(spec, bytes)}
           chosenSpecs == Keep(header, S)
           kept == Body!Parse(header, bytes)
           in == {i \in DOMAIN header : Body!Valid(header[i], bytes)}
<1>1. header \in Seq(Body!Specs)
  BY DEF Body!BodyGiven
<1>2. DOMAIN header = 1..Len(header) /\ \A i \in 1..Len(header) : header[i] \in Body!Specs
  BY <1>1
<1>3. Len(chosenSpecs) = Cardinality({j \in 1..Len(header) : header[j] \in S})
  <2> HIDE DEF S
  <2>1. QED
    BY <1>1, KeepCount
<1>4. {j \in 1..Len(header) : header[j] \in S} = in
  BY <1>2
<1>5. /\ chosenSpecs \in Seq(Body!Specs)
      /\ \A i \in 1..Len(chosenSpecs) : \E j \in 1..Len(header) :
           chosenSpecs[i] = header[j] /\ header[j] \in S
  <2> HIDE DEF S
  <2>1. QED
    BY <1>1, KeepMembers
<1> HIDE DEF chosenSpecs
<1>6. kept = [i \in DOMAIN chosenSpecs |-> [start |-> Body!StartOf(chosenSpecs[i], bytes),
                                            end |-> Body!EndOf(chosenSpecs[i], bytes)]]
  BY DEF Body!Parse, Body!Keep, Keep, chosenSpecs
<1>7. DOMAIN chosenSpecs = 1..Len(chosenSpecs) /\ Len(chosenSpecs) \in Nat
  BY <1>5
<1>8. Len(kept) = Len(chosenSpecs)
  BY <1>6, <1>7
<1>9. ASSUME Len(kept) = 1
      PROVE  \E i \in in : kept[1] = [start |-> Body!StartOf(header[i], bytes),
                                      end |-> Body!EndOf(header[i], bytes)]
  <2>1. 1 \in 1..Len(chosenSpecs)
    BY <1>7, <1>8, <1>9
  <2>2. PICK j \in 1..Len(header) : chosenSpecs[1] = header[j] /\ header[j] \in S
    BY <1>5, <2>1
  <2>3. j \in in
    BY <1>4, <2>2
  <2>4. kept[1] = [start |-> Body!StartOf(header[j], bytes), end |-> Body!EndOf(header[j], bytes)]
    BY <1>6, <1>7, <2>1, <2>2
  <2>5. QED
    BY <2>3, <2>4
<1>10. QED
  BY <1>3, <1>4, <1>8, <1>9

\* The size of all parts but the last, and how many there are.
FirstSize == stored.parts[1]
PartCount == Len(stored.parts)

\* Parts that have a size.
LEMMA PartSizes ==
  ASSUME Body!BodyGiven, stored \in Files, stored.size > 0
  PROVE  /\ stored.size \in Nat /\ FirstSize \in Nat \ {0} /\ PartCount \in Nat \ {0}
         /\ \A i \in 1..PartCount : stored.parts[i] \in Nat \ {0} /\ stored.parts[i] <= FirstSize
         /\ \A i \in 1..PartCount : i < PartCount => stored.parts[i] = FirstSize
         /\ Body!Covered(stored) = (PartCount - 1) * FirstSize + stored.parts[PartCount]
         /\ stored.size <= Body!Covered(stored) \/ stored.parts[PartCount] = FirstSize
<1>1. stored.size \in Nat /\ stored.parts \in Seq(Nat \ {0}) /\ stored.parts # <<>>
  BY DEF Body!BodyGiven
<1>2. PartCount \in Nat \ {0} /\ \A i \in 1..PartCount : stored.parts[i] \in Nat \ {0}
  BY <1>1, EmptySeq, LenProperties, ElementOfSeq DEF PartCount
<1>3. \A i \in 1..Len(stored.parts) :
        IF i < Len(stored.parts) THEN stored.parts[i] = stored.parts[1]
                                 ELSE stored.parts[i] <= stored.parts[1]
  BY DEF Body!BodyGiven
<1>4. \A i \in 1..PartCount : /\ i < PartCount => stored.parts[i] = FirstSize
                              /\ ~(i < PartCount) => stored.parts[i] <= FirstSize
  BY <1>3 DEF PartCount, FirstSize
<1>5. FirstSize \in Nat \ {0}
  BY <1>2 DEF FirstSize
<1>6. \A i \in 1..PartCount : stored.parts[i] <= FirstSize
  BY <1>2, <1>4, <1>5
<1>7. Body!Covered(stored) = (PartCount - 1) * FirstSize + stored.parts[PartCount]
  BY <1>1 DEF Body!Covered, PartCount, FirstSize
<1>8. stored.size <= Body!Covered(stored) \/ stored.parts[PartCount] = FirstSize
  BY DEF Body!BodyGiven, PartCount, FirstSize
<1>9. QED
  BY <1>1, <1>2, <1>4, <1>5, <1>6, <1>7, <1>8

\* A range of part no of a file ends within the part, and only a record that declares more
\* than its parts hold has ranges of parts that are missing.
LEMMA RangeWithinPart ==
  ASSUME Body!BodyGiven, stored \in Files, stored.size > 0, NEW no \in Nat, NEW e \in Nat,
         e < stored.size, no * FirstSize <= e, NEW last \in Nat,
         last = IF FirstSize - 1 <= e - no * FirstSize THEN FirstSize - 1 ELSE e - no * FirstSize
  PROVE  /\ no < PartCount => stored.parts[no + 1] \in Nat /\ last < stored.parts[no + 1]
         /\ no >= PartCount => /\ Body!Covered(stored) = PartCount * FirstSize
                               /\ e >= Body!Covered(stored)
<1>1. PICK size0 \in Nat, w \in Nat \ {0}, m \in Nat \ {0}, z \in Nat, cov \in Nat, a \in Nat,
      b \in Nat :
        /\ size0 = stored.size /\ w = FirstSize /\ m = PartCount /\ z = stored.parts[PartCount]
        /\ z <= w /\ cov = Body!Covered(stored) /\ a = no * w /\ b = (m - 1) * w
        /\ cov = b + z /\ (size0 <= cov \/ z = w) /\ a <= e /\ e < size0 /\ m * w = b + w
        /\ last = IF w - 1 <= e - a THEN w - 1 ELSE e - a
        /\ \A i \in 1..m : stored.parts[i] \in Nat /\ (i < m => stored.parts[i] = w)
  <2> DEFINE G(size0, w, m, z, cov, a, b) ==
        /\ size0 = stored.size /\ w = FirstSize /\ m = PartCount /\ z = stored.parts[PartCount]
        /\ z <= w /\ cov = Body!Covered(stored) /\ a = no * w /\ b = (m - 1) * w
        /\ cov = b + z /\ (size0 <= cov \/ z = w) /\ a <= e /\ e < size0 /\ m * w = b + w
        /\ last = IF w - 1 <= e - a THEN w - 1 ELSE e - a
        /\ \A i \in 1..m : stored.parts[i] \in Nat /\ (i < m => stored.parts[i] = w)
             w == FirstSize
             m == PartCount
             z == stored.parts[PartCount]
             a == no * w
             b == (m - 1) * w
  <2>1. w \in Nat \ {0} /\ m \in Nat \ {0} /\ z \in Nat /\ z <= w /\ stored.size \in Nat
    BY PartSizes
  <2>2. a \in Nat /\ b \in Nat /\ m * w = b + w
    <3> HIDE DEF w, m
    <3>1. (m - 1) * w = m * w - w /\ m - 1 \in Nat
      BY <2>1
    <3>2. QED
      BY <2>1, <3>1
  <2>3. Body!Covered(stored) = b + z /\ b + z \in Nat /\ (stored.size <= b + z \/ z = w)
    BY <2>1, <2>2, PartSizes
  <2>4. \A i \in 1..m : stored.parts[i] \in Nat /\ (i < m => stored.parts[i] = w)
    BY PartSizes
  <2>5. G(stored.size, w, m, z, b + z, a, b)
    BY <2>1, <2>2, <2>3, <2>4
  <2> HIDE DEF G, w, m, z, a, b
  <2>6. \E size0 \in Nat, w0 \in Nat \ {0}, m0 \in Nat \ {0}, z0 \in Nat, cov0 \in Nat, a0 \in Nat,
           b0 \in Nat : G(size0, w0, m0, z0, cov0, a0, b0)
    BY <2>1, <2>2, <2>3, <2>5, Zenon
  <2>7. QED
    BY <2>6, Zenon DEF G
<1>2. CASE no + 1 < m
  <2>1. no + 1 \in 1..m /\ stored.parts[no + 1] = w
    BY <1>1, <1>2
  <2>2. last < w /\ no < PartCount
    BY <1>1, <1>2
  <2>3. QED
    BY <1>1, <2>1, <2>2
<1>3. CASE no + 1 = m
  <2>1. a = b
    BY <1>1, <1>3
  <2>2. last < z
    <3>1. z = w \/ e < b + z
      BY <1>1
    <3>2. QED
      BY <1>1, <2>1, <3>1
  <2>3. QED
    BY <1>1, <1>3, <2>2
<1>4. CASE no >= m
  <2>1. a >= m * w
    BY <1>1, <1>4
  <2>2. z = w
    BY <1>1, <2>1
  <2>3. cov = m * w /\ e >= cov
    BY <1>1, <2>1, <2>2
  <2>4. QED
    BY <1>1, <1>4, <2>3
<1>5. QED
  BY <1>1, <1>2, <1>3, <1>4

\* The last byte that is wanted of part no, in the part, when parts have w bytes.
LastByte(w, no, e) == IF w - 1 <= e - no * w THEN w - 1 ELSE e - no * w

\* Part no is among the ranges of bytes s to e, and at is the first byte that is wanted of it.
PartFits(no, w, s, e, p0, at, rest) ==
  /\ no \in Nat /\ p0 + 1 \in 1..((e \div w) - (s \div w) + 1)
  /\ no * w \in Nat /\ no * w <= e /\ rest \in Nat /\ at - no * w \in 0..rest
  /\ at - no * w = IF s > no * w THEN s - no * w ELSE 0

\* The numbers of a range of parts: byte at is the first that is wanted of part no.
LEMMA PartNumbers ==
  ASSUME NEW w \in Nat \ {0}, NEW s \in Nat, NEW e \in Nat, NEW p0 \in Nat, NEW no,
         no = (s \div w) + p0, NEW at \in Nat, at = (IF s > no * w THEN s ELSE no * w), at <= e,
         NEW rest, rest = IF w - 1 <= e - no * w THEN w - 1 ELSE e - no * w
  PROVE  PartFits(no, w, s, e, p0, at, rest)
<1> USE DEF PartFits
<1>1. PICK qs \in Nat, zs \in 0..(w - 1) : qs = s \div w /\ s = w * qs + zs
  <2>1. s \div w \in Nat /\ s % w \in 0..(w - 1) /\ s = w * (s \div w) + (s % w)
    BY DivMod
  <2>2. QED
    BY <2>1, Zenon
<1>2. PICK qe \in Nat, ze \in 0..(w - 1) : qe = e \div w /\ e = w * qe + ze
  <2>1. e \div w \in Nat /\ e % w \in 0..(w - 1) /\ e = w * (e \div w) + (e % w)
    BY DivMod
  <2>2. QED
    BY <2>1, Zenon
<1>3. no = qs + p0 /\ no \in Nat
  BY <1>1
<1>4. PICK a \in Nat, b \in Nat, d \in Nat :
        a = no * w /\ b = w * qs /\ d = w * qe
  BY <1>1, <1>2, <1>3
<1>5. no <= qe
  <2>1. SUFFICES ASSUME no >= qe + 1 PROVE FALSE
    BY <1>2, <1>3
  <2>2. no * w >= (qe + 1) * w /\ (qe + 1) * w = w * qe + w
    BY <1>2, <1>3, <2>1
  <2>3. a >= d + w /\ e = d + ze /\ a <= at
    BY <1>2, <1>4, <2>2
  <2>4. QED
    BY <1>2, <1>4, <2>3
<1>6. CASE p0 = 0
  <2>1. a = b
    BY <1>1, <1>3, <1>4, <1>6
  <2>2. s = b + zs
    BY <1>1, <1>4
  <2>3. at = s /\ at - a = zs /\ at - a \in 0..(w - 1) /\ a <= at
    BY <1>1, <1>4, <2>1, <2>2
  <2>4. at - a = IF s > a THEN s - a ELSE 0
    BY <1>4, <2>3
  <2>5. a <= e /\ rest \in Nat /\ at - a \in 0..rest
    BY <1>4, <2>3
  <2>6. QED
    BY <1>1, <1>2, <1>3, <1>4, <1>5, <2>4, <2>5
<1>7. CASE p0 # 0
  <2>1. no >= qs + 1
    BY <1>3, <1>7
  <2>2. no * w >= (qs + 1) * w /\ (qs + 1) * w = w * qs + w
    BY <1>1, <1>3, <2>1
  <2>3. a >= b + w /\ s = b + zs
    BY <1>1, <1>4, <2>2
  <2>4. s < a /\ at = a
    BY <1>1, <1>4, <2>3
  <2>5. a <= e /\ rest \in Nat /\ at - a = 0
    BY <1>4, <2>4
  <2>6. at - a \in 0..rest
    BY <2>5
  <2>7. QED
    BY <1>1, <1>2, <1>3, <1>4, <1>5, <2>4, <2>5, <2>6
<1>8. QED
  BY <1>6, <1>7

\* The reader of part no starts at byte at, or there is no such part.
PartStarts(no, at, e) ==
  /\ no \in Nat /\ no * FirstSize \in Nat /\ no * FirstSize <= e
  /\ IF no >= PartCount THEN tr' = Body!NoReader /\ end' = "mismatch"
     ELSE end' = "nil" /\ ReaderAt(tr', no, at - no * FirstSize, LastByte(FirstSize, no, e))

\* The reader of the next part is at the first byte that is wanted, or the part is missing
\* (calculatePartByteRanges, getPartReader).
LEMMA StartsPart ==
  ASSUME Body!BodyGiven, stored \in Files, stored.size > 0, NEW s \in Nat, NEW e \in Nat, s <= e,
         e < stored.size, range'.start = s, range'.end = e, NEW p0 \in Nat, NEW at \in Nat, at <= e,
         NEW no, no = (s \div FirstSize) + p0,
         at = (IF s > no * FirstSize THEN s ELSE no * FirstSize), Body!StartPart(p0)
  PROVE  PartStarts(no, at, e)
<1> USE DEF PartStarts
<1>1. FirstSize \in Nat \ {0} /\ PartCount \in Nat \ {0}
  BY PartSizes
<1> DEFINE w == FirstSize
           rest == LastByte(FirstSize, no, e)
           from == IF s > no * w THEN s - no * w ELSE 0
<1>2. rest = IF w - 1 <= e - no * w THEN w - 1 ELSE e - no * w
  BY DEF LastByte
<1>3. /\ no \in Nat /\ p0 + 1 \in 1..((e \div w) - (s \div w) + 1)
      /\ no * w \in Nat /\ no * w <= e /\ rest \in Nat /\ at - no * w \in 0..rest
      /\ at - no * w = from
  <2> HIDE DEF w, rest
  <2>1. w \in Nat \ {0}
    BY <1>1 DEF w
  <2>2. no = (s \div w) + p0 /\ at = (IF s > no * w THEN s ELSE no * w)
    BY DEF w
  <2>3. PartFits(no, w, s, e, p0, at, rest)
    BY <1>2, <2>1, <2>2, PartNumbers, Zenon
  <2>4. QED
    BY <2>3, Zenon DEF PartFits
<1> DEFINE r == Body!PartRanges(range'.start, range'.end)[p0 + 1]
<1>4. (s \div w) + (p0 + 1) - 1 = no
  BY <1>1, DivMod
<1>5. r = [no |-> no, start |-> from, end |-> rest]
  <2>1. r = LET n0 == (s \div w) + (p0 + 1) - 1
            IN  [no |-> n0, start |-> IF s > n0 * w THEN s - n0 * w ELSE 0,
                 end |-> Body!Least(w - 1, e - n0 * w)]
    BY <1>3 DEF Body!PartRanges, Body!PartSize, FirstSize
  <2>2. Body!Least(w - 1, e - no * w) = rest
    BY <1>2 DEF Body!Least
  <2>3. QED
    BY <1>4, <2>1, <2>2
<1>6. IF Body!PartMissing(r.no) THEN tr' = Body!NoReader /\ end' = "mismatch"
      ELSE tr' = Body!NewReader(r.no, r.start, r.end) /\ end' = "nil"
  BY DEF Body!StartPart
<1>7. Body!PartMissing(no) <=> no >= PartCount
  BY DEF Body!PartMissing, PartCount
<1> HIDE DEF r, from, rest, w
<1>8. r.no = no /\ r.start = at - no * w /\ r.end = rest
  BY <1>3, <1>5
<1>9. ReaderAt(Body!NewReader(no, at - no * w, rest), no, at - no * w, rest)
  BY <1>3, NewReaderAt
<1>10. no >= PartCount => tr' = Body!NoReader /\ end' = "mismatch"
  BY <1>6, <1>7, <1>8
<1>11. ~(no >= PartCount) => end' = "nil" /\ ReaderAt(tr', no, at - no * w, rest)
  BY <1>6, <1>7, <1>8, <1>9
<1>12. QED
  BY <1>3, <1>10, <1>11 DEF w, rest

\* What a reader holds in its buffer is wanted.
LEMMA BufferWanted ==
  ASSUME Body!BodyGiven, NEW r, NEW no, NEW x, NEW last, ReaderAt(r, no, x, last), r.cur # 1
  PROVE  /\ Len(r.buf) \in Nat /\ r.buf \in Seq(Nat \X Nat) /\ BytesFrom(r.buf, no, x)
         /\ x + Len(r.buf) <= last + 1 /\ r.limit = last - x + 1
<1>1. /\ r \in PartReaders /\ last \in Nat /\ x \in 0..last /\ r.buf \in Seq(Nat \X Nat)
      /\ r.limit = last - x + 1
  BY DEF ReaderAt, PartReaders
<1>2. PICK c \in Nat \ {0} : c = r.chunk
  BY DEF ReaderAt, Body!BodyGiven
<1>3. PICK len \in Nat : len = Len(r.buf)
  BY <1>1, LenProperties
<1>4. PICK k \in Nat, z \in 0..(c - 1) : k = last \div c /\ last = c * k + z
  <2>1. last \in Nat
    BY <1>1
  <2>2. /\ last \div c \in Nat /\ last % c \in 0..(c - 1)
        /\ last = c * (last \div c) + (last % c)
    BY <2>1, DivMod, Zenon
  <2>3. QED
    BY <2>2, Zenon
<1>5. PICK q \in Nat : /\ x + len = IF q <= k THEN c * q ELSE last + 1
                       /\ BytesFrom(r.buf, no, x)
  BY <1>2, <1>3, <1>4 DEF ReaderAt
<1>6. q <= k => c * q <= last
  <2>1. SUFFICES ASSUME q <= k PROVE c * q <= last
    OBVIOUS
  <2>2. c * q <= c * k
    BY <2>1
  <2>3. QED
    BY <1>4, <2>2
<1>7. x + len <= last + 1
  BY <1>1, <1>5, <1>6
<1>8. QED
  BY <1>1, <1>3, <1>5, <1>7

\* The byte at position y of part no.
LEMMA ByteOfPart ==
  ASSUME FirstSize \in Nat \ {0}, NEW no \in Nat, NEW y \in 0..(FirstSize - 1), NEW b,
         b = no * FirstSize + y
  PROVE  Body!ByteAt(b) = <<no, y>>
<1> DEFINE w == FirstSize
<1>1. b \in Nat
  OBVIOUS
<1> HIDE DEF w
<1>2. w \in Nat \ {0} /\ y \in 0..(w - 1) /\ b = w * no + y
  BY DEF w
<1>3. b \div w \in Nat /\ b % w \in 0..(w - 1) /\ b = w * (b \div w) + (b % w)
  BY <1>1, <1>2, DivMod
<1>4. b \div w = no /\ b % w = y
  <2> DEFINE q2 == b \div w
             y2 == b % w
  <2>1. q2 \in Int /\ y2 \in 0..(w - 1) /\ w * no + y = w * q2 + y2
    BY <1>2, <1>3
  <2> HIDE DEF q2, y2
  <2>2. no = q2 /\ y = y2
    BY <1>2, <2>1, DivUnique
  <2>3. QED
    BY <2>2 DEF q2, y2
<1>5. QED
  BY <1>4 DEF Body!ByteAt, Body!PartSize, w, FirstSize

\* The position of the next byte in the file, and the part that it is in.
NextByte == range.start + Len(read)
PartNo == (range.start \div FirstSize) + pos

\* Between two reads the reader is at the next byte of its part, which is one that is wanted.
Midway ==
  /\ PartNo \in Nat /\ PartNo < PartCount
  /\ PartNo * FirstSize \in Nat /\ PartNo * FirstSize <= NextByte /\ NextByte <= range.end
  /\ ReaderAt(tr, PartNo, NextByte - PartNo * FirstSize, LastByte(FirstSize, PartNo, range.end))

\* What a stream with a body has delivered, and how it ends.
BodyStreams ==
  /\ range.start \in Nat /\ range.end \in Nat /\ range.start <= range.end
  /\ range.end < stored.size
  /\ remaining = range.end - range.start + 1 - Len(read)
  /\ \A i \in 1..Len(read) : read[i] = Body!ByteAt(range.start + i - 1)
  /\ end \in {"nil", "failed"} => Midway
  /\ end = "EOF" => remaining = 0 /\ tr = Body!NoReader
  /\ end = "mismatch" =>
       /\ tr = Body!NoReader /\ range.end >= Body!Covered(stored)
       /\ Len(read) = IF range.start < Body!Covered(stored)
                      THEN Body!Covered(stored) - range.start ELSE 0

BodyTypes ==
  /\ stored \in Files /\ header \in Headers /\ range \in [start : Nat, end : Nat]
  /\ status \in {0, 200, 206, 416} /\ end \in {"nil", "EOF", "mismatch", "failed"}
  /\ remaining \in Nat /\ pos \in Nat /\ pos <= Len(stored.parts) /\ read \in Seq(Nat \X Nat)

BodyInv ==
  /\ BodyTypes /\ Body!AskedIsServed
  /\ status = 0 => read = <<>> /\ end = "nil" /\ pos = 0 /\ tr = Body!NoReader
  /\ status = 416 \/ (status # 0 /\ stored.size = 0) =>
       read = <<>> /\ end = "EOF" /\ tr = Body!NoReader
  /\ status \in {200, 206} /\ stored.size > 0 => BodyStreams

\* The response of a body: a range of the file, and nothing of it read.
Responds(s, e) ==
  /\ range' = [start |-> s, end |-> e] /\ status' \in {200, 206} /\ remaining' = e - s + 1
  /\ read = <<>> /\ pos = 0 /\ UNCHANGED <<stored, header, pos, read>>

\* A body begins: the response has a status and a range of the file.
LEMMA BodyBegins ==
  ASSUME Body!BodyGiven, BodyTypes, stored.size > 0, NEW s \in Nat, NEW e \in Nat, s <= e,
         e < stored.size, Responds(s, e), Body!StartPart(0)
  PROVE  BodyTypes' /\ BodyStreams'
<1>1. range'.start = s /\ range'.end = e /\ range' \in [start : Nat, end : Nat]
  BY DEF Responds
<1>2. stored \in Files /\ FirstSize \in Nat \ {0} /\ PartCount \in Nat \ {0}
  BY PartSizes DEF BodyTypes
<1>3. PICK no \in Nat : /\ no = (s \div FirstSize) + 0
                         /\ no * FirstSize <= s /\ no * FirstSize \in Nat
  <2> DEFINE w == FirstSize
  <2>1. w \in Nat \ {0}
    BY <1>2
  <2> HIDE DEF w
  <2>2. s \div w \in Nat /\ s % w \in 0..(w - 1) /\ s = w * (s \div w) + (s % w)
    BY <2>1, DivMod
  <2> DEFINE z == s % w
             no == s \div w
             a == no * w
  <2>3. no \in Nat /\ z \in Nat /\ a \in Nat /\ s = a + z /\ no = (s \div w) + 0
    BY <2>1, <2>2
  <2> HIDE DEF z, no, a
  <2>4. a <= s
    BY <2>3
  <2>5. \E m \in Nat : m = (s \div w) + 0 /\ m * w <= s /\ m * w \in Nat
    BY <2>3, <2>4 DEF a
  <2>6. QED
    BY <2>5 DEF w
<1>5. s = (IF s > no * FirstSize THEN s ELSE no * FirstSize)
  BY <1>3
<1>6. IF no >= PartCount THEN tr' = Body!NoReader /\ end' = "mismatch"
      ELSE end' = "nil" /\ ReaderAt(tr', no, s - no * FirstSize, LastByte(FirstSize, no, e))
  <2>1. 0 \in Nat
    OBVIOUS
  <2>2. PartStarts(no, s, e)
    BY <1>1, <1>2, <1>3, <1>5, <2>1, StartsPart, ZenonT(90)
  <2>3. QED
    BY <2>2 DEF PartStarts
<1>7. NextByte' = s /\ Len(read') = 0 /\ PartNo' = no /\ pos' = 0 /\ FirstSize' = FirstSize
      /\ PartCount' = PartCount /\ read' = <<>> /\ stored' = stored
  <2>1. read' = <<>> /\ Len(read') = 0 /\ pos' = 0 /\ stored' = stored
    BY DEF Responds
  <2>2. NextByte' = s
    BY <1>1, <2>1 DEF NextByte
  <2>3. FirstSize' = FirstSize /\ PartCount' = PartCount
    BY <2>1 DEF FirstSize, PartCount
  <2>4. PartNo' = no
    BY <1>1, <1>3, <2>1, <2>3 DEF PartNo
  <2>5. QED
    BY <2>1, <2>2, <2>3, <2>4
<1>8. end' \in {"nil", "mismatch"}
  BY <1>6
<1>9. BodyTypes'
  <2>1. remaining' \in Nat
    BY DEF Responds
  <2>2. QED
    BY <1>1, <1>7, <1>8, <2>1 DEF BodyTypes, Responds
<1>10. remaining' = range'.end - range'.start + 1 - Len(read')
  BY <1>1, <1>7 DEF Responds
<1>11. ASSUME no < PartCount
       PROVE  end' = "nil" /\ Midway'
  <2>1. ReaderAt(tr', no, s - no * FirstSize, LastByte(FirstSize, no, e)) /\ end' = "nil"
    BY <1>2, <1>3, <1>6, <1>11
  <2>2. /\ PartNo' \in Nat /\ PartNo' < PartCount' /\ PartNo' * FirstSize' \in Nat
        /\ PartNo' * FirstSize' <= NextByte' /\ NextByte' <= range'.end
    BY <1>1, <1>3, <1>7, <1>11
  <2>3. ReaderAt(tr', PartNo', NextByte' - PartNo' * FirstSize',
                 LastByte(FirstSize', PartNo', range'.end))
    BY <1>1, <1>7, <2>1
  <2>4. QED
    BY <2>1, <2>2, <2>3 DEF Midway
<1>12. ASSUME no >= PartCount
       PROVE  /\ end' = "mismatch" /\ tr' = Body!NoReader /\ e >= Body!Covered(stored)
              /\ ~(s < Body!Covered(stored))
  <2>1. PICK last \in Nat : last = IF FirstSize - 1 <= e - no * FirstSize
                                   THEN FirstSize - 1 ELSE e - no * FirstSize
    BY <1>2, <1>3
  <2>2. Body!Covered(stored) = PartCount * FirstSize /\ e >= Body!Covered(stored)
    <3>1. no * FirstSize <= e
      BY <1>3
    <3>2. QED
      BY <1>2, <1>3, <1>12, <2>1, <3>1, RangeWithinPart
  <2>3. no * FirstSize >= PartCount * FirstSize
    BY <1>2, <1>3, <1>12
  <2>4. QED
    BY <1>2, <1>3, <1>6, <1>12, <2>2, <2>3
<1>13. CASE no < PartCount
  BY <1>1, <1>7, <1>10, <1>11, <1>13, <1>9 DEF BodyStreams
<1>14. CASE no >= PartCount
  <2>1. Body!Covered(stored)' = Body!Covered(stored)
    BY <1>7 DEF Body!Covered
  <2>2. QED
    BY <1>1, <1>7, <1>10, <1>12, <1>14, <1>9, <2>1 DEF BodyStreams
<1>15. QED
  BY <1>2, <1>3, <1>13, <1>14

\* One valid range-spec is served as it was asked; otherwise none is, or several are, not
\* counting suffixes longer than the file.
LEMMA ServedAsAsked ==
  ASSUME Body!BodyGiven, stored \in Files, header \in Headers, stored.size > 0,
         UNCHANGED <<stored, header>>, status' \in {200, 206, 416},
         status' = 206 => \E i \in ValidSpecs(stored.size) :
           range' = RangeOf(header[i], stored.size),
         status' = 416 => Cardinality(ValidSpecs(stored.size)) # 1
  PROVE  Body!AskedIsServed'
<1> DEFINE wanted == {i \in DOMAIN header : Body!Asked(header[i], stored.size) # {}}
           long == {i \in wanted : header[i].first = Body!Absent /\ header[i].last > stored.size}
<1>1. stored.size \in Nat \ {0}
  BY DEF Body!BodyGiven
<1>2. \A i \in DOMAIN header : header[i] \in Body!Specs
  <2>1. header \in Seq(Body!Specs)
    BY DEF Body!BodyGiven
  <2>2. QED
    BY <2>1, ElementOfSeq
<1>3. \A i \in DOMAIN header :
        Body!Valid(header[i], stored.size) <=>
          Body!Asked(header[i], stored.size) # {}
            /\ ~(header[i].first = Body!Absent /\ header[i].last > stored.size)
  BY <1>1, <1>2, ValidAsked
<1>4. ValidSpecs(stored.size) = wanted \ long
  BY <1>3 DEF ValidSpecs
<1>5. ASSUME status' = 206
      PROVE  \E i \in wanted : range'.start..range'.end = Body!Asked(header[i], stored.size)
  <2>1. PICK i \in ValidSpecs(stored.size) : range' = RangeOf(header[i], stored.size)
    BY <1>5
  <2>2. Body!Valid(header[i], stored.size) /\ header[i] \in Body!Specs /\ i \in wanted
    BY <1>2, <1>4 DEF ValidSpecs
  <2>3. Body!StartOf(header[i], stored.size)..Body!EndOf(header[i], stored.size)
          = Body!Asked(header[i], stored.size)
    BY <1>1, <2>2, ValidAsked
  <2>4. range'.start..range'.end = Body!Asked(header[i], stored.size)
    BY <2>1, <2>3 DEF RangeOf
  <2>5. QED
    BY <2>2, <2>4
<1>6. ASSUME status' = 416
      PROVE  Cardinality(wanted \ long) # 1
  BY <1>4, <1>6
<1> HIDE DEF wanted, long
<1>7. Body!Cardinality(wanted \ long) = Cardinality(wanted \ long)
  BY DEF Body!Cardinality, Cardinality
<1>8. QED
  BY <1>5, <1>6, <1>7 DEF Body!AskedIsServed, wanted, long

\* FilesStream up to the reader keeps the invariant.
LEMMA RespondStep ==
  ASSUME Body!BodyGiven, BodyInv, Body!Respond
  PROVE  BodyInv'
<1> DEFINE kept == Body!Parse(header, stored.size)
           Bodied(code, r) == /\ status' = code /\ range' = r
                              /\ remaining' = r.end - r.start + 1 /\ Body!StartPart(0)
           NoBody(code) == status' = code /\ end' = "EOF" /\ UNCHANGED <<range, remaining, tr>>
<1>1. /\ status = 0 /\ read = <<>> /\ end = "nil" /\ pos = 0 /\ tr = Body!NoReader /\ BodyTypes
      /\ UNCHANGED <<stored, header, pos, read>>
  BY DEF BodyInv, Body!Respond
<1>2. stored \in Files /\ header \in Headers /\ stored.size \in Nat
  BY <1>1 DEF BodyTypes, Body!BodyGiven
<1>3. IF stored.size = 0 THEN NoBody(200)
      ELSE IF header = <<>> THEN Bodied(200, [start |-> 0, end |-> stored.size - 1])
      ELSE IF Len(kept) # 1 THEN NoBody(416)
      ELSE Bodied(206, kept[1])
  BY DEF Body!Respond
<1> HIDE DEF kept
<1>4. ASSUME NEW code \in {200, 416}, NoBody(code)
      PROVE  BodyTypes' /\ read' = <<>> /\ end' = "EOF" /\ tr' = Body!NoReader /\ status' = code
  BY <1>1, <1>4 DEF BodyTypes
<1>5. CASE stored.size = 0
  <2>1. BodyTypes' /\ read' = <<>> /\ end' = "EOF" /\ tr' = Body!NoReader /\ status' = 200
    BY <1>3, <1>4, <1>5
  <2>2. Body!AskedIsServed'
    BY <1>1, <1>5 DEF Body!AskedIsServed
  <2>3. QED
    BY <1>1, <1>5, <2>1, <2>2 DEF BodyInv
<1>6. CASE stored.size # 0 /\ header # <<>> /\ Len(kept) # 1
  <2>1. BodyTypes' /\ read' = <<>> /\ end' = "EOF" /\ tr' = Body!NoReader /\ status' = 416
    BY <1>3, <1>4, <1>6
  <2>2. Body!AskedIsServed'
    <3>1. Cardinality(ValidSpecs(stored.size)) # 1
      BY <1>2, <1>6, ParsedRanges DEF kept
    <3>2. QED
      BY <1>1, <1>2, <1>6, <2>1, <3>1, ServedAsAsked
  <2>3. QED
    BY <2>1, <2>2 DEF BodyInv
<1>7. ASSUME stored.size # 0, NEW code \in {200, 206}, NEW s \in Nat, NEW e \in Nat, s <= e,
             e < stored.size, Bodied(code, [start |-> s, end |-> e]), Body!AskedIsServed'
      PROVE  BodyInv'
  <2>1. stored.size > 0 /\ Responds(s, e) /\ Body!StartPart(0)
    BY <1>1, <1>2, <1>7 DEF Responds
  <2>2. BodyTypes' /\ BodyStreams'
    BY <1>1, <1>7, <2>1, BodyBegins
  <2>3. stored' = stored /\ status' = code
    BY <1>1, <1>7
  <2>4. QED
    BY <1>7, <2>2, <2>3 DEF BodyInv
<1>8. CASE stored.size # 0 /\ header = <<>>
  <2>1. Bodied(200, [start |-> 0, end |-> stored.size - 1]) /\ status' = 200
    BY <1>3, <1>8
  <2>2. Body!AskedIsServed'
    BY <2>1 DEF Body!AskedIsServed
  <2>3. stored.size - 1 \in Nat /\ 0 <= stored.size - 1 /\ stored.size - 1 < stored.size
    BY <1>2, <1>8
  <2>4. QED
    BY <1>7, <1>8, <2>1, <2>2, <2>3
<1>9. CASE stored.size # 0 /\ header # <<>> /\ Len(kept) = 1
  <2>1. Bodied(206, kept[1]) /\ status' = 206 /\ range' = kept[1]
    BY <1>3, <1>9
  <2>2. PICK i \in ValidSpecs(stored.size) : kept[1] = RangeOf(header[i], stored.size)
    BY <1>2, <1>9, ParsedRanges DEF kept
  <2>3. PICK s, e : s = Body!StartOf(header[i], stored.size)
                    /\ e = Body!EndOf(header[i], stored.size)
    OBVIOUS
  <2>4. s \in Nat /\ e \in Nat /\ s <= e /\ e < stored.size
    <3>1. header \in Seq(Body!Specs)
      BY <1>2 DEF Body!BodyGiven
    <3>2. i \in DOMAIN header /\ Body!Valid(header[i], stored.size) /\ header[i] \in Body!Specs
      BY <3>1, ElementOfSeq DEF ValidSpecs
    <3>3. QED
      BY <1>2, <1>9, <2>3, <3>2, ValidAsked
  <2>5. kept[1] = [start |-> s, end |-> e]
    BY <2>2, <2>3 DEF RangeOf
  <2>6. Body!AskedIsServed'
    BY <1>1, <1>2, <1>9, <2>1, <2>2, ServedAsAsked
  <2>7. QED
    BY <1>7, <1>9, <2>1, <2>4, <2>5, <2>6
<1>10. QED
  BY <1>5, <1>6, <1>8, <1>9

\* The numbers of a stream between two reads: parts of w bytes, m of them, bytes s to e wanted,
\* byte at of them next, at x in part no, which begins at a and of which last is wanted.
Numbers(w, m, s, e, at, no, a, x, last) ==
  /\ w = FirstSize /\ m = PartCount /\ s = range.start /\ e = range.end /\ at = NextByte
  /\ no = PartNo /\ a = no * w /\ x = at - a /\ last = LastByte(w, no, e)
  /\ s <= e /\ e < stored.size /\ no < m /\ a <= at /\ at <= e /\ at = s + Len(read)

\* They are natural numbers, and what is fetched of the part is there.
LEMMA MidwayNumbers ==
  ASSUME Body!BodyGiven, BodyTypes, stored.size > 0, BodyStreams, Midway
  PROVE  \E w \in Nat \ {0}, m \in Nat \ {0}, s \in Nat, e \in Nat, at \in Nat, no \in Nat,
      a \in Nat,
            x \in Nat, last \in Nat :
              /\ Numbers(w, m, s, e, at, no, a, x, last) /\ ReaderAt(tr, no, x, last) /\ x <= last
              /\ stored.parts[no + 1] \in Nat /\ last < stored.parts[no + 1]
<1>1. /\ stored \in Files /\ FirstSize \in Nat \ {0} /\ PartCount \in Nat \ {0}
      /\ stored.size \in Nat
  BY PartSizes DEF BodyTypes
<1>2. /\ range.start \in Nat /\ range.end \in Nat /\ range.start <= range.end
      /\ range.end < stored.size
  BY DEF BodyStreams
<1>3. Len(read) \in Nat
  BY LenProperties DEF BodyTypes
<1> DEFINE w == FirstSize
           m == PartCount
           s == range.start
           e == range.end
           at == NextByte
           no == PartNo
           a == no * w
           x == at - a
           last == LastByte(w, no, e)
<1>4. at \in Nat /\ at = s + Len(read)
  BY <1>2, <1>3 DEF NextByte
<1>5. /\ no \in Nat /\ no < m /\ a \in Nat /\ a <= at /\ at <= e
      /\ ReaderAt(tr, no, x, last)
  BY DEF Midway
<1>6. last \in Nat /\ x \in 0..last /\ x \in Nat
  <2>1. last \in Nat /\ x \in 0..last
    BY <1>5, Zenon DEF ReaderAt
  <2> HIDE DEF last, x
  <2>2. QED
    BY <2>1
<1>7. Numbers(w, m, s, e, at, no, a, x, last)
  BY <1>2, <1>4, <1>5 DEF Numbers
<1>8. stored.parts[no + 1] \in Nat /\ last < stored.parts[no + 1]
  <2>1. no * w <= e
    <3> HIDE DEF a, at, e
    <3>1. QED
      BY <1>2, <1>4, <1>5 DEF a, e
  <2>2. last = IF FirstSize - 1 <= e - no * FirstSize THEN FirstSize - 1 ELSE e - no * FirstSize
    BY DEF LastByte
  <2> HIDE DEF last, no, e
  <2>3. e \in Nat /\ e < stored.size /\ no * FirstSize <= e
    BY <1>2, <2>1 DEF e
  <2>4. QED
    BY <1>1, <1>5, <1>6, <2>2, <2>3, RangeWithinPart
<1> HIDE DEF w, m, s, e, at, no, a, x, last
<1>9. x <= last /\ w \in Nat \ {0} /\ m \in Nat \ {0} /\ s \in Nat /\ e \in Nat
  BY <1>1, <1>2, <1>6 DEF w, m, s, e
<1>10. QED
  BY <1>4, <1>5, <1>6, <1>7, <1>8, <1>9, Zenon

\* Bytes appended to those that were read, which begin with byte s of the file.
Appended(piece, s) ==
  /\ read \o piece \in Seq(Nat \X Nat) /\ Len(read \o piece) = Len(read) + Len(piece)
  /\ \A i \in 1..Len(read \o piece) : (read \o piece)[i] = Body!ByteAt(s + i - 1)

\* The bytes of a part go on where the ones before them ended.
LEMMA BytesAppended ==
  ASSUME Body!BodyGiven, stored \in Files, stored.size > 0, NEW w, w = FirstSize,
         NEW s \in Nat, NEW no \in Nat, NEW a \in Nat, a = no * w, NEW x \in Nat,
         read \in Seq(Nat \X Nat), s + Len(read) = a + x,
         \A i \in 1..Len(read) : read[i] = Body!ByteAt(s + i - 1),
         NEW piece \in Seq(Nat \X Nat), BytesFrom(piece, no, x), x + Len(piece) <= w
  PROVE  Appended(piece, s)
<1> USE DEF Appended
<1>1. FirstSize \in Nat \ {0} /\ w \in Nat \ {0}
  BY PartSizes
<1>2. PICK len \in Nat, more \in Nat : len = Len(read) /\ more = Len(piece)
  BY LenProperties
<1>3. /\ read \o piece \in Seq(Nat \X Nat) /\ Len(read \o piece) = len + more
      /\ \A i \in 1..(len + more) :
           (read \o piece)[i] = IF i <= len THEN read[i] ELSE piece[i - len]
  BY <1>2, ConcatProperties
<1>6. len + more \in Nat /\ x + more <= w /\ s + len = a + x
  BY <1>2
<1>4. ASSUME NEW i \in 1..(len + more)
      PROVE  (read \o piece)[i] = Body!ByteAt(s + i - 1)
  <2>1. CASE i <= len
    <3>1. i \in 1..Len(read)
      BY <1>2, <2>1
    <3>2. QED
      BY <1>3, <2>1, <3>1
  <2>2. CASE ~(i <= len)
    <3>1. PICK j \in 1..more : j = i - len
      BY <2>2
    <3>2. piece[j] = <<no, x + j - 1>>
      BY <1>2 DEF BytesFrom
    <3>3. x + j - 1 \in 0..(w - 1) /\ s + i - 1 = a + (x + j - 1)
      BY <1>1, <1>6, <3>1
    <3>4. PICK y \in 0..(FirstSize - 1) : y = x + j - 1
      BY <3>3
    <3>5. s + i - 1 = no * FirstSize + y
      BY <3>3, <3>4
    <3>6. Body!ByteAt(s + i - 1) = <<no, y>>
      BY <1>1, <3>5, ByteOfPart
    <3>7. (read \o piece)[i] = piece[j]
      BY <1>3, <2>2, <3>1
    <3>8. QED
      BY <3>2, <3>4, <3>6, <3>7
  <2>3. i \in Int
    BY <1>4
  <2>4. QED
    BY <2>1, <2>2, <2>3
<1>5. QED
  BY <1>2, <1>3, <1>4

\* What a read of n bytes out of the buffer of r does.
ReadsOf(r, g) ==
  /\ UNCHANGED <<stored, header, status, range>>
  /\ read' = read \o SubSeq(r.buf, 1, g) /\ remaining' = remaining - g
  /\ IF r.limit > g THEN /\ tr' = WithRest(r, SubSeq(r.buf, g + 1, Len(r.buf)), r.limit - g)
                         /\ UNCHANGED <<pos, end>>
     ELSE IF remaining' = 0 THEN tr' = Body!NoReader /\ end' = "EOF" /\ UNCHANGED pos
     ELSE pos' = pos + 1 /\ \A p0 : p0 = pos + 1 => Body!StartPart(p0)

\* A read takes at least one byte of the buffer, all of them wanted.
LEMMA ReadsBytes ==
  ASSUME Body!BodyGiven, NEW k \in ReadSizes, Body!Read(k), NEW no \in Nat, NEW x \in Nat,
      NEW last \in Nat,
         ReaderAt(tr, no, x, last), stored.parts[no + 1] \in Nat, last < stored.parts[no + 1]
  PROVE  \E r : \E g \in Nat \ {0} :
           /\ ReadsOf(r, g) /\ ReaderAt(r, no, x, last) /\ r.cur # 1 /\ r.limit = last - x + 1
           /\ r.buf \in Seq(Nat \X Nat) /\ g \in 1..Len(r.buf) /\ BytesFrom(r.buf, no, x)
           /\ x + g <= last + 1
<1> DEFINE r == Body!Filled(tr)
           g == Body!Least(k, Len(r.buf))
<1>1. ReaderAt(r, no, x, last) /\ r.cur # 1 /\ Len(r.buf) \in Nat \ {0}
  BY FilledAt
<1>2. /\ r.buf \in Seq(Nat \X Nat) /\ BytesFrom(r.buf, no, x) /\ r.limit = last - x + 1
      /\ x + Len(r.buf) <= last + 1
  <2> HIDE DEF r
  <2>1. QED
    BY <1>1, BufferWanted
<1>3. k \in Nat \ {0}
  BY DEF Body!BodyGiven
<1>4. g \in Nat \ {0} /\ g \in 1..Len(r.buf) /\ x + g <= last + 1
  <2>1. PICK l \in Nat \ {0} : l = Len(r.buf)
    BY <1>1, Zenon
  <2>2. x + l <= last + 1
    BY <1>2, <2>1, Zenon
  <2>3. g = IF k <= l THEN k ELSE l
    BY <2>1, Zenon DEF Body!Least
  <2> HIDE DEF r, g
  <2>4. g \in Nat \ {0} /\ g <= l
    BY <1>3, <2>3
  <2>5. g \in 1..l /\ x + g <= last + 1
    BY <2>2, <2>4
  <2>6. QED
    BY <2>1, <2>4, <2>5, Zenon
<1>5. r \in PartReaders
  BY <1>1, Zenon DEF ReaderAt
<1>6. ReadsOf(r, g)
  <2>1. [r EXCEPT !.buf = SubSeq(@, g + 1, Len(@)), !.limit = @ - g]
          = WithRest(r, SubSeq(r.buf, g + 1, Len(r.buf)), r.limit - g)
    <3> HIDE DEF r, g
    <3>1. QED
      BY <1>5 DEF WithRest, PartReaders
  <2>2. ASSUME NEW p0, p0 = pos + 1, Body!StartPart(pos + 1)
        PROVE  Body!StartPart(p0)
    BY <2>2 DEF Body!StartPart
  <2>3. QED
    BY <2>1, <2>2 DEF Body!Read, ReadsOf
<1> HIDE DEF r, g
<1>7. QED
  BY <1>1, <1>2, <1>4, <1>6

\* The position after a read of g bytes: in the same part, at its end, or at the next one.
Moved(w, s, e, at, no, a, x, last, len, g) ==
  /\ x + g <= w /\ e - s + 1 - (len + g) \in Nat /\ at + g = s + (len + g)
  /\ g < last - x + 1 => at + g <= e /\ (at + g) - a = x + g
  /\ ~(last - x + 1 > g) /\ e - s + 1 - (len + g) # 0 =>
       /\ at + g = (no + 1) * w /\ s < at + g /\ at + g <= e

\* A read moves the position so.
LEMMA ReadNumbers ==
  ASSUME NEW w \in Nat \ {0}, NEW s \in Nat, NEW e \in Nat, NEW at \in Nat, NEW no \in Nat,
         NEW a \in Nat, NEW x \in Nat, NEW last \in Nat, NEW len \in Nat, NEW g \in Nat \ {0},
         a = no * w, x = at - a, last = LastByte(w, no, e), s <= e, a <= at, at <= e,
         at = s + len, x + g <= last + 1
  PROVE  Moved(w, s, e, at, no, a, x, last, len, g)
<1>1. (no + 1) * w = a + w
  OBVIOUS
<1>2. last = IF w - 1 <= e - a THEN w - 1 ELSE e - a
  BY DEF LastByte
<1> DEFINE b == (no + 1) * w
<1>3. b = a + w
  BY <1>1
<1> HIDE DEF b
<1>4. x + g <= w /\ at + g <= e + 1
  BY <1>2
<1>5. g < last - x + 1 => at + g <= e /\ (at + g) - a = x + g
  BY <1>2
<1>6. ASSUME ~(last - x + 1 > g), e - s + 1 - (len + g) # 0
      PROVE  at + g = b /\ s < at + g /\ at + g <= e
  <2>1. x + g = last + 1 /\ at + g # e + 1
    BY <1>6
  <2>2. last = w - 1
    BY <1>2, <2>1
  <2>3. QED
    BY <1>3, <1>4, <2>1, <2>2
<1>7. e - s + 1 - (len + g) \in Nat /\ at + g = s + (len + g)
  BY <1>4
<1>8. QED
  BY <1>4, <1>5, <1>6, <1>7 DEF b, Moved

\* A response stays as it was asked.
LEMMA AskedKept ==
  ASSUME Body!AskedIsServed, stored' = stored, header' = header, status' = status, range' = range
  PROVE  Body!AskedIsServed'
<1> DEFINE Served(f0, h0, s0, r0) ==
      s0 # 0 /\ f0.size > 0 =>
        LET wanted == {i \in DOMAIN h0 : Body!Asked(h0[i], f0.size) # {}}
            long   == {i \in wanted : h0[i].first = Body!Absent /\ h0[i].last > f0.size}
        IN  /\ s0 = 206 => \E i \in wanted : r0.start..r0.end = Body!Asked(h0[i], f0.size)
            /\ s0 = 416 => Body!Cardinality(wanted \ long) # 1
<1>1. Body!AskedIsServed <=> Served(stored, header, status, range)
  BY DEF Body!AskedIsServed
<1>2. Body!AskedIsServed' <=> Served(stored', header', status', range')
  BY DEF Body!AskedIsServed
<1> HIDE DEF Served
<1>3. QED
  BY <1>1, <1>2

\* LinearReader.Read keeps the invariant.
LEMMA ReadStep ==
  ASSUME Body!BodyGiven, BodyInv, NEW k \in ReadSizes, Body!Read(k)
  PROVE  BodyInv'
<1>1. /\ BodyTypes /\ Body!AskedIsServed /\ status \in {200, 206} /\ end = "nil" /\ stored \in Files
      /\ stored.size > 0 /\ BodyStreams /\ Midway
  <2>1. status \in {200, 206} /\ end = "nil" /\ BodyTypes /\ stored \in Files /\ Body!AskedIsServed
    BY DEF BodyInv, BodyTypes, Body!Read
  <2>2. stored.size # 0 /\ stored.size \in Nat
    BY <2>1 DEF BodyInv, Body!BodyGiven
  <2>3. BodyStreams
    BY <2>1, <2>2 DEF BodyInv
  <2>4. QED
    BY <2>1, <2>2, <2>3 DEF BodyStreams
<1>2. PICK w \in Nat \ {0}, m \in Nat \ {0}, s \in Nat, e \in Nat, at \in Nat, no \in Nat,
      a \in Nat,
           x \in Nat, last \in Nat :
        /\ Numbers(w, m, s, e, at, no, a, x, last) /\ ReaderAt(tr, no, x, last) /\ x <= last
        /\ stored.parts[no + 1] \in Nat /\ last < stored.parts[no + 1]
  BY <1>1, MidwayNumbers
<1>3. PICK r : \E g \in Nat \ {0} :
        /\ ReadsOf(r, g) /\ ReaderAt(r, no, x, last) /\ r.cur # 1 /\ r.limit = last - x + 1
        /\ r.buf \in Seq(Nat \X Nat) /\ g \in 1..Len(r.buf) /\ BytesFrom(r.buf, no, x)
        /\ x + g <= last + 1
  BY <1>2, ReadsBytes
<1>4. PICK g \in Nat \ {0} :
        /\ ReadsOf(r, g) /\ ReaderAt(r, no, x, last) /\ r.cur # 1 /\ r.limit = last - x + 1
        /\ r.buf \in Seq(Nat \X Nat) /\ g \in 1..Len(r.buf) /\ BytesFrom(r.buf, no, x)
        /\ x + g <= last + 1
  BY <1>3
<1>5. PICK len \in Nat : len = Len(read) /\ read \in Seq(Nat \X Nat)
  BY <1>1, LenProperties DEF BodyTypes
<1>6. /\ w = FirstSize /\ m = PartCount /\ s = range.start /\ e = range.end /\ no = PartNo
      /\ a = no * w /\ x = at - a /\ last = LastByte(w, no, e) /\ s <= e /\ e < stored.size
      /\ no < m /\ a <= at /\ at <= e /\ at = s + len
  BY <1>2, <1>5 DEF Numbers
<1>7. /\ x + g <= w /\ e - s + 1 - (len + g) \in Nat /\ at + g = s + (len + g)
      /\ g < last - x + 1 => at + g <= e /\ (at + g) - a = x + g
      /\ ~(last - x + 1 > g) /\ e - s + 1 - (len + g) # 0 =>
           /\ at + g = (no + 1) * w /\ s < at + g /\ at + g <= e
  <2>1. Moved(w, s, e, at, no, a, x, last, len, g)
    BY <1>4, <1>6, ReadNumbers, Zenon
  <2>2. QED
    BY <2>1, Zenon DEF Moved
<1> DEFINE piece == SubSeq(r.buf, 1, g)
<1>8. piece \in Seq(Nat \X Nat) /\ Len(piece) = g /\ BytesFrom(piece, no, x)
  BY <1>4, BytesTaken
<1>9. /\ UNCHANGED <<stored, header, status, range>> /\ read' = read \o piece
      /\ remaining' = remaining - g
  BY <1>4 DEF ReadsOf
<1> HIDE DEF piece
<1>10. /\ read' \in Seq(Nat \X Nat) /\ Len(read') = len + g
       /\ \A i \in 1..Len(read') : read'[i] = Body!ByteAt(s + i - 1)
  <2>1. \A i \in 1..Len(read) : read[i] = Body!ByteAt(s + i - 1)
    BY <1>1, <1>6 DEF BodyStreams
  <2>2. s + Len(read) = a + x /\ x + Len(piece) <= w
    <3>1. Len(read) = len /\ Len(piece) = g /\ at = s + len /\ x = at - a /\ x + g <= w
      BY <1>5, <1>6, <1>7, <1>8, Zenon
    <3>2. QED
      BY <3>1
  <2>3. /\ read \o piece \in Seq(Nat \X Nat) /\ Len(read \o piece) = Len(read) + Len(piece)
        /\ \A i \in 1..Len(read \o piece) : (read \o piece)[i] = Body!ByteAt(s + i - 1)
    <3>1. Appended(piece, s)
      <4>1. /\ stored \in Files /\ stored.size > 0 /\ w = FirstSize /\ a = no * w
            /\ read \in Seq(Nat \X Nat) /\ piece \in Seq(Nat \X Nat) /\ BytesFrom(piece, no, x)
        BY <1>1, <1>5, <1>6, <1>8
      <4>2. QED
        BY <2>1, <2>2, <4>1, BytesAppended, Zenon
    <3>2. QED
      BY <3>1, Zenon DEF Appended
  <2>4. QED
    BY <1>5, <1>8, <1>9, <2>3
<1>11. /\ FirstSize' = w /\ PartCount' = m /\ range'.start = s /\ range'.end = e
       /\ Body!Covered(stored)' = Body!Covered(stored) /\ NextByte' = at + g
       /\ remaining' = range'.end - range'.start + 1 - Len(read') /\ remaining' \in Nat
       /\ remaining' = e - s + 1 - (len + g)
       /\ \A i \in 1..Len(read') : read'[i] = Body!ByteAt(range.start + i - 1)'
  <2>1. FirstSize' = w /\ PartCount' = m
    BY <1>6, <1>9 DEF FirstSize, PartCount
  <2>2. range'.start = s /\ range'.end = e
    BY <1>6, <1>9
  <2>3. Body!Covered(stored)' = Body!Covered(stored)
    BY <1>9 DEF Body!Covered
  <2>4. NextByte' = at + g
    BY <1>7, <1>10, <2>2 DEF NextByte
  <2>5. remaining = e - s + 1 - len
    BY <1>1, <1>5, <1>6 DEF BodyStreams
  <2>6. remaining' = e - s + 1 - (len + g)
    BY <1>9, <2>5
  <2>7. \A i \in 1..Len(read') : Body!ByteAt(range.start + i - 1)' = Body!ByteAt(s + i - 1)
    BY <1>6, <1>9 DEF Body!ByteAt, Body!PartSize
  <2>8. QED
    BY <1>7, <1>10, <2>1, <2>2, <2>3, <2>4, <2>6, <2>7
<1>12. ASSUME pos' \in Nat, pos' <= m, end' \in {"nil", "EOF", "mismatch"},
              end' = "nil" => Midway', end' = "EOF" => remaining' = 0 /\ tr' = Body!NoReader,
              end' = "mismatch" =>
                /\ tr' = Body!NoReader /\ e >= Body!Covered(stored)
                /\ len + g = IF s < Body!Covered(stored) THEN Body!Covered(stored) - s ELSE 0
       PROVE  BodyInv'
  <2>1. Len(stored'.parts) = m
    BY <1>11 DEF PartCount
  <2>2. BodyTypes'
    BY <1>1, <1>9, <1>10, <1>11, <1>12, <2>1 DEF BodyTypes
  <2>3. stored'.size > 0 /\ status' \in {200, 206} /\ e < stored'.size /\ stored'.size # 0
    <3>1. stored' = stored /\ status' = status
      BY <1>9, Zenon
    <3>2. stored.size > 0 /\ status \in {200, 206} /\ e < stored.size
      BY <1>1, <1>6, Zenon
    <3>3. stored.size # 0
      BY <3>2
    <3>4. QED
      BY <3>1, <3>2, <3>3, Zenon
  <2>4. BodyStreams'
    <3>1. /\ range'.start \in Nat /\ range'.end \in Nat /\ range'.start <= range'.end
          /\ range'.end < stored'.size
      BY <1>6, <1>11, <2>3
    <3>2. end' = "mismatch" =>
            /\ tr' = Body!NoReader /\ range'.end >= Body!Covered(stored)'
            /\ Len(read') = IF range'.start < Body!Covered(stored)'
                            THEN Body!Covered(stored)' - range'.start ELSE 0
      BY <1>10, <1>11, <1>12
    <3>3. QED
      BY <1>11, <1>12, <3>1, <3>2 DEF BodyStreams
  <2>5. Body!AskedIsServed'
    BY <1>1, <1>9, AskedKept
  <2>6. QED
    BY <2>2, <2>3, <2>4, <2>5 DEF BodyInv
<1>13. pos \in Nat /\ pos <= m /\ no = (s \div w) + pos
  BY <1>1, <1>6 DEF BodyTypes, PartCount, PartNo
<1>14. CASE r.limit > g
  <2>1. /\ tr' = WithRest(r, SubSeq(r.buf, g + 1, Len(r.buf)), r.limit - g)
        /\ pos' = pos /\ end' = "nil"
    BY <1>1, <1>4, <1>14 DEF ReadsOf
  <2>2. ReaderAt(tr', no, x + g, last)
    BY <1>4, <1>14, <2>1, TakenAt
  <2>3. at + g <= e /\ (at + g) - a = x + g
    BY <1>4, <1>7, <1>14
  <2>4. PartNo' = no
    BY <1>11, <1>13, <2>1 DEF PartNo
  <2>5. Midway'
    <3>1. a <= at + g
      BY <1>6
    <3>2. QED
      BY <1>6, <1>11, <2>2, <2>3, <2>4, <3>1 DEF Midway
  <2>6. QED
    BY <1>12, <1>13, <2>1, <2>5
<1>15. CASE ~(r.limit > g) /\ remaining' = 0
  <2>1. tr' = Body!NoReader /\ end' = "EOF" /\ pos' = pos
    BY <1>4, <1>15 DEF ReadsOf
  <2>2. QED
    BY <1>12, <1>13, <1>15, <2>1
<1>16. CASE ~(r.limit > g) /\ remaining' # 0
  <2>1. pos' = pos + 1 /\ \A p0 : p0 = pos + 1 => Body!StartPart(p0)
    BY <1>4, <1>16 DEF ReadsOf
  <2>2. at + g = (no + 1) * w /\ s < at + g /\ at + g <= e
    BY <1>4, <1>7, <1>11, <1>16
  <2>3. PICK p0 \in Nat, no2 \in Nat, at2 \in Nat :
          /\ p0 = pos + 1 /\ no2 = no + 1 /\ at2 = at + g
    <3>1. pos + 1 \in Nat /\ no + 1 \in Nat /\ at + g \in Nat
      BY <1>13
    <3>2. QED
      BY <3>1, Zenon
  <2>4. /\ no2 = (s \div FirstSize) + p0 /\ at2 <= e
        /\ at2 = (IF s > no2 * FirstSize THEN s ELSE no2 * FirstSize)
    <3>1. no2 = (s \div FirstSize) + p0
      BY <1>6, <1>13, <2>3
    <3>2. ~(s > no2 * FirstSize) /\ at2 = no2 * FirstSize
      BY <1>6, <2>2, <2>3
    <3>3. QED
      BY <2>2, <2>3, <3>1, <3>2
  <2>5. PartStarts(no2, at2, e)
    <3>1. Body!StartPart(p0)
      BY <2>1, <2>3
    <3>2. /\ stored \in Files /\ stored.size > 0 /\ s <= e /\ e < stored.size
          /\ range'.start = s /\ range'.end = e
      BY <1>1, <1>6, <1>11
    <3>3. QED
      BY <2>4, <3>1, <3>2, StartsPart, Zenon
  <2>6. no2 * w \in Nat /\ at2 = no2 * w /\ no2 <= m
    BY <1>6, <2>2, <2>3
  <2>7. PartNo' = no2
    <3>1. PICK d : d = s \div w /\ d + pos = no
      BY <1>13
    <3>2. PartNo' = d + pos'
      BY <1>11, <3>1 DEF PartNo
    <3>3. d \in Nat
      BY <3>1, DivMod
    <3>4. QED
      BY <1>13, <2>1, <2>3, <3>1, <3>2, <3>3
  <2>8. CASE no2 >= PartCount
    <3>1. tr' = Body!NoReader /\ end' = "mismatch"
      BY <2>5, <2>8 DEF PartStarts
    <3>2. no2 = m
      BY <1>6, <2>6, <2>8
    <3>3. Body!Covered(stored) = m * w /\ e >= Body!Covered(stored)
      <4>1. PICK z \in Nat : z = IF FirstSize - 1 <= e - no2 * FirstSize
                                 THEN FirstSize - 1 ELSE e - no2 * FirstSize
        BY <1>6, <2>2, <2>3, <2>6
      <4>2. no2 * FirstSize <= e
        BY <1>6, <2>2, <2>3
      <4>3. stored \in Files /\ stored.size > 0 /\ e < stored.size
        BY <1>1, <1>6
      <4>4. Body!Covered(stored) = PartCount * FirstSize
        BY <2>8, <4>1, <4>2, <4>3, RangeWithinPart, Zenon
      <4>5. e >= Body!Covered(stored)
        BY <2>8, <4>1, <4>2, <4>3, RangeWithinPart, Zenon
      <4>6. QED
        BY <1>6, <4>4, <4>5
    <3>4. Body!Covered(stored) = at + g
      BY <2>3, <2>6, <3>2, <3>3
    <3>5. len + g = (IF s < Body!Covered(stored) THEN Body!Covered(stored) - s ELSE 0)
      BY <1>7, <2>2, <3>4
    <3>6. pos' \in Nat /\ pos' <= m
      BY <1>6, <1>13, <2>1, <2>3
    <3>7. QED
      BY <1>12, <3>1, <3>3, <3>5, <3>6
  <2>9. CASE no2 < PartCount
    <3>1. end' = "nil" /\ ReaderAt(tr', no2, at2 - no2 * FirstSize, LastByte(FirstSize, no2, e))
      BY <1>6, <2>5, <2>9 DEF PartStarts
    <3>2. Midway'
      BY <1>6, <1>11, <2>2, <2>3, <2>6, <2>7, <2>9, <3>1 DEF Midway
    <3>3. pos' \in Nat /\ pos' <= m
      BY <1>6, <1>13, <2>1, <2>3
    <3>4. QED
      BY <1>12, <3>1, <3>2, <3>3
  <2>10. QED
    BY <1>6, <2>8, <2>9
<1>17. QED
  BY <1>14, <1>15, <1>16

\* A failure of Telegram ends the stream where it is.
LEMMA ReadFailsStep ==
  ASSUME BodyInv, Body!ReadFails
  PROVE  BodyInv'
<1>1. /\ UNCHANGED <<stored, header, status, range, pos, remaining, tr, read>> /\ end = "nil"
      /\ end' = "failed" /\ status \in {200, 206}
  BY DEF Body!ReadFails
<1>2. BodyTypes' /\ Body!AskedIsServed'
  <2>1. BodyTypes /\ Body!AskedIsServed
    BY DEF BodyInv
  <2>2. BodyTypes'
    BY <1>1, <2>1 DEF BodyTypes
  <2>3. QED
    BY <1>1, <2>1, <2>2, AskedKept
<1>3. stored.size # 0
  BY <1>1 DEF BodyInv
<1>4. stored.size > 0 => BodyStreams'
  <2>1. SUFFICES ASSUME stored.size > 0 PROVE BodyStreams'
    OBVIOUS
  <2>2. BodyStreams /\ Midway
    BY <1>1, <2>1 DEF BodyInv, BodyStreams
  <2>3. Midway'
    BY <1>1, <2>2 DEF Midway, PartNo, PartCount, FirstSize, NextByte
  <2>4. QED
    BY <1>1, <2>2, <2>3 DEF BodyStreams, Body!ByteAt, Body!PartSize
<1>5. QED
  BY <1>1, <1>2, <1>3, <1>4 DEF BodyInv

\* The body of a stream.
LEMMA BodyRuns == Spec => Body!Init /\ [][Body!Next]_Body!vars
<1>1. Init => Body!Init
  BY DEF Init
<1>2. [Next]_vars => [Body!Next]_Body!vars
  BY DEF Next, vars, linearVars, Body!vars
<1> QED
  BY <1>1, <1>2, PTL DEF Spec

\* The inductive invariant of the body of a stream.
THEOREM BodyInvariance == Spec => []BodyInv
<1> USE BodyAssumption
<1>1. Body!Init => BodyInv
  <2> SUFFICES ASSUME Body!Init PROVE BodyInv
    OBVIOUS
  <2>1. /\ stored \in Files /\ header \in Headers /\ status = 0 /\ range = [start |-> 0, end |-> 0]
        /\ pos = 0 /\ remaining = 0 /\ tr = Body!NoReader /\ read = <<>> /\ end = "nil"
    BY DEF Body!Init
  <2>2. Len(stored.parts) \in Nat
    BY <2>1, LenProperties DEF Body!BodyGiven
  <2>3. BodyTypes
    BY <2>1, <2>2 DEF BodyTypes
  <2>4. Body!AskedIsServed
    BY <2>1 DEF Body!AskedIsServed
  <2>5. QED
    BY <2>1, <2>3, <2>4 DEF BodyInv
<1>2. BodyInv /\ [Body!Next]_Body!vars => BodyInv'
  <2>1. ASSUME BodyInv, UNCHANGED Body!vars
        PROVE  BodyInv'
    <3>1. UNCHANGED <<stored, header, status, range, pos, remaining, tr, read, end>>
      BY <2>1 DEF Body!vars
    <3>2. Body!AskedIsServed' /\ BodyTypes'
      BY <2>1, <3>1, AskedKept DEF BodyInv, BodyTypes
    <3>3. BodyStreams => BodyStreams'
      BY <3>1 DEF BodyStreams, Midway, PartNo, PartCount, FirstSize, NextByte, Body!ByteAt,
                  Body!PartSize, Body!Covered
    <3>4. QED
      BY <2>1, <3>1, <3>2, <3>3 DEF BodyInv
  <2>2. ASSUME BodyInv, Body!Next
        PROVE  BodyInv'
    BY <2>2, RespondStep, ReadStep, ReadFailsStep DEF Body!Next
  <2>3. QED
    BY <2>1, <2>2
<1> QED
  BY <1>1, <1>2, BodyRuns, PTL

\* The bytes of a stream are those of the range that was asked, in order and whole, and a
\* truncated record ends in an error after its bytes.
THEOREM BodyIsAsAsked == Spec => []BodyIsTheRange
<1> USE BodyAssumption
<1>1. BodyInv => BodyIsTheRange
  <2> SUFFICES ASSUME BodyInv PROVE BodyIsTheRange
    OBVIOUS
  <2>1. BodyTypes /\ Body!AskedIsServed /\ stored.size \in Nat
    BY DEF BodyInv, BodyTypes, Body!BodyGiven
  <2>2. CASE status \in {200, 206} /\ stored.size > 0
    <3>1. BodyStreams
      BY <2>2 DEF BodyInv
    <3>2. Body!BodyIsTheRange
      <4>1. \A i \in 1..Len(read) : read[i] = Body!ByteAt(range.start + i - 1)
        BY <3>1 DEF BodyStreams
      <4>2. end = "EOF" => Len(read) = range.end - range.start + 1
        <5>1. Len(read) \in Nat
          BY <2>1, LenProperties DEF BodyTypes
        <5>2. QED
          BY <3>1, <5>1 DEF BodyStreams
      <4>3. end = "mismatch" => range.end >= Body!Covered(stored)
        BY <3>1 DEF BodyStreams
      <4>4. QED
        BY <4>1, <4>2, <4>3 DEF Body!BodyIsTheRange
    <3>3. Body!TruncatedEndsInError
      <4>1. ASSUME tr # Body!NoReader
            PROVE  tr.part < Len(stored.parts)
        <5>1. end \in {"nil", "failed"}
          BY <2>1, <3>1, <4>1 DEF BodyTypes, BodyStreams
        <5>2. Midway
          BY <3>1, <5>1 DEF BodyStreams
        <5>3. tr.part = PartNo /\ PartNo < PartCount
          BY <5>2 DEF Midway, ReaderAt
        <5>4. QED
          BY <5>3 DEF PartCount
      <4>2. QED
        BY <3>1, <4>1 DEF BodyStreams, Body!TruncatedEndsInError
    <3>4. QED
      BY <2>1, <3>2, <3>3 DEF BodyIsTheRange
  <2>3. CASE ~(status \in {200, 206} /\ stored.size > 0)
    <3>1. read = <<>> /\ tr = Body!NoReader
      BY <2>1, <2>3 DEF BodyInv, BodyTypes
    <3>2. end = "EOF" /\ status # 416 /\ stored.size > 0 => FALSE
      BY <2>1, <2>3 DEF BodyInv, BodyTypes
    <3>3. end # "mismatch"
      BY <2>1, <2>3 DEF BodyInv, BodyTypes
    <3>4. \A i \in 1..Len(read) : FALSE
      BY <3>1
    <3>5. Body!BodyIsTheRange
      BY <3>2, <3>3, <3>4 DEF Body!BodyIsTheRange
    <3>6. Body!TruncatedEndsInError
      BY <3>1, <3>3 DEF Body!TruncatedEndsInError
    <3>7. QED
      BY <2>1, <3>5, <3>6 DEF BodyIsTheRange
  <2>4. QED
    BY <2>2, <2>3
<1> QED
  BY <1>1, BodyInvariance, PTL

-----------------------------------------------------------------------------
(***************************************************************************)
(* The types, and the bounds that come with them.  Most are part of the    *)
(* invariants above; those of the scan detector's clock, of the messages   *)
(* copied, of what the check command holds and of the bots an upload tried *)
(* are added here.                                                         *)
(***************************************************************************)
\* The last access is no later than the clock.
ClockInv == now <= MaxTime /\ lastAccess <= now

\* The clock only goes on (Tick), and a request is recorded at its time.
LEMMA ClockStep ==
  ASSUME Scan!WindowGiven, ScanInv, ClockInv, [Scan!Next]_Scan!vars
  PROVE  ClockInv'
<1>1. now \in Nat /\ lastAccess \in Nat /\ MaxTime \in Nat /\ 0 \in Nat
  BY DEF ScanInv, Scan!WindowGiven
<1>2. CASE Scan!recordRequest /\ UNCHANGED now
  BY <1>1, <1>2 DEF Scan!recordRequest, ClockInv
<1>3. CASE Scan!cleanup
  BY <1>1, <1>3 DEF Scan!cleanup, ClockInv
<1>4. CASE Scan!Tick
  BY <1>1, <1>4 DEF Scan!Tick, ClockInv
<1>5. CASE UNCHANGED Scan!vars
  BY <1>5 DEF Scan!vars, ClockInv
<1>6. QED
  BY <1>2, <1>3, <1>4, <1>5 DEF Scan!Next, Scan!Request

\* A list whose members are all in T.
LEMMA ListOf ==
  ASSUME NEW S, NEW s \in Seq(S), NEW T, \A i \in 1..Len(s) : s[i] \in T
  PROVE  s \in Seq(T)
OBVIOUS

\* The scan detector keeps its types: nothing it holds is later than now.
LEMMA ScanTypes == Spec => []Scan!TypeOK
<1> USE WindowAssumption
<1>1. Scan!Init => ClockInv
  BY DEF Scan!Init, ClockInv, Scan!WindowGiven
<1>2. ASSUME ScanInv, ClockInv
      PROVE  Scan!TypeOK
  <2>1. now \in 0..MaxTime /\ lastAccess \in 0..now /\ known \in BOOLEAN
    BY <1>2 DEF ScanInv, ClockInv, Scan!WindowGiven
  <2>2. /\ arrivals \in Seq(Nat) /\ requests \in Seq(Nat) /\ now \in Nat
        /\ \A i \in 1..Len(arrivals) : arrivals[i] \in Nat /\ arrivals[i] <= now
    BY <1>2 DEF ScanInv
  <2>3. \A i \in 1..Len(arrivals) : arrivals[i] \in 0..now
    BY <2>2
  <2>4. \A i \in 1..Len(requests) : requests[i] \in 0..now
    <3>1. PICK k \in 0..Len(arrivals) : EndsWith(arrivals, k, requests)
      BY <1>2, Zenon DEF ScanInv
    <3>2. PICK w \in Nat : w = Len(arrivals)
      BY <2>2
    <3>3. Len(requests) = w - k /\ \A i \in 1..(w - k) : requests[i] = arrivals[k + i]
      BY <3>1, <3>2, Zenon DEF EndsWith
    <3>4. k \in 0..w
      BY <3>2, Zenon
    <3>5. \A i \in 1..(w - k) : k + i \in 1..w
      BY <3>4
    <3>6. \A i \in 1..(w - k) : requests[i] \in 0..now
      BY <2>3, <3>2, <3>3, <3>5, Zenon
    <3>7. QED
      BY <3>3, <3>6, Zenon
  <2>5. arrivals \in Seq(0..now) /\ requests \in Seq(0..now)
    BY <2>2, <2>3, <2>4, ListOf, Zenon
  <2>6. QED
    BY <2>1, <2>5 DEF Scan!TypeOK
<1>3. ScanInv /\ ClockInv /\ [Scan!Next]_Scan!vars => ClockInv'
  BY ClockStep
<1>4. QED
  BY <1>1, <1>2, <1>3, ScanInvariance, ThrottleRuns, PTL

\* What a copy got and sent, even one that failed.
CopiedInv == got \in Seq(0..n) /\ sent \in Seq(1..n)

\* Messages are got and sent on the way to the row only (Wait, Send).
LEMMA CopiedStep ==
  ASSUME BatchesInv, BatchesInv', CopiedInv, [Batched!Next]_Batched!vars
  PROVE  CopiedInv'
<1>1. n' = n /\ (UNCHANGED <<got, sent>> \/ step' = "sending")
  <2>1. CASE \E b \in Batched!Batches : Batched!Start(b) \/ Batched!Answer(b) \/ Batched!Return(b)
    BY <2>1 DEF Batched!Start, Batched!Answer, Batched!Return
  <2>2. CASE \E m \in 1..n : Batched!Lose(m)
    BY <2>2 DEF Batched!Lose
  <2>3. CASE Batched!Wait
    BY <2>3 DEF Batched!Wait
  <2>4. CASE Batched!Send \/ Batched!Create
    BY <2>4 DEF Batched!Send, Batched!Create
  <2>5. CASE UNCHANGED Batched!vars
    BY <2>5 DEF Batched!vars
  <2>6. QED
    BY <2>1, <2>2, <2>3, <2>4, <2>5 DEF Batched!Next
<1>2. CASE UNCHANGED <<got, sent>>
  BY <1>1, <1>2 DEF CopiedInv
<1>3. CASE step' = "sending"
  <2>1. /\ n' \in Nat /\ got' \in Seq(Nat) /\ Len(got') = n'
        /\ \A i \in 1..n' : got'[i] \in {i, 0}
        /\ sent' \in Seq(Nat) /\ Len(sent') <= n' /\ \A i \in 1..Len(sent') : sent'[i] = i
    BY <1>3 DEF BatchesInv, SendingInv
  <2>2. \A i \in 1..Len(got') : got'[i] \in 0..n'
    BY <2>1
  <2>3. got' \in Seq(0..n')
    BY <2>1, <2>2
  <2>4. \A i \in 1..Len(sent') : sent'[i] \in 1..n'
    BY <2>1
  <2>5. sent' \in Seq(1..n')
    BY <2>1, <2>4
  <2>6. QED
    BY <2>3, <2>5 DEF CopiedInv
<1>4. QED
  BY <1>1, <1>2, <1>3

\* Batches keep their types, and a copy names messages of its source only.
LEMMA BatchesTypes == Spec => []Batched!TypeOK
<1>1. Batched!Init => CopiedInv
  BY DEF Batched!Init, CopiedInv
<1>2. BatchesInv /\ CopiedInv => Batched!TypeOK
  BY DEF BatchesInv, CopiedInv, Batched!TypeOK
<1>3. BatchesInv /\ BatchesInv' /\ CopiedInv /\ [Batched!Next]_Batched!vars => CopiedInv'
  BY CopiedStep
<1>4. QED
  BY <1>1, <1>2, <1>3, BatchesInvariance, BatchesRun, PTL

\* What the check command holds; there are no orphans before the messages are read.
HeldInv ==
  /\ Check!CheckTypeOK
  /\ ck.step \in {"idle", "files", "messages"} => ck.orphans = {} /\ ck.bad = {}

\* What the check command holds after a step of the server: the same rows and messages.
LEMMA ServerHolds ==
  ASSUME CheckInv, CheckInv', HeldInv, Check!Server
  PROVE  HeldInv'
<1>1. ck' = [ck EXCEPT !.listed = @ \cap Check!Listing', !.intact = {r \in @ : file'[r] = file[r]}]
  BY DEF Check!Server, Check!Remember
<1>2. ck' = [step |-> ck.step, files |-> ck.files, msgs |-> ck.msgs, bad |-> ck.bad,
             orphans |-> ck.orphans, listed |-> ck.listed \cap Check!Listing',
             intact |-> {r \in ck.intact : file'[r] = file[r]}]
  BY <1>1 DEF CheckInv, CheckShape
<1>3. /\ ck'.step = ck.step /\ ck'.files = ck.files /\ ck'.bad = ck.bad /\ ck'.msgs = ck.msgs
      /\ ck'.orphans = ck.orphans /\ ck'.listed = ck.listed \cap Check!Listing'
      /\ ck'.intact = {r \in ck.intact : file'[r] = file[r]}
  BY <1>2
<1>4. ck'.intact \subseteq Rows /\ ck'.intact \ ck'.bad \subseteq Check!Active'
  BY <1>3 DEF HeldInv, Check!CheckTypeOK, Check!Active
<1>5. QED
  BY <1>3, <1>4 DEF HeldInv, Check!CheckTypeOK

\* What it holds after a step of its own.
LEMMA CommandHolds ==
  ASSUME CheckInv, CheckInv', HeldInv, Check!Check
  PROVE  HeldInv'
<1>1. CASE ck' = Check!NoCheck
  <2>1. /\ ck'.step = "idle" /\ ck'.files = [r \in {} |-> {}] /\ ck'.msgs = {} /\ ck'.bad = {}
        /\ ck'.orphans = {} /\ ck'.listed = {} /\ ck'.intact = {}
    BY <1>1 DEF Check!NoCheck
  <2>2. QED
    BY <2>1 DEF HeldInv, Check!CheckTypeOK
<1>2. CASE Check!loadFiles
  <2> DEFINE live == {r \in Rows : file[r].status /= "free"}
             held == [r \in live |-> file[r].parts]
  <2>1. /\ ck' = [Check!NoCheck EXCEPT !.step = "files", !.files = held,
                    !.listed = Check!Listing, !.intact = Check!Active]
        /\ file' = file /\ row' = row
    BY <1>2 DEF Check!loadFiles, Check!vars
  <2>2. ck' = [step |-> "files", files |-> held, msgs |-> {}, bad |-> {}, orphans |-> {},
               listed |-> Check!Listing, intact |-> Check!Active]
    BY <2>1 DEF Check!NoCheck
  <2>3. DOMAIN held \subseteq Rows
    OBVIOUS
  <2> HIDE DEF held
  <2>4. /\ ck'.step = "files" /\ ck'.files = held /\ ck'.msgs = {} /\ ck'.bad = {}
        /\ ck'.orphans = {} /\ ck'.listed = Check!Listing /\ ck'.intact = Check!Active
    BY <2>2
  <2>5. QED
    BY <2>1, <2>3, <2>4 DEF HeldInv, Check!CheckTypeOK, Check!Listing, Check!Active
<1>3. ASSUME Check!loadChannelMessages, ck' # Check!NoCheck
      PROVE  HeldInv'
  <2>1. PICK seen \in SUBSET Msgs : ck' = [ck EXCEPT !.step = "messages", !.msgs = seen]
    BY <1>3 DEF Check!loadChannelMessages
  <2>2. ck' = [step |-> "messages", files |-> ck.files, msgs |-> seen, bad |-> ck.bad,
               orphans |-> ck.orphans, listed |-> ck.listed, intact |-> ck.intact]
    BY <2>1 DEF CheckInv, CheckShape
  <2>3. /\ ck'.step = "messages" /\ ck'.files = ck.files /\ ck'.msgs = seen /\ ck'.bad = ck.bad
        /\ ck'.orphans = ck.orphans /\ ck'.listed = ck.listed /\ ck'.intact = ck.intact
    BY <2>2
  <2>4. file' = file /\ row' = row /\ ck.step = "files"
    BY <1>3 DEF Check!loadChannelMessages, Check!vars
  <2>5. QED
    BY <2>3, <2>4 DEF HeldInv, Check!CheckTypeOK, Check!Listing, Check!Active
<1>4. ASSUME Check!ComparePartRows, ck' # Check!NoCheck
      PROVE  HeldInv'
  <2>1. PICK counted \in SUBSET Msgs :
          ck' = [ck EXCEPT !.step = "mark", !.bad = Check!Missing,
                           !.orphans = Check!Known \ counted]
    BY <1>4 DEF Check!ComparePartRows
  <2>2. ck' = [step |-> "mark", files |-> ck.files, msgs |-> ck.msgs, bad |-> Check!Missing,
               orphans |-> Check!Known \ counted, listed |-> ck.listed, intact |-> ck.intact]
    BY <2>1 DEF CheckInv, CheckShape
  <2>3. /\ ck'.step = "mark" /\ ck'.files = ck.files /\ ck'.msgs = ck.msgs
        /\ ck'.bad = Check!Missing /\ ck'.orphans = Check!Known \ counted
        /\ ck'.listed = ck.listed /\ ck'.intact = ck.intact
    BY <2>2
  <2>4. file' = file /\ row' = row /\ ck.step = "messages"
    BY <1>4 DEF Check!ComparePartRows, Check!vars
  <2>5. Check!Missing \subseteq DOMAIN ck.files /\ Check!Known \subseteq ck.msgs
    BY DEF Check!Missing, Check!Known
  <2>6. QED
    BY <2>3, <2>4, <2>5 DEF HeldInv, Check!CheckTypeOK, Check!Listing, Check!Active
<1>5. ASSUME Check!MarkMissing, ck' # Check!NoCheck
      PROVE  HeldInv'
  <2>1. /\ file' = [r \in Rows |-> IF r \in ck.bad /\ file[r].status /= "free"
                                    THEN [file[r] EXCEPT !.status = "pending"] ELSE file[r]]
        /\ ck' = [ck EXCEPT !.step = "orphans"] /\ row' = row
    BY <1>5 DEF Check!MarkMissing
  <2>2. ck' = [step |-> "orphans", files |-> ck.files, msgs |-> ck.msgs, bad |-> ck.bad,
               orphans |-> ck.orphans, listed |-> ck.listed, intact |-> ck.intact]
    BY <2>1 DEF CheckInv, CheckShape
  <2>3. /\ ck'.step = "orphans" /\ ck'.files = ck.files /\ ck'.bad = ck.bad /\ ck'.msgs = ck.msgs
        /\ ck'.orphans = ck.orphans /\ ck'.listed = ck.listed /\ ck'.intact = ck.intact
    BY <2>2
  <2>4. \A r \in Rows \ ck.bad : file'[r] = file[r]
    BY <2>1
  <2>5. ck'.intact \subseteq Rows /\ ck'.intact \ ck'.bad \subseteq Check!Active'
    BY <2>3, <2>4 DEF HeldInv, Check!CheckTypeOK, Check!Active
  <2>6. ck'.listed \subseteq Check!Listing'
    BY <2>1, <2>3 DEF HeldInv, Check!CheckTypeOK, Check!Listing
  <2>7. QED
    BY <2>3, <2>5, <2>6 DEF HeldInv, Check!CheckTypeOK
<1>6. Check!DeleteOrphans => ck' = Check!NoCheck
  BY DEF Check!DeleteOrphans
<1>7. QED
  BY <1>1, <1>2, <1>3, <1>4, <1>5, <1>6 DEF Check!Check

\* The check command keeps its types beside the server, whatever changes between its reads.
LEMMA CheckTypes == Spec => []Check!CheckTypeOK
<1>1. Check!CheckInit => HeldInv
  BY DEF Check!CheckInit, Check!NoCheck, HeldInv, Check!CheckTypeOK
<1>2. CheckInv /\ CheckInv' /\ HeldInv /\ [Check!CheckNext]_Check!checkVars => HeldInv'
  <2>1. ASSUME HeldInv, UNCHANGED Check!checkVars
        PROVE  HeldInv'
    BY <2>1 DEF Check!checkVars, Check!vars, HeldInv, Check!CheckTypeOK, Check!Listing, Check!Active
  <2>2. QED
    BY <2>1, ServerHolds, CommandHolds DEF Check!CheckNext
<1>3. HeldInv => Check!CheckTypeOK
  BY DEF HeldInv
<1>4. QED
  BY <1>1, <1>2, <1>3, CheckInvariance, CheckRuns, PTL

\* An upload has tried as many bots as it drew, at most, and has one in hand while it tries.
TriedOK(r) ==
  /\ IsFiniteSet(r.tried) /\ Cardinality(r.tried) <= Drawn(r)
  /\ IF r.pc = "try" THEN r.bot \in r.tried ELSE r.bot = None

TriedInv == \A u \in Parts : TriedOK(up[u])

\* What a step does to it: nothing; a cycle or the request ends; a bot is given up; a draw is
\* spent; a bot is taken.
TriesOn(q, r) ==
  /\ q.tried = r.tried /\ q.draws = r.draws /\ q.bot = r.bot
  /\ q.pc = "try" <=> r.pc = "try"
Anew(q)      == q.tried = {} /\ q.draws = 0 /\ q.bot = None /\ q.pc # "try"
GaveUp(q, r) ==
  /\ r.pc = "try" /\ q.pc = "draw" /\ q.draws = r.draws + 1 /\ q.tried = r.tried /\ q.bot = None
Spends(q, r) ==
  /\ r.pc = "draw" /\ q.pc = "draw" /\ q.draws = r.draws + 1 /\ q.tried = r.tried /\ q.bot = r.bot
Takes(q, r) ==
  /\ r.pc = "draw" /\ q.pc = "try" /\ q.draws = r.draws
  /\ q.bot \notin r.tried /\ q.tried = r.tried \cup {q.bot}

\* Each keeps the bots within the draws.
LEMMA StaysTried ==
  ASSUME Bots!BotsGiven, NEW r \in Uploading, TriedOK(r), NEW q,
         TriesOn(q, r) \/ Anew(q) \/ GaveUp(q, r) \/ Spends(q, r) \/ Takes(q, r)
  PROVE  TriedOK(q)
<1>1. r.draws \in Nat /\ IsFiniteSet(r.tried) /\ Cardinality(r.tried) \in Nat
  BY BotNumbers, FS_CardinalityType DEF TriedOK, Uploading
<1>2. CASE TriesOn(q, r)
  BY <1>2 DEF TriesOn, TriedOK, Drawn
<1>3. CASE Anew(q)
  <2>1. IsFiniteSet({}) /\ Cardinality({}) = 0
    BY FS_EmptySet
  <2>2. QED
    BY <1>3, <2>1 DEF Anew, TriedOK, Drawn
<1>4. CASE GaveUp(q, r)
  BY <1>1, <1>4 DEF GaveUp, TriedOK, Drawn
<1>5. CASE Spends(q, r)
  BY <1>1, <1>5 DEF Spends, TriedOK, Drawn
<1>6. CASE Takes(q, r)
  <2>1. q.bot \notin r.tried /\ q.tried = r.tried \cup {q.bot} /\ q.bot \in q.tried
    BY <1>6 DEF Takes
  <2>2. IsFiniteSet(q.tried) /\ Cardinality(q.tried) = Cardinality(r.tried) + 1
    BY <1>1, <2>1, FS_AddElement
  <2>3. Cardinality(r.tried) <= r.draws /\ q.pc = "try" /\ q.draws = r.draws
    BY <1>6 DEF Takes, TriedOK, Drawn
  <2>4. Drawn(q) = r.draws + 1
    BY <2>3 DEF Drawn
  <2>5. QED
    BY <1>1, <2>1, <2>2, <2>3, <2>4 DEF TriedOK
<1>7. QED
  BY <1>2, <1>3, <1>4, <1>5, <1>6

\* Upload u takes its step, another draw disturbs the others at most.
LEMMA TriedRest ==
  ASSUME Bots!BotsGiven, UploadsInv, TriedInv, NEW u,
         u \in Parts => TriedOK(up'[u]),
         \A v \in Parts : v # u => up'[v] = up[v] \/ up'[v] = [up[v] EXCEPT !.alone = FALSE]
  PROVE  TriedInv'
<1>1. ASSUME NEW v \in Parts, v # u
      PROVE  TriedOK(up'[v])
  <2>1. up[v] \in Uploading /\ TriedOK(up[v])
    BY DEF UploadsInv, TriedInv
  <2>2. TriesOn(up'[v], up[v])
    BY <1>1, <2>1 DEF TriesOn, Uploading
  <2>3. QED
    BY <2>1, <2>2, StaysTried
<1>2. QED
  BY <1>1 DEF TriedInv

\* A request takes a step that leaves the rotation where it is.
LEMMA TriedOne ==
  ASSUME Bots!BotsGiven, UploadsInv, TriedInv, NEW u \in Parts, NEW q, up' = [up EXCEPT ![u] = q],
         \/ TriesOn(q, up[u]) \/ Anew(q) \/ GaveUp(q, up[u])
  PROVE  TriedInv'
<1>1. up[u] \in Uploading /\ TriedOK(up[u])
  BY DEF UploadsInv, TriedInv
<1>2. TriedOK(q)
  BY <1>1, StaysTried
<1>3. up'[u] = q /\ \A v \in Parts : v # u => up'[v] = up[v]
  BY DEF UploadsInv
<1>4. QED
  BY <1>2, <1>3, TriedRest

\* The bot that Next names is tried, or has been in this cycle.
LEMMA TriedDraw ==
  ASSUME Bots!BotsGiven, UploadsInv, TriedInv, NEW u \in Parts, Bots!Draw(u)
  PROVE  TriedInv'
<1> DEFINE r == up[u]
           over == {Bots!TokenAt(x) : x \in 0..(Bots!Skips - 1)}
           again == [r EXCEPT !.draws = @ + 1, !.passed = @ \cup over]
<1>1. r \in Uploading /\ TriedOK(r) /\ r.pc = "draw"
  BY DEF UploadsInv, TriedInv, Bots!Draw
<1>2. PICK b \in Bots!Bots :
        LET mine == IF b \in r.tried THEN again
                    ELSE [r EXCEPT !.pc = "try", !.bot = b, !.tried = @ \cup {b},
                                   !.passed = @ \cup over]
        IN  up' = [v \in Parts |-> IF v = u THEN mine ELSE [up[v] EXCEPT !.alone = FALSE]]
  BY DEF Bots!Draw
<1> DEFINE tries == [r EXCEPT !.pc = "try", !.bot = b, !.tried = @ \cup {b}, !.passed = @ \cup over]
<1> HIDE DEF r, over
<1>3. b \in r.tried => Spends(again, r)
  BY <1>1 DEF Spends, Uploading
<1>4. b \notin r.tried => Takes(tries, r)
  BY <1>1 DEF Takes, Uploading
<1> HIDE DEF again, tries
<1>5. /\ b \in r.tried => up'[u] = again
      /\ b \notin r.tried => up'[u] = tries
      /\ \A v \in Parts : v # u => up'[v] = [up[v] EXCEPT !.alone = FALSE]
  BY <1>2 DEF tries
<1>6. TriedOK(up'[u])
  BY <1>1, <1>3, <1>4, <1>5, StaysTried
<1>7. QED
  BY <1>5, <1>6, TriedRest

\* The steps of a request.
LEMMA TriedStep ==
  ASSUME Bots!BotsGiven, UploadsInv, TriedInv, NEW u \in Parts, Bots!Request(u)
  PROVE  TriedInv'
<1> DEFINE r == up[u]
<1>1. r \in Uploading /\ TriedOK(r)
  BY DEF UploadsInv, TriedInv
<1>2. CASE Bots!Start(u)
  <2> DEFINE q == [r EXCEPT !.pc = "draw"]
  <2>1. up' = [up EXCEPT ![u] = q] /\ r.pc = "idle"
    BY <1>2 DEF Bots!Start, UploadsInv
  <2> HIDE DEF r
  <2>2. TriesOn(q, r)
    BY <1>1, <2>1 DEF TriesOn, Uploading
  <2> HIDE DEF q
  <2>3. QED
    BY <2>1, <2>2, TriedOne DEF r
<1>3. CASE Bots!Sleep(u)
  <2> DEFINE q == [r EXCEPT !.pc = "sleep"]
  <2>1. up' = [up EXCEPT ![u] = q] /\ r.pc = "draw"
    BY <1>3 DEF Bots!Sleep, Bots!Spent, UploadsInv
  <2> HIDE DEF r
  <2>2. TriesOn(q, r)
    BY <1>1, <2>1 DEF TriesOn, Uploading
  <2> HIDE DEF q
  <2>3. QED
    BY <2>1, <2>2, TriedOne DEF r
<1>4. CASE Bots!Wake(u)
  <2> DEFINE q == [r EXCEPT !.draws = 0, !.tried = {}, !.passed = {}, !.alone = TRUE,
                           !.limited = {}, !.pc = "draw", !.wait = FALSE, !.cycle = @ + 1]
  <2>1. up' = [up EXCEPT ![u] = q] /\ r.pc = "sleep"
    BY <1>4 DEF Bots!Wake, Bots!FreshCycle
  <2> HIDE DEF r
  <2>2. q.draws = 0 /\ q.tried = {} /\ q.pc = "draw" /\ q.bot = r.bot
    BY <1>1 DEF Uploading
  <2>3. Anew(q)
    BY <1>1, <2>1, <2>2 DEF Anew, TriedOK
  <2> HIDE DEF q
  <2>4. QED
    BY <2>1, <2>3, TriedOne DEF r
<1>5. CASE Bots!Settle(u) \/ Bots!Exhaust(u)
  <2>1. PICK x : up' = [up EXCEPT ![u] = [Bots!Idle EXCEPT !.pc = "done", !.result = x]]
    BY <1>5 DEF Bots!Settle, Bots!Exhaust, Bots!Answer
  <2> DEFINE q == [Bots!Idle EXCEPT !.pc = "done", !.result = x]
  <2>2. Anew(q)
    BY DEF Anew, Bots!Idle
  <2> HIDE DEF q
  <2>3. up' = [up EXCEPT ![u] = q]
    BY <2>1 DEF q
  <2>4. QED
    BY <2>2, <2>3, TriedOne
<1>6. CASE Bots!Refused(u)
  <2> DEFINE q == [r EXCEPT !.pc = "draw", !.draws = @ + 1, !.bot = None, !.failed = TRUE]
  <2>1. up' = [up EXCEPT ![u] = q] /\ r.pc = "try"
    BY <1>6 DEF Bots!Refused, UploadsInv
  <2> HIDE DEF r
  <2>2. GaveUp(q, r)
    BY <1>1, <2>1 DEF GaveUp, Uploading
  <2> HIDE DEF q
  <2>3. QED
    BY <2>1, <2>2, TriedOne DEF r
<1>7. CASE Bots!Limited(u)
  <2> DEFINE q == [r EXCEPT !.pc = "draw", !.draws = @ + 1, !.bot = None, !.failed = TRUE,
                           !.wait = TRUE, !.limited = @ \cup {r.bot}]
  <2>1. up' = [up EXCEPT ![u] = q] /\ r.pc = "try"
    BY <1>7 DEF Bots!Limited, UploadsInv
  <2> HIDE DEF r
  <2>2. GaveUp(q, r)
    BY <1>1, <2>1 DEF GaveUp, Uploading
  <2> HIDE DEF q
  <2>3. QED
    BY <2>1, <2>2, TriedOne DEF r
<1>8. QED
  BY <1>2, <1>3, <1>4, <1>5, <1>6, <1>7, TriedDraw DEF Bots!Request

\* Uploads and streams.
LEMMA TriedSteps ==
  ASSUME Bots!BotsGiven, BotsInv, TriedInv, [Bots!StreamNext]_Bots!streamVars
  PROVE  TriedInv'
<1>1. UploadsInv
  BY DEF BotsInv
<1>2. CASE UNCHANGED up
  BY <1>2 DEF TriedInv, TriedOK, Drawn
<1>3. CASE \E u \in Parts : Bots!Request(u)
  BY <1>1, <1>3, TriedStep
<1>4. CASE Bots!Disturb
  <2>1. \A v \in Parts : up'[v] = [up[v] EXCEPT !.alone = FALSE]
    BY <1>4 DEF Bots!Disturb
  <2>2. PICK none : none \notin Parts
    BY NoSetContainsEverything
  <2>3. QED
    BY <1>1, <2>1, <2>2, TriedRest
<1>5. UNCHANGED up \/ (\E u \in Parts : Bots!Request(u)) \/ Bots!Disturb
  <2>1. ASSUME NEW s \in Streams, Bots!Advance(s) \/ Bots!Fails(s)
        PROVE  UNCHANGED up \/ Bots!Disturb
    BY <2>1 DEF Bots!Advance, Bots!OpenStream, Bots!Choose, Bots!FallBack, Bots!WriteBody,
       Bots!Finish, Bots!StreamRefused, Bots!TryOther, Bots!TryUser, Bots!Fails, Bots!vars
  <2>2. QED
    BY <2>1 DEF Bots!StreamNext, Bots!Next, Bots!streamVars, Bots!vars
<1>6. QED
  BY <1>2, <1>3, <1>4, <1>5

\* Uploads and streams keep their types; an upload has tried no more bots than it drew.
LEMMA BotsTypes == Spec => []Bots!StreamTypeOK
<1> USE BotsAssumption
<1>1. Bots!StreamInit => TriedInv
  <2>1. IsFiniteSet({}) /\ Cardinality({}) = 0
    BY FS_EmptySet
  <2>2. TriedOK(Bots!Idle)
    BY <2>1 DEF TriedOK, Drawn, Bots!Idle
  <2>3. QED
    BY <2>2 DEF Bots!StreamInit, Bots!Init, Bots!UploadInit, TriedInv
<1>2. BotsInv /\ TriedInv /\ [Bots!StreamNext]_Bots!streamVars => TriedInv'
  BY TriedSteps
<1>3. ASSUME BotsInv, TriedInv
      PROVE  Bots!StreamTypeOK
  <2>1. ASSUME NEW u \in Parts
        PROVE  /\ up[u].pc \in {"idle", "draw", "try", "sleep", "done"}
               /\ up[u].cycle \in 0..MaxWaitCycles /\ up[u].draws \in 0..Bots!N
               /\ up[u].tried \subseteq Bots!Bots
               /\ Bots!Cardinality(up[u].tried) <= up[u].draws + 1
               /\ up[u].bot \in up[u].tried <=> up[u].pc = "try"
    <3>1. up[u] \in Uploading /\ TriedOK(up[u])
      BY <1>3 DEF BotsInv, UploadsInv, TriedInv
    <3>2. Cardinality(up[u].tried) \in Nat /\ up[u].draws \in Nat
      BY <3>1, BotNumbers, FS_CardinalityType DEF TriedOK, Uploading
    <3>3. Cardinality(up[u].tried) <= up[u].draws + 1
      BY <3>1, <3>2 DEF TriedOK, Drawn
    <3>4. Bots!Cardinality(up[u].tried) = Cardinality(up[u].tried)
      BY DEF Bots!Cardinality, Cardinality
    <3>5. None \notin up[u].tried
      BY <3>1 DEF Uploading, Bots!BotsGiven
    <3>6. up[u].bot \in up[u].tried <=> up[u].pc = "try"
      BY <3>1, <3>5 DEF TriedOK
    <3>7. QED
      BY <3>1, <3>3, <3>4, <3>6 DEF Uploading
  <2>2. Bots!TypeOK
    BY <1>3, <2>1 DEF BotsInv, UploadsInv, Bots!TypeOK
  <2>3. ASSUME NEW s \in Streams
        PROVE  /\ st[s].pc \in {"idle", "choose", "send", "retry", "done"}
               /\ st[s].rounds \in 0..Bots!N /\ st[s].token \in Bots!Bots \cup {User, None}
               /\ st[s].off \in 0..Len(st[s].body) /\ Len(st[s].body) <= Length
    <3>1. st[s] \in Streaming /\ BodyOK(st[s])
      BY <1>3 DEF BotsInv, StreamsInv
    <3>2. st[s].off \in Nat /\ Len(st[s].body) \in Nat
      BY <3>1 DEF Streaming
    <3>3. QED
      BY <3>1, <3>2 DEF Streaming, BodyOK
  <2>4. QED
    BY <2>2, <2>3 DEF Bots!StreamTypeOK
<1>4. QED
  BY <1>1, <1>2, <1>3, BotsInvariance, BotsRun, PTL

\* A decrypter's limit is what is left of its range.
LEMMA CipherTypes == Spec => []Cipher!TypeOK
<1> USE CipherAssumption
<1>1. ASSUME CipherInv
      PROVE  Cipher!TypeOK
  <2>1. PICK key \in Cipher!Nonces : BlocksInv(key) /\ DecInv(key)
    BY <1>1 DEF CipherInv
  <2>2. size \in Sizes /\ size \in Nat /\ nonce \in Cipher!Nonces /\ blocks \in Seq(Blocks)
    BY <2>1 DEF BlocksInv, Cipher!CipherGiven
  <2>3. \A i \in DOMAIN blocks : blocks[i].n \in 1..BlockData /\ blocks[i].nonce \in Cipher!Nonces
    <3>1. \A i \in DOMAIN blocks : blocks[i] \in Blocks
      BY <2>2
    <3>2. \A b \in Blocks : b.n \in 1..BlockData /\ b.nonce \in Cipher!Nonces
      BY DEF Blocks
    <3>3. QED
      BY <3>1, <3>2, Zenon
  <2>4. /\ dec.err \in {"closed", "nil", "EOF", "BadSeek"}
        /\ dec.limit \in 0..size /\ dec.idx \in 0..Len(dec.buf)
    <3>1. CASE dec.err = "closed"
      <4>1. dec = Cipher!NoDecrypter
        BY <2>1, <3>1 DEF DecInv
      <4>2. dec.limit = 0 /\ dec.idx = 0 /\ dec.buf = <<>>
        BY <4>1 DEF Cipher!NoDecrypter
      <4>3. 0 \in 0..size /\ 0 \in 0..Len(<<>>)
        BY <2>2
      <4>4. QED
        BY <3>1, <4>2, <4>3, Zenon
    <3>2. CASE dec.err # "closed"
      <4>1. Opened(dec, key)
        BY <2>1, <3>2 DEF DecInv
      <4>2. /\ dec.off \in Nat /\ dec.len \in Nat /\ dec.idx \in Nat /\ dec.limit \in Nat
            /\ dec.buf \in Seq(Int) /\ dec.out \in Seq(Int)
            /\ dec.err \in {"closed", "nil", "EOF", "BadSeek"}
        BY <4>1 DEF Opened, Decrypters
      <4>3. dec.off + dec.len <= size /\ dec.limit = dec.len - Len(dec.out)
        BY <4>1 DEF Opened, Given
      <4>4. Len(dec.out) \in Nat /\ Len(dec.buf) \in Nat
        BY <4>2
      <4>5. dec.idx <= Len(dec.buf)
        BY <4>1 DEF Opened, Holding
      <4>6. QED
        BY <2>2, <4>2, <4>3, <4>4, <4>5
    <3>3. QED
      BY <3>1, <3>2
  <2>5. QED
    BY <2>2, <2>3, <2>4 DEF Cipher!TypeOK
<1>2. QED
  BY <1>1, CipherInvariance, PTL

\* The reader of a part holds a chunk at most.
LEMMA BodyTypesHold == Spec => []Body!TypeOK
<1> USE BodyAssumption
<1>1. ASSUME BodyInv
      PROVE  Body!TypeOK
  <2>1. /\ BodyTypes /\ range.start \in Nat /\ range.end \in Nat
        /\ stored.size \in Nat /\ Len(stored.parts) \in Nat
    <3>1. BodyTypes /\ range.start \in Nat /\ range.end \in Nat /\ stored \in Files
      BY <1>1 DEF BodyInv, BodyTypes
    <3>2. stored.size \in Nat /\ stored.parts \in Seq(Nat \ {0})
      BY <3>1 DEF Body!BodyGiven
    <3>3. QED
      BY <3>1, <3>2, LenProperties
  <2>2. CASE tr = Body!NoReader
    <3>1. tr.limit = 0 /\ tr.buf = <<>>
      BY <2>2 DEF Body!NoReader
    <3>2. tr.limit \in Nat /\ Len(tr.buf) <= MaxChunk
      BY <3>1 DEF Body!BodyGiven
    <3>3. QED
      BY <2>1, <3>2 DEF BodyTypes, Body!TypeOK
  <2>3. CASE tr # Body!NoReader
    <3>1. Midway
      BY <1>1, <2>1, <2>3 DEF BodyInv, BodyTypes, BodyStreams
    <3>2. \E no, x, last : ReaderAt(tr, no, x, last)
      BY <3>1 DEF Midway
    <3>3. PICK no, x, last : ReaderAt(tr, no, x, last)
      BY <3>2
    <3>4. tr.buf = <<>> \/ Len(tr.buf) <= MaxChunk
      BY <3>3 DEF ReaderAt
    <3>5. tr.limit \in Nat
      BY <3>3 DEF ReaderAt
    <3>6. Len(tr.buf) <= MaxChunk
      BY <3>4 DEF Body!BodyGiven
    <3>7. QED
      BY <2>1, <3>5, <3>6 DEF BodyTypes, Body!TypeOK
  <2>4. QED
    BY <2>2, <2>3
<1>2. QED
  BY <1>1, BodyInvariance, PTL

\* The variables of every component keep their types and their bounds.
THEOREM TypesHold == Spec => []TypesOK
<1>1. Spec => []Auth!TypeOK
  BY TrustRuns, KeysAssumption, Auth!AuthTypes
<1>2. ChannelInv => Rollover!TypeOK
  BY DEF ChannelInv
<1>3. SessionsInv => Web!TypeOK
  BY DEF SessionsInv
<1>4. CallsInv => Rpc!TypeOK
  BY DEF CallsInv, CallOK, Fine, CallOf, Rpc!Kinds, Rpc!TypeOK
<1>5. /\ Cipher!TypeOK /\ Body!TypeOK /\ Bots!StreamTypeOK /\ Auth!TypeOK /\ Rollover!TypeOK
      /\ Check!CheckTypeOK /\ Web!TypeOK /\ Scan!TypeOK /\ Batched!TypeOK /\ Rpc!TypeOK
      /\ Server!TypeOK
      => TypesOK
  BY DEF TypesOK
<1>6. EventsInv => Server!TypeOK
  BY DEF EventsInv
<1>7. QED
  BY <1>1, <1>2, <1>3, <1>4, <1>5, <1>6, CipherTypes, BodyTypesHold, BotsTypes, ChannelInvariance,
     CheckTypes, SessionsInvariance, ScanTypes, BatchesTypes, CallsInvariance, EventsInvariance,
     PTL
=============================================================================
