-------------------------- MODULE MultiReaderProofs --------------------------
(***************************************************************************)
(* Proofs about MultiReader, for every range, chunk size, number of        *)
(* threads and buffer capacity.  The arithmetic of newTGMultiReader comes  *)
(* first (the slices tile the requested range), then the arithmetic of the *)
(* slot index, then the inductive invariant and what follows from it.      *)
(***************************************************************************)
EXTENDS MultiReader, FiniteSetTheorems, TLAPS

\* Where chunk t begins; one past the last chunk, the end of the range.
Boundary(t) == IF t < TotalParts THEN Slice(t).lo ELSE End + 1

\* Euclidean division of natural numbers determines quotient and remainder.
LEMMA DivMod ==
  ASSUME NEW a \in Nat, NEW d \in Nat \ {0}
  PROVE  /\ a \div d \in Nat
         /\ a % d \in 0..(d - 1)
         /\ a = d * (a \div d) + (a % d)
<1>1. a % d \in 0..(d - 1) /\ a = d * (a \div d) + (a % d) /\ a \div d \in Int
  OBVIOUS
<1>2. a \div d >= 0
  <2>1. SUFFICES ASSUME a \div d <= -1 PROVE FALSE
    BY <1>1
  <2>2. d * (a \div d) <= -d
    BY <1>1, <2>1
  <2>3. QED
    BY <1>1, <2>2
<1>3. QED
  BY <1>1, <1>2

\* A quotient is the only number whose multiple brackets the dividend.
LEMMA DivUnique ==
  ASSUME NEW d \in Nat \ {0}, NEW q \in Int, NEW r \in 0..(d - 1),
         NEW q2 \in Int, NEW r2 \in 0..(d - 1), d * q + r = d * q2 + r2
  PROVE  q = q2 /\ r = r2
<1>1. d * (q - q2) = r2 - r
  OBVIOUS
<1>2. ~(q - q2 >= 1)
  <2>1. SUFFICES ASSUME q - q2 >= 1 PROVE FALSE
    OBVIOUS
  <2>2. d * (q - q2) >= d
    BY <2>1
  <2>3. QED
    BY <1>1, <2>2
<1>3. ~(q - q2 <= -1)
  <2>1. SUFFICES ASSUME q - q2 <= -1 PROVE FALSE
    OBVIOUS
  <2>2. d * (q - q2) <= -d
    BY <2>1
  <2>3. QED
    BY <1>1, <2>2
<1>4. q = q2
  BY <1>2, <1>3
<1>5. QED
  BY <1>1, <1>4

\* The number of chunks and the positions where the range enters and leaves
\* the chunk grid, in terms of the grid cells of Start and End.
LEMMA GridFacts ==
  /\ Start \div ChunkSize \in Nat /\ End \div ChunkSize \in Nat
  /\ Start \div ChunkSize <= End \div ChunkSize
  /\ Offset = ChunkSize * (Start \div ChunkSize)
  /\ LeftCut \in 0..(ChunkSize - 1)
  /\ RightCut \in 1..ChunkSize
  /\ End + 1 = ChunkSize * (End \div ChunkSize) + RightCut
  /\ TotalParts = (End \div ChunkSize) - (Start \div ChunkSize) + 1
<1> DEFINE s == Start \div ChunkSize
           e == End \div ChunkSize
<1>1. /\ Start \in Nat /\ End \in Nat /\ Start <= End /\ ChunkSize \in Nat \ {0}
  BY RangeAssumption
<1>2. s \in Nat /\ Start % ChunkSize \in 0..(ChunkSize - 1)
      /\ Start = ChunkSize * s + (Start % ChunkSize)
  BY <1>1, DivMod
<1>3. e \in Nat /\ End % ChunkSize \in 0..(ChunkSize - 1)
      /\ End = ChunkSize * e + (End % ChunkSize)
  BY <1>1, DivMod
<1> HIDE DEF s, e
<1>4. s <= e
  <2>1. SUFFICES ASSUME s - e >= 1 PROVE FALSE
    BY <1>2, <1>3
  <2>2. ChunkSize * (s - e) >= ChunkSize
    BY <1>1, <1>2, <1>3, <2>1
  <2>3. ChunkSize * s - ChunkSize * e >= ChunkSize
    BY <1>1, <1>2, <1>3, <2>2
  <2>4. QED
    BY <1>1, <1>2, <1>3, <2>3
<1>5. Offset = ChunkSize * s
  BY <1>1, <1>2 DEF Offset
<1>6. LeftCut = Start % ChunkSize
  BY <1>1, <1>2, <1>5 DEF LeftCut
<1>7. RightCut = (End % ChunkSize) + 1
  BY DEF RightCut
<1>8. TotalParts = e - s + 1
  <2> DEFINE x == End - Offset + ChunkSize
  <2>1. x = ChunkSize * (e - s + 1) + (End % ChunkSize)
    <3>1. ChunkSize * (e - s + 1) = ChunkSize * e - ChunkSize * s + ChunkSize
      BY <1>1, <1>2, <1>3
    <3>2. ChunkSize * e \in Int /\ ChunkSize * s \in Int /\ End % ChunkSize \in Int
      BY <1>1, <1>2, <1>3
    <3>3. x = End - ChunkSize * s + ChunkSize
      BY <1>5
    <3> HIDE DEF x
    <3>4. QED
      BY <1>1, <1>3, <3>1, <3>2, <3>3
  <2>2. x \in Nat
    <3>1. ChunkSize * (e - s + 1) >= 0
      BY <1>1, <1>2, <1>3, <1>4
    <3>2. ChunkSize * (e - s + 1) \in Int
      BY <1>1, <1>2, <1>3
    <3>3. QED
      BY <1>3, <2>1, <3>1, <3>2
  <2> HIDE DEF x
  <2>3. x \div ChunkSize \in Nat /\ x % ChunkSize \in 0..(ChunkSize - 1)
        /\ x = ChunkSize * (x \div ChunkSize) + (x % ChunkSize)
    BY <1>1, <2>2, DivMod
  <2>4. x \div ChunkSize = e - s + 1
    <3>1. e - s + 1 \in Int /\ x \div ChunkSize \in Int
      BY <1>2, <1>3, <2>3
    <3>2. ChunkSize * (x \div ChunkSize) + (x % ChunkSize)
            = ChunkSize * (e - s + 1) + (End % ChunkSize)
      BY <2>1, <2>3
    <3> DEFINE q == x \div ChunkSize
               r == x % ChunkSize
               q2 == e - s + 1
               r2 == End % ChunkSize
    <3>3. q \in Int /\ q2 \in Int /\ r \in 0..(ChunkSize - 1) /\ r2 \in 0..(ChunkSize - 1)
      BY <1>3, <2>3, <3>1
    <3>4. ChunkSize * q + r = ChunkSize * q2 + r2
      BY <3>2
    <3> HIDE DEF q, r, q2, r2
    <3>5. q = q2
      BY <1>1, <3>3, <3>4, DivUnique
    <3>6. QED
      BY <3>5 DEF q, q2
  <2>5. QED
    BY <2>4 DEF TotalParts, x
<1>9. QED
  BY <1>1, <1>2, <1>3, <1>4, <1>5, <1>6, <1>7, <1>8 DEF s, e

\* The window of fillBuffer is at least one chunk and at most the whole range.
LEMMA WindowFacts ==
  TotalParts \in Nat \ {0} /\ Window \in 1..TotalParts /\ Window <= Threads
BY GridFacts, RangeAssumption DEF Window

\* The slices tile Start..End: each is non-empty, the first begins at Start,
\* the last ends at End, and each begins where the one before it ends.
LEMMA SliceFacts ==
  /\ Boundary(0) = Start /\ Boundary(TotalParts) = End + 1
  /\ \A p \in Parts : /\ Slice(p) = [lo |-> Boundary(p), hi |-> Boundary(p + 1) - 1]
                      /\ Boundary(p) < Boundary(p + 1)
  /\ \A t \in 0..TotalParts : Boundary(t) \in Nat /\ Boundary(t) <= End + 1
  /\ \A p \in Parts : Slice(p) \in Block
<1> DEFINE s == Start \div ChunkSize
           e == End \div ChunkSize
           Grid(t) == Offset + t * ChunkSize
<1>1. /\ Start \in Nat /\ End \in Nat /\ Start <= End /\ ChunkSize \in Nat \ {0}
      /\ s \in Nat /\ e \in Nat /\ s <= e /\ Offset = ChunkSize * s
      /\ LeftCut \in 0..(ChunkSize - 1) /\ RightCut \in 1..ChunkSize
      /\ End + 1 = ChunkSize * e + RightCut /\ TotalParts = e - s + 1
      /\ Start = Offset + LeftCut
  <2>1. Start = Offset + LeftCut
    BY GridFacts, RangeAssumption DEF LeftCut
  <2>2. QED
    BY <2>1, GridFacts, RangeAssumption
<1> HIDE DEF s, e
<1>2. Offset \in Nat
  <2>1. ChunkSize * s >= 0 /\ ChunkSize * s \in Int
    BY <1>1
  <2>2. QED
    BY <1>1, <2>1
<1>3. /\ \A t \in Int : Grid(t) \in Int /\ Grid(t + 1) = Grid(t) + ChunkSize
      /\ Grid(0) = Offset
  BY <1>1, <1>2
<1>4. Grid(TotalParts - 1) + RightCut = End + 1
  <2>1. (e - s) * ChunkSize = ChunkSize * e - ChunkSize * s
    BY <1>1
  <2>2. Grid(e - s) = ChunkSize * e
    <3>1. ChunkSize * e \in Int /\ ChunkSize * s \in Int
      BY <1>1
    <3>2. Grid(e - s) = ChunkSize * s + (e - s) * ChunkSize
      BY <1>1
    <3> HIDE DEF Grid
    <3>3. QED
      BY <2>1, <3>1, <3>2
  <2>3. TotalParts - 1 = e - s
    BY <1>1
  <2> HIDE DEF Grid
  <2>4. QED
    BY <1>1, <2>2, <2>3
<1>5. \A t \in Nat : Grid(t) >= Offset
  <2>1. TAKE t \in Nat
  <2>2. t * ChunkSize >= 0 /\ t * ChunkSize \in Int
    BY <1>1
  <2>3. QED
    BY <1>2, <2>2
<1>6. ASSUME NEW p \in Parts
      PROVE  Slice(p) = [lo |-> Grid(p) + Left(p), hi |-> Grid(p) + (Right(p) - 1)]
  BY DEF Slice
<1> HIDE DEF Grid
<1>7. TotalParts \in Nat \ {0}
  BY WindowFacts
<1>8. Boundary(0) = Start
  BY <1>1, <1>3, <1>6, <1>7 DEF Boundary, Left, Parts
<1>9. Boundary(TotalParts) = End + 1
  BY <1>7 DEF Boundary
<1>10. \A p \in Parts : Boundary(p) = Grid(p) + Left(p)
  BY <1>6, <1>7 DEF Boundary, Parts
<1>11. ASSUME NEW p \in Parts
       PROVE  Boundary(p + 1) = Grid(p) + Right(p)
  <2>1. CASE p = TotalParts - 1
    BY <1>1, <1>3, <1>4, <1>7, <1>9, <2>1 DEF Right
  <2>2. CASE p # TotalParts - 1
    <3>1. p + 1 \in Parts /\ p + 1 # 0 /\ p \in Int
      BY <1>7, <2>2 DEF Parts
    <3>2. Boundary(p + 1) = Grid(p + 1)
      BY <1>3, <1>10, <3>1 DEF Left
    <3>3. QED
      BY <1>3, <2>2, <3>1, <3>2 DEF Right
  <2>3. QED
    BY <2>1, <2>2
<1>12. ASSUME NEW p \in Parts
       PROVE  Boundary(p) < Boundary(p + 1)
  <2>1. CASE p = 0 /\ p = TotalParts - 1
    <3>1. Boundary(p) = Start /\ Boundary(p + 1) = End + 1
      BY <1>7, <1>8, <1>9, <2>1
    <3>2. QED
      BY <1>1, <3>1
  <2>2. CASE ~(p = 0 /\ p = TotalParts - 1)
    <3>1. Left(p) < Right(p)
      BY <1>1, <2>2 DEF Left, Right
    <3>2. Grid(p) \in Int /\ Left(p) \in Int /\ Right(p) \in Int
      BY <1>1, <1>3 DEF Left, Right, Parts
    <3>3. QED
      BY <1>10, <1>11, <3>1, <3>2
  <2>3. QED
    BY <2>1, <2>2
<1>13. ASSUME NEW p \in Parts
      PROVE  Slice(p) = [lo |-> Boundary(p), hi |-> Boundary(p + 1) - 1]
  <2>1. Slice(p) = [lo |-> Grid(p) + Left(p), hi |-> Grid(p) + (Right(p) - 1)]
    BY <1>6
  <2>2. Boundary(p) = Grid(p) + Left(p)
    BY <1>10
  <2>3. Boundary(p + 1) - 1 = Grid(p) + (Right(p) - 1)
    BY <1>1, <1>3, <1>11 DEF Right, Parts
  <2>4. QED
    BY <2>1, <2>2, <2>3, Zenon
<1>14. \A t \in 0..TotalParts : Boundary(t) \in Nat
  <2>1. TAKE t \in 0..TotalParts
  <2>2. CASE t = TotalParts
    BY <1>1, <1>9, <2>2
  <2>3. CASE t # TotalParts
    <3>1. t \in Parts /\ t \in Nat
      BY <1>7, <2>3 DEF Parts
    <3>2. Grid(t) \in Int /\ Grid(t) >= Offset /\ Left(t) \in Nat
      BY <1>1, <1>3, <1>5, <3>1 DEF Left
    <3>3. QED
      BY <1>2, <1>10, <3>1, <3>2
  <2>4. QED
    BY <2>2, <2>3
<1>15. \A t \in 0..TotalParts : Boundary(t) <= End + 1
  <2>1. ASSUME NEW t \in Parts PROVE Grid(t) <= Grid(TotalParts - 1)
    <3>1. (TotalParts - 1 - t) * ChunkSize >= 0
      BY <1>1, <1>7 DEF Parts
    <3>2. Grid(TotalParts - 1) = Grid(t) + (TotalParts - 1 - t) * ChunkSize
      BY <1>1, <1>2, <1>7 DEF Grid, Parts
    <3>3. Grid(t) \in Int /\ (TotalParts - 1 - t) * ChunkSize \in Int
      BY <1>1, <1>3, <1>7 DEF Parts
    <3>4. QED
      BY <3>1, <3>2, <3>3
  <2>2. TAKE t \in 0..TotalParts
  <2>3. CASE t = TotalParts
    BY <1>1, <1>9, <2>3
  <2>4. CASE t # TotalParts
    <3>1. t \in Parts
      BY <1>7, <2>4 DEF Parts
    <3>2. CASE t = TotalParts - 1
      <4>1. Boundary(t + 1) = End + 1 /\ Boundary(t) < Boundary(t + 1)
        BY <1>7, <1>9, <1>12, <3>1, <3>2
      <4>2. QED
        BY <1>1, <1>14, <4>1
    <3>3. CASE t # TotalParts - 1
      <4>1. t + 1 \in Parts /\ t + 1 # 0 /\ t \in Int
        BY <1>7, <3>1, <3>3 DEF Parts
      <4>2. Boundary(t + 1) = Grid(t + 1) /\ Boundary(t) < Boundary(t + 1)
        BY <1>3, <1>10, <1>12, <3>1, <4>1 DEF Left
      <4>3. Grid(t + 1) <= Grid(TotalParts - 1)
        BY <2>1, <4>1
      <4>4. /\ Grid(TotalParts - 1) \in Int /\ Grid(t + 1) \in Int
            /\ Grid(TotalParts - 1) + RightCut = End + 1 /\ RightCut \in 1..ChunkSize
            /\ Boundary(t) \in Int
        BY <1>1, <1>3, <1>4, <1>7, <1>14, <4>1
      <4>5. QED
        BY <1>1, <4>2, <4>3, <4>4
    <3>4. QED
      BY <3>2, <3>3
  <2>5. QED
    BY <2>3, <2>4
<1>16. ASSUME NEW p \in Parts PROVE Slice(p) \in Block
  <2>1. p \in 0..TotalParts /\ p + 1 \in 0..TotalParts
    BY <1>7 DEF Parts
  <2>2. QED
    BY <1>13, <1>14, <2>1 DEF Block
<1>17. QED
  BY <1>8, <1>9, <1>12, <1>13, <1>14, <1>15, <1>16

\* Two chunks less than a window apart never share a slot; one window apart,
\* they always do.
LEMMA SlotFacts ==
  /\ \A p \in 0..(Window - 1) : p % Window = p
  /\ \A p \in Nat : p % Window \in 0..(Window - 1)
  /\ \A p \in Nat : (p + Window) % Window = p % Window
  /\ \A p, q \in Nat : p <= q /\ q < p + Window /\ p % Window = q % Window => p = q
<1>1. Window \in Nat \ {0}
  BY WindowFacts
<1>2. ASSUME NEW p \in Nat
      PROVE  /\ p \div Window \in Nat /\ p % Window \in 0..(Window - 1)
             /\ p = Window * (p \div Window) + (p % Window)
  BY <1>1, DivMod
<1>3. ASSUME NEW p \in Nat
      PROVE  (p + Window) % Window = p % Window
  <2> DEFINE a == p \div Window
             b == (p + Window) \div Window
             r == p % Window
             u == (p + Window) % Window
  <2>1. a \in Nat /\ r \in 0..(Window - 1) /\ p = Window * a + r
    BY <1>2
  <2>2. b \in Nat /\ u \in 0..(Window - 1) /\ p + Window = Window * b + u
    <3>1. p + Window \in Nat
      BY <1>1
    <3>2. QED
      BY <1>2, <3>1
  <2> HIDE DEF a, b, r, u
  <2>3. Window * (a + 1) = Window * a + Window
    BY <1>1, <2>1
  <2>4. Window * a \in Int /\ Window * b \in Int /\ a + 1 \in Int
    BY <1>1, <2>1, <2>2
  <2>5. Window * (a + 1) + r = Window * b + u
    BY <1>1, <2>1, <2>2, <2>3, <2>4
  <2>6. r = u
    BY <1>1, <2>1, <2>2, <2>4, <2>5, DivUnique
  <2>7. QED
    BY <2>6 DEF r, u
<1>4. ASSUME NEW p \in Nat, NEW q \in Nat,
             p <= q, q < p + Window, p % Window = q % Window
      PROVE  p = q
  <2> DEFINE a == p \div Window
             b == q \div Window
             r == p % Window
  <2>1. a \in Nat /\ r \in 0..(Window - 1) /\ p = Window * a + r
    BY <1>2
  <2>2. b \in Nat /\ q = Window * b + r
    BY <1>2, <1>4
  <2> HIDE DEF a, b, r
  <2>3. Window * (b - a) = q - p
    <3>1. Window * (b - a) = Window * b - Window * a
      BY <1>1, <2>1, <2>2
    <3>2. Window * a \in Int /\ Window * b \in Int /\ r \in Int
      BY <1>1, <2>1, <2>2
    <3>3. QED
      BY <2>1, <2>2, <3>1, <3>2
  <2>4. ~(b - a >= 1)
    <3>1. SUFFICES ASSUME b - a >= 1 PROVE FALSE
      OBVIOUS
    <3>2. Window * (b - a) >= Window
      BY <1>1, <2>1, <2>2, <3>1
    <3>3. QED
      BY <1>1, <1>4, <2>3, <3>2
  <2>5. ~(b - a <= -1)
    <3>1. SUFFICES ASSUME b - a <= -1 PROVE FALSE
      OBVIOUS
    <3>2. Window * (b - a) <= -Window
      BY <1>1, <2>1, <2>2, <3>1
    <3>3. QED
      BY <1>1, <1>4, <2>3, <3>2
  <2>6. a = b
    BY <2>1, <2>2, <2>4, <2>5
  <2>7. QED
    BY <2>1, <2>2, <2>6
<1>5. ASSUME NEW p \in 0..(Window - 1)
      PROVE  p % Window = p
  <2>1. p \in Nat /\ p = Window * 0 + p
    BY <1>1
  <2> DEFINE a == p \div Window
             r == p % Window
  <2>2. a \in Nat /\ r \in 0..(Window - 1) /\ p = Window * a + r
    BY <1>2, <2>1
  <2> HIDE DEF a, r
  <2>3. Window * a + r = Window * 0 + p
    BY <2>1, <2>2
  <2>4. r = p
    BY <1>1, <2>2, <2>3, DivUnique
  <2>5. QED
    BY <2>4 DEF r
<1>6. QED
  BY <1>2, <1>3, <1>4, <1>5

\* The consumer stands between the chunks it took and those in bufferChan.
OrderInv ==
  /\ Len(queue) <= part /\ Len(queue) <= Buffers
  /\ \A i \in 1..Len(queue) : queue[i] = Slice(Taken + i - 1)
  /\ cur.lo = End + 1 - limit
  /\ cur.hi = Boundary(Taken) - 1
  /\ cur.lo <= cur.hi + 1
  /\ rpc = "recv" => cur.lo > cur.hi /\ limit > 0

\* The window: which chunks have been launched, and in which slot they sit.
WindowInv ==
  /\ fpc \in {"start", "wait", "push"} => part < TotalParts
  /\ fpc = "start" => part = 0
  /\ \A q \in Parts : part <= q /\ q < part + Window => slots[q % Window] = q
  /\ \A p \in Parts : fetch[p] = "idle" <=> (fpc = "start" \/ p >= part + Window)
  /\ \A p \in Parts : p < part \/ (p = part /\ fpc = "push") => fetch[p] = "taken"

\* A chunk that was handed on has no source call left behind.
CallInv ==
  /\ \A p \in calling : part <= p /\ p < part + Window /\ fetch[p] # "idle"
  /\ \A p \in calling : fetch[p] # "ok"
  /\ fpc = "push" => part \notin calling

\* Why the filler stopped.
CauseInv ==
  /\ fpc \in {"exit", "closed"} /\ Live => part = TotalParts
  /\ cause.part # -1 => fpc \in {"exit", "closed"} /\ part = cause.part
  /\ cause.kind = "none" => cause.part = -1

IInv == TypeOK /\ OrderInv /\ WindowInv /\ CallInv /\ CauseInv /\ NeverAbandoned

\* The invariant holds when NewMultiReader returns.
THEOREM InitInv == Init => IInv
<1> SUFFICES ASSUME Init PROVE IInv
  OBVIOUS
<1> USE DEF Init
<1>1. /\ Start \in Nat /\ End \in Nat /\ Start <= End /\ Buffers \in Nat
      /\ TotalParts \in Nat \ {0} /\ Window \in 1..TotalParts /\ Boundary(0) = Start
  BY RangeAssumption, WindowFacts, SliceFacts
<1>2. TypeOK
  BY <1>1 DEF TypeOK, Block, Parts, NoCause, Failures, FetchErrors
<1>3. OrderInv
  BY <1>1 DEF OrderInv, Taken
<1>4. WindowInv
  <2>1. \A q \in Parts : part <= q /\ q < part + Window => slots[q % Window] = q
    <3>1. ASSUME NEW q \in Parts, part <= q, q < part + Window
          PROVE  slots[q % Window] = q
      <4>1. q \in 0..(Window - 1)
        BY <1>1, <3>1 DEF Parts
      <4>2. q % Window = q
        BY <4>1, SlotFacts
      <4>3. QED
        BY <4>1, <4>2
    <3>2. QED
      BY <3>1
  <2>2. part < TotalParts
    BY <1>1
  <2>3. \A p \in Parts : fetch[p] = "idle" /\ ~(p < part)
    BY <1>1 DEF Parts
  <2>4. QED
    BY <2>1, <2>2, <2>3 DEF WindowInv
<1>5. CallInv /\ CauseInv /\ NeverAbandoned
  BY DEF CallInv, CauseInv, NeverAbandoned, NoCause, Live
<1>6. QED
  BY <1>2, <1>3, <1>4, <1>5 DEF IInv

------------------------------------------------------------------------------
(***************************************************************************)
(* The invariant is preserved: fetches, fillBuffer, then the consumer.     *)
(***************************************************************************)

\* A fetch that ends changes nothing but its own result channel.
LEMMA FetchStep ==
  ASSUME IInv, NEW p \in Parts, NEW v \in Results, fetch[p] = "running",
         fetch' = [fetch EXCEPT ![p] = v],
         calling' \subseteq calling, v = "ok" => p \notin calling',
         UNCHANGED <<fillerVars, queue, cause, readerVars>>
  PROVE  IInv'
<1> USE DEF IInv, fillerVars, readerVars
<1>1. TypeOK'
  BY DEF TypeOK, Results
<1>2. OrderInv'
  BY DEF OrderInv, Taken
<1>3. WindowInv'
  BY DEF WindowInv, TypeOK, Results, FetchErrors
<1>4. CallInv'
  BY DEF CallInv, TypeOK, Results, FetchErrors
<1>5. CauseInv' /\ NeverAbandoned'
  BY DEF CauseInv, NeverAbandoned, Live
<1>6. QED
  BY <1>1, <1>2, <1>3, <1>4, <1>5

\* Every step of the fetch goroutines (fetchChunkWithTimeout) keeps the invariant.
LEMMA FetchGoroutines ==
  ASSUME IInv, NEW p \in Parts, SourceReturn(p) \/ FetchEnds(p)
  PROVE  IInv'
<1>1. CASE FetchEnds(p)
  <2>1. PICK v \in FetchErrors : fetch' = [fetch EXCEPT ![p] = v]
    BY <1>1 DEF FetchEnds, FetchTimeout, FetchCanceled, FetchErrors
  <2>2. v \in Results /\ v # "ok"
    BY DEF Results, FetchErrors
  <2>3. fetch[p] = "running" /\ UNCHANGED <<fillerVars, calling, queue, cause, readerVars>>
    BY <1>1 DEF FetchEnds, FetchTimeout, FetchCanceled
  <2>4. QED
    BY <2>1, <2>2, <2>3, FetchStep
<1>2. CASE SourceReturn(p) /\ fetch[p] = "running"
  <2>1. PICK v \in Results : fetch' = [fetch EXCEPT ![p] = v]
    BY <1>2 DEF SourceReturn, Results, FetchErrors
  <2>2. calling' \subseteq calling /\ p \notin calling'
    BY <1>2 DEF SourceReturn
  <2>3. UNCHANGED <<fillerVars, queue, cause, readerVars>>
    BY <1>2 DEF SourceReturn
  <2>4. QED
    BY <1>2, <2>1, <2>2, <2>3, FetchStep
<1>3. CASE SourceReturn(p) /\ fetch[p] # "running"
  <2> USE <1>3 DEF SourceReturn, fillerVars, readerVars, IInv
  <2>1. TypeOK'
    BY DEF TypeOK
  <2>2. OrderInv' /\ WindowInv'
    BY DEF OrderInv, Taken, WindowInv
  <2>3. CallInv' /\ CauseInv' /\ NeverAbandoned'
    BY DEF CallInv, CauseInv, NeverAbandoned, Live
  <2>4. QED
    BY <2>1, <2>2, <2>3
<1>4. QED
  BY <1>1, <1>2, <1>3

\* fillBuffer launching the next chunk keeps the invariant: its slot is free.
LEMMA FillStartStep ==
  ASSUME IInv, FillStart
  PROVE  IInv'
<1> USE DEF IInv, FillStart, Launch, readerVars
<1>1. /\ TotalParts \in Nat \ {0} /\ Window \in 1..TotalParts
      /\ 0..(Window - 1) \subseteq Parts
  BY WindowFacts DEF Parts
<1>2. part = 0 /\ \A p \in Parts : fetch[p] = "idle"
  BY DEF WindowInv
<1>3. TypeOK'
  BY <1>1 DEF TypeOK
<1>4. OrderInv'
  BY DEF OrderInv, Taken
<1>5. WindowInv'
  <2>1. \A p \in Parts : fetch'[p] = IF p < Window THEN "running" ELSE "idle"
    BY <1>1, <1>2 DEF Parts
  <2>2. QED
    BY <1>1, <1>2, <2>1 DEF WindowInv, Parts
<1>6. calling = {}
  BY <1>2 DEF CallInv, TypeOK
<1>7. CallInv'
  BY <1>1, <1>2, <1>6 DEF CallInv, Parts
<1>8. CauseInv' /\ NeverAbandoned'
  BY DEF CauseInv, NeverAbandoned, Live
<1>9. QED
  BY <1>3, <1>4, <1>5, <1>7, <1>8

\* fillBuffer taking the result of the earliest chunk keeps the invariant: a
\* failure is recorded as the cause before anything is closed.
LEMMA TakeResultStep ==
  ASSUME IInv, TakeResult
  PROVE  IInv'
<1> USE DEF IInv, readerVars
<1>1. fpc = "wait" /\ part \in Parts /\ slots[part % Window] = part
  <2>1. fpc = "wait" /\ part < TotalParts
    BY DEF TakeResult, WindowInv
  <2>2. part \in Parts
    BY <2>1, WindowFacts DEF TypeOK, Parts
  <2>3. QED
    BY <2>1, <2>2, WindowFacts DEF WindowInv, Parts
<1>2. /\ fetch[part] \in Results
      /\ fetch' = [fetch EXCEPT ![part] = "taken"]
      /\ IF fetch[part] = "ok"
         THEN fpc' = "push" /\ UNCHANGED cause
         ELSE fpc' = "exit" /\ Cancel(fetch[part], part)
      /\ UNCHANGED <<part, slots, calling, queue, readerVars>>
  BY <1>1 DEF TakeResult
<1>3. TypeOK'
  BY <1>1, <1>2 DEF TypeOK, Results, Failures, Cancel
<1>4. OrderInv'
  BY <1>2 DEF OrderInv, Taken
<1>5. WindowInv'
  BY <1>1, <1>2 DEF WindowInv, TypeOK, Results, FetchErrors
<1>6. CallInv'
  BY <1>1, <1>2 DEF CallInv, TypeOK
<1>7. CauseInv' /\ NeverAbandoned'
  <2>1. -1 \notin Parts
    BY WindowFacts DEF Parts
  <2>2. QED
    BY <1>1, <1>2, <2>1 DEF CauseInv, NeverAbandoned, Live, Cancel, Results, FetchErrors, TypeOK
<1>8. QED
  BY <1>3, <1>4, <1>5, <1>6, <1>7

\* fillBuffer leaving on a done context, and closing bufferChan, keep the invariant.
LEMMA FillerStops ==
  ASSUME IInv, FillCanceled \/ CloseChannel
  PROVE  IInv'
<1> USE DEF IInv, FillCanceled, CloseChannel, fetchVars, readerVars
<1>1. TypeOK'
  BY DEF TypeOK
<1>2. OrderInv' /\ NeverAbandoned'
  BY DEF OrderInv, Taken, NeverAbandoned
<1>3. WindowInv'
  BY DEF WindowInv
<1>4. CallInv' /\ CauseInv'
  BY DEF CallInv, CauseInv, Live
<1>5. QED
  BY <1>1, <1>2, <1>3, <1>4

\* After a push the window moves up by one chunk; the reader's part of the
\* invariant is left to the caller, who knows where the chunk went.
LEMMA AdvanceStep ==
  ASSUME IInv, fpc = "push", Advance, UNCHANGED cause
  PROVE  /\ part \in Parts /\ slots[part % Window] = part /\ part' = part + 1
         /\ part' \in 0..TotalParts
         /\ fpc' \in {"wait", "exit"}
         /\ slots' \in [0..(Window - 1) -> Parts]
         /\ fetch' \in [Parts -> {"idle", "running", "taken"} \cup Results]
         /\ calling' \subseteq Parts
         /\ WindowInv' /\ CallInv' /\ CauseInv'
<1> USE DEF IInv
<1>0. TotalParts \in Nat \ {0} /\ Window \in 1..TotalParts /\ Parts = 0..(TotalParts - 1)
  BY WindowFacts DEF Parts
<1>1. part \in Parts /\ slots[part % Window] = part
  <2>1. part \in Parts
    BY <1>0 DEF TypeOK, WindowInv
  <2>2. QED
    BY <1>0, <2>1 DEF WindowInv
<1>2. part' = part + 1 /\ part' \in 0..TotalParts /\ fpc' \in {"wait", "exit"}
      /\ (fpc' = "wait" <=> part + 1 < TotalParts)
  BY <1>0, <1>1 DEF Advance
<1>3. CASE part + Window < TotalParts
  <2> DEFINE q == part + Window
             i == part % Window
  <2>1. q \in Parts /\ i \in 0..(Window - 1) /\ q % Window = i
    <3>1. part \in Nat /\ q \in Parts
      BY <1>0, <1>1, <1>3
    <3>2. QED
      BY <3>1, SlotFacts
  <2>2. /\ slots' = [slots EXCEPT ![i] = q]
        /\ fetch' = [p \in Parts |-> IF p = q THEN "running" ELSE fetch[p]]
        /\ calling' = calling \cup {q}
    BY <1>3 DEF Advance, Launch
  <2>3. fetch[q] = "idle" /\ q \notin calling
    BY <1>0, <1>1, <2>1 DEF WindowInv, CallInv
  <2>4. slots' \in [0..(Window - 1) -> Parts] /\ calling' \subseteq Parts
        /\ fetch' \in [Parts -> {"idle", "running", "taken"} \cup Results]
    BY <2>1, <2>2 DEF TypeOK
  <2>5. ASSUME NEW r \in Parts, part' <= r, r < part' + Window
        PROVE  slots'[r % Window] = r
    <3>1. CASE r = q
      BY <2>1, <2>2, <3>1 DEF TypeOK
    <3>2. CASE r # q
      <4>1. part \in Nat /\ r \in Nat /\ part < r /\ r < part + Window
        BY <1>0, <1>1, <1>2, <2>5, <3>2
      <4>2. r % Window # i /\ r % Window \in 0..(Window - 1)
        BY <4>1, SlotFacts
      <4>3. slots[r % Window] = r
        BY <4>1, <1>1, <2>5 DEF WindowInv
      <4>4. QED
        BY <2>1, <2>2, <4>2, <4>3 DEF TypeOK
    <3>3. QED
      BY <3>1, <3>2
  <2>6. WindowInv'
    <3>1. \A p \in Parts : fetch'[p] = "idle" <=> (fpc' = "start" \/ p >= part' + Window)
      BY <1>0, <1>1, <1>2, <2>1, <2>2 DEF WindowInv
    <3>2. \A p \in Parts : p < part' \/ (p = part' /\ fpc' = "push") => fetch'[p] = "taken"
      BY <1>0, <1>1, <1>2, <2>1, <2>2 DEF WindowInv
    <3>3. QED
      BY <1>0, <1>2, <2>5, <3>1, <3>2 DEF WindowInv
  <2>7. CallInv'
    BY <1>0, <1>1, <1>2, <2>1, <2>2, <2>3 DEF CallInv, TypeOK
  <2>8. CauseInv'
    BY <1>2 DEF CauseInv, Live, TypeOK, Advance
  <2>9. QED
    BY <1>1, <1>2, <2>4, <2>6, <2>7, <2>8
<1>4. CASE ~(part + Window < TotalParts)
  <2>1. UNCHANGED <<slots, fetch, calling>>
    BY <1>4 DEF Advance, fetchVars
  <2>2. WindowInv'
    <3>1. ASSUME NEW r \in Parts, part' <= r, r < part' + Window
          PROVE  slots'[r % Window] = r
      <4>1. part <= r /\ r < part + Window
        BY <1>0, <1>1, <1>2, <1>4, <3>1
      <4>2. slots[r % Window] = r
        BY <4>1 DEF WindowInv
      <4>3. QED
        BY <2>1, <4>2
    <3>2. \A p \in Parts : fetch'[p] # "idle" /\ ~(p >= part' + Window)
      BY <1>0, <1>1, <1>2, <1>4, <2>1 DEF WindowInv
    <3>3. \A p \in Parts : p < part' => fetch'[p] = "taken"
      BY <1>0, <1>1, <1>2, <2>1 DEF WindowInv
    <3>4. QED
      BY <1>0, <1>2, <3>1, <3>2, <3>3 DEF WindowInv
  <2>3. CallInv'
    BY <1>0, <1>1, <1>2, <1>4, <2>1 DEF CallInv, TypeOK
  <2>4. CauseInv'
    BY <1>2 DEF CauseInv, Live, TypeOK, Advance
  <2>5. QED
    BY <1>1, <1>2, <2>1, <2>2, <2>3, <2>4 DEF TypeOK
<1>5. QED
  BY <1>3, <1>4

\* fillBuffer sending a chunk to bufferChan keeps the invariant.
LEMMA PushStep ==
  ASSUME IInv, Push
  PROVE  IInv'
<1> USE DEF IInv, readerVars
<1>1. /\ fpc = "push" /\ Advance /\ Len(queue) < Buffers
      /\ UNCHANGED <<cause, rpc, cur, limit, ret>>
  BY DEF Push
<1>2. /\ part \in Parts /\ slots[part % Window] = part /\ part' = part + 1
      /\ part' \in 0..TotalParts /\ fpc' \in {"wait", "exit"}
      /\ slots' \in [0..(Window - 1) -> Parts]
      /\ fetch' \in [Parts -> {"idle", "running", "taken"} \cup Results]
      /\ calling' \subseteq Parts
      /\ WindowInv' /\ CallInv' /\ CauseInv'
  BY <1>1, AdvanceStep
<1>3. queue' = Append(queue, Slice(part)) /\ Slice(part) \in Block
  BY <1>2, SliceFacts DEF Push
<1>4. queue \in Seq(Block) /\ Buffers \in Nat /\ part \in Nat
  BY <1>2, RangeAssumption, WindowFacts DEF TypeOK, Parts
<1>5. /\ queue' \in Seq(Block) /\ Len(queue') = Len(queue) + 1
      /\ \A j \in 1..Len(queue) : queue'[j] = queue[j]
      /\ queue'[Len(queue) + 1] = Slice(part)
  BY <1>3, <1>4
<1>6. TypeOK'
  BY <1>1, <1>2, <1>5 DEF TypeOK
<1>7. OrderInv'
  <2>1. Taken' = Taken
    BY <1>2, <1>4, <1>5 DEF Taken
  <2>2. \A j \in 1..Len(queue') : queue'[j] = Slice(Taken' + j - 1)
    <3>1. TAKE j \in 1..Len(queue')
    <3>2. CASE j <= Len(queue)
      BY <1>4, <1>5, <2>1, <3>2 DEF OrderInv
    <3>3. CASE j = Len(queue) + 1
      <4>1. Taken + j - 1 = part
        BY <1>4, <3>3 DEF Taken
      <4>2. QED
        BY <1>5, <2>1, <3>3, <4>1
    <3>4. QED
      BY <1>4, <1>5, <3>2, <3>3
  <2>3. QED
    BY <1>1, <1>2, <1>4, <1>5, <2>1, <2>2 DEF OrderInv
<1>8. QED
  BY <1>1, <1>2, <1>6, <1>7 DEF NeverAbandoned

\* Copying from a buffer b that starts at the first undelivered position.
LEMMA CopyOutFacts ==
  ASSUME IInv, NEW b \in Block, NEW k \in ReadSizes, CopyOut(b, k),
         b.lo = End + 1 - limit, b.lo <= b.hi, b.hi <= End
  PROVE  /\ cur' \in Block /\ limit' \in Int /\ rpc' = "idle"
         /\ ret' \in [lo : Int, n : Nat, err : {"nil", "EOF", "abandoned"} \cup Failures]
         /\ ret'.err # "abandoned"
         /\ cur'.lo = End + 1 - limit' /\ cur'.hi = b.hi /\ cur'.lo <= b.hi + 1
         /\ \E n \in 1..limit :
              /\ limit' = limit - n
              /\ ret' = [lo |-> b.lo, n |-> n, err |-> IF limit' = 0 THEN "EOF" ELSE "nil"]
<1> DEFINE size == b.hi - b.lo + 1
           n == IF k < size THEN k ELSE size
<1>1. k \in Nat \ {0} /\ End \in Nat /\ limit \in Int /\ b.lo \in Nat /\ b.hi \in Int
      /\ b = [lo |-> b.lo, hi |-> b.hi]
  BY RangeAssumption DEF IInv, TypeOK, Block
<1>2. n \in 1..limit /\ n <= b.hi - b.lo + 1
  BY <1>1
<1>3. /\ cur' = [b EXCEPT !.lo = b.lo + n] /\ limit' = limit - n /\ rpc' = "idle"
      /\ ret' = [lo |-> b.lo, n |-> n, err |-> IF limit - n <= 0 THEN "EOF" ELSE "nil"]
  BY DEF CopyOut
<1> HIDE DEF n
<1>4. cur' = [lo |-> b.lo + n, hi |-> b.hi]
  BY <1>1, <1>3
<1>5. ret' = [lo |-> b.lo, n |-> n, err |-> IF limit' = 0 THEN "EOF" ELSE "nil"]
  BY <1>1, <1>2, <1>3
<1>6. QED
  BY <1>1, <1>2, <1>3, <1>4, <1>5 DEF Block

\* Reads that only touch the consumer's own state.
LEMMA ConsumerFrame ==
  ASSUME IInv, UNCHANGED <<fillerVars, fetchVars, queue, cause>>,
         cur' = cur, limit' = limit, rpc' \in {"idle", "recv"},
         rpc' = "recv" => cur.lo > cur.hi /\ limit > 0,
         ret' \in [lo : Int, n : Nat, err : {"nil", "EOF"} \cup Failures]
  PROVE  IInv'
<1> USE DEF IInv, fillerVars, fetchVars
<1>1. TypeOK'
  BY DEF TypeOK
<1>2. OrderInv'
  BY DEF OrderInv, Taken
<1>3. WindowInv' /\ CallInv' /\ CauseInv'
  BY DEF WindowInv, CallInv, CauseInv, Live
<1>4. NeverAbandoned'
  BY DEF NeverAbandoned, Failures, FetchErrors
<1>5. QED
  BY <1>1, <1>2, <1>3, <1>4

\* bufferChan is closed and empty while the context is live only when every
\* byte has been handed out.
LEMMA ClosedMeansDone ==
  ASSUME IInv, fpc = "closed", queue = <<>>, rpc = "recv"
  PROVE  ~Live
<1> SUFFICES ASSUME Live PROVE FALSE
  OBVIOUS
<1>1. part = TotalParts /\ Taken = TotalParts
  BY WindowFacts DEF IInv, CauseInv, Taken
<1>2. cur.hi = End /\ cur.lo = End + 1 - limit /\ cur.lo <= cur.hi + 1
      /\ cur.lo > cur.hi /\ limit > 0
  BY <1>1, SliceFacts, RangeAssumption DEF IInv, OrderInv
<1>3. cur.lo \in Int /\ limit \in Int /\ End \in Int
  BY RangeAssumption DEF IInv, TypeOK, Block
<1>4. QED
  BY <1>2, <1>3

\* What the consumer holds lies within the range.
LEMMA ConsumerFacts ==
  ASSUME IInv
  PROVE  /\ Taken \in 0..TotalParts /\ limit \in Nat
         /\ cur.lo \in Nat /\ cur.hi \in Int /\ cur.hi <= End
         /\ cur.lo = End + 1 - limit /\ cur.lo <= cur.hi + 1
<1>1. Taken \in 0..TotalParts
  BY WindowFacts DEF IInv, TypeOK, OrderInv, Taken
<1>2. Boundary(Taken) \in Nat /\ Boundary(Taken) <= End + 1
  BY <1>1, SliceFacts
<1>3. cur.lo \in Nat /\ cur.hi \in Int /\ limit \in Int /\ End \in Nat
  BY RangeAssumption DEF IInv, TypeOK, Block
<1>4. QED
  BY <1>1, <1>2, <1>3 DEF IInv, OrderInv

\* The chunk the consumer takes next starts where the previous one ended.
LEMMA NextChunk ==
  ASSUME IInv, rpc = "recv", Taken < TotalParts
  PROVE  /\ Slice(Taken) \in Block /\ Slice(Taken).lo = End + 1 - limit
         /\ Slice(Taken).lo <= Slice(Taken).hi /\ Slice(Taken).hi <= End
         /\ Slice(Taken).hi = Boundary(Taken + 1) - 1
<1>1. Taken \in Parts /\ Taken \in 0..TotalParts /\ Taken + 1 \in 0..TotalParts
  BY ConsumerFacts, WindowFacts DEF Parts
<1>2. /\ Slice(Taken) = [lo |-> Boundary(Taken), hi |-> Boundary(Taken + 1) - 1]
      /\ Boundary(Taken) < Boundary(Taken + 1)
      /\ Boundary(Taken) \in Nat /\ Boundary(Taken + 1) \in Nat
      /\ Boundary(Taken + 1) <= End + 1 /\ Slice(Taken) \in Block
  BY <1>1, SliceFacts
<1>3. cur.lo > cur.hi /\ cur.hi = Boundary(Taken) - 1
  BY DEF IInv, OrderInv
<1>4. Boundary(Taken) = End + 1 - limit
  BY <1>2, <1>3, ConsumerFacts, RangeAssumption
<1>5. QED
  BY <1>2, <1>4, RangeAssumption

\* Every step of Read keeps the invariant.
LEMMA ReadStep ==
  ASSUME IInv, Read
  PROVE  IInv'
<1> USE DEF readerVars
<1>1. CASE ReadAtEOF
  BY <1>1, ConsumerFacts, ConsumerFrame, RangeAssumption DEF ReadAtEOF, ReturnError
<1>2. CASE ReadBlock
  <2>1. ret \in [lo : Int, n : Nat, err : {"nil", "EOF"} \cup Failures]
    BY DEF IInv, TypeOK, NeverAbandoned
  <2>2. QED
    BY <1>2, <2>1, ConsumerFrame DEF ReadBlock
<1>3. CASE ReadClosed \/ ReadCanceled
  <2>1. ~Live
    BY <1>3, ClosedMeansDone DEF ReadClosed, ReadCanceled
  <2>2. cause.kind \in Failures
    BY <2>1 DEF IInv, TypeOK, Live
  <2>3. ReturnError(cause.kind) /\ UNCHANGED <<fillerVars, fetchVars, queue, cause>>
    BY <1>3, <2>1 DEF ReadClosed, ReadCanceled
  <2>4. End + 1 - limit \in Int
    BY ConsumerFacts, RangeAssumption
  <2>5. QED
    BY <2>2, <2>3, <2>4, ConsumerFrame DEF ReturnError
<1>4. ASSUME NEW k \in ReadSizes, ReadBuffered(k)
      PROVE  IInv'
  <2>1. CopyOut(cur, k) /\ cur.lo <= cur.hi /\ UNCHANGED <<fillerVars, fetchVars, queue, cause>>
    BY <1>4 DEF ReadBuffered
  <2>2. cur \in Block /\ cur.lo = End + 1 - limit /\ cur.hi <= End
    BY ConsumerFacts DEF IInv, TypeOK
  <2>3. /\ cur' \in Block /\ limit' \in Int /\ rpc' = "idle"
        /\ ret' \in [lo : Int, n : Nat, err : {"nil", "EOF", "abandoned"} \cup Failures]
        /\ ret'.err # "abandoned"
        /\ cur'.lo = End + 1 - limit' /\ cur'.hi = cur.hi /\ cur'.lo <= cur.hi + 1
    BY <2>1, <2>2, CopyOutFacts
  <2>4. TypeOK' /\ OrderInv' /\ WindowInv' /\ CallInv' /\ CauseInv'
    BY <2>1, <2>3 DEF IInv, TypeOK, OrderInv, Taken, WindowInv, CallInv, CauseInv,
                      Live, fillerVars, fetchVars
  <2>5. QED
    BY <2>3, <2>4 DEF IInv, NeverAbandoned
<1>5. ASSUME NEW k \in ReadSizes, ReadReceive(k)
      PROVE  IInv'
  <2>1. /\ rpc = "recv" /\ queue # <<>> /\ queue' = Tail(queue)
        /\ CopyOut(Head(queue), k) /\ UNCHANGED <<fillerVars, fetchVars, cause>>
    BY <1>5 DEF ReadReceive
  <2>2. queue \in Seq(Block) /\ part \in Nat /\ part <= TotalParts /\ TotalParts \in Nat
    BY WindowFacts DEF IInv, TypeOK
  <2>3. Len(queue) \in Nat \ {0} /\ Head(queue) = queue[1]
    BY <2>1, <2>2
  <2>4. /\ queue' \in Seq(Block) /\ Len(queue') = Len(queue) - 1
        /\ \A j \in 1..Len(queue') : queue'[j] = queue[j + 1]
    BY <2>1, <2>2, <2>3
  <2>5. Taken < TotalParts /\ Taken' = Taken + 1 /\ Taken \in Int
    BY <2>1, <2>2, <2>3, <2>4 DEF Taken, fillerVars
  <2>6. Head(queue) = Slice(Taken)
    <3>1. queue[1] = Slice(Taken + 1 - 1)
      BY <2>3 DEF IInv, OrderInv
    <3>2. Taken + 1 - 1 = Taken
      BY <2>5
    <3>3. QED
      BY <2>3, <3>1, <3>2
  <2>7. /\ Slice(Taken) \in Block /\ Slice(Taken).lo = End + 1 - limit
        /\ Slice(Taken).lo <= Slice(Taken).hi /\ Slice(Taken).hi <= End
        /\ Slice(Taken).hi = Boundary(Taken + 1) - 1
    BY <2>1, <2>5, NextChunk
  <2> DEFINE b == Slice(Taken)
  <2>8. CopyOut(b, k) /\ b \in Block /\ b.lo = End + 1 - limit /\ b.lo <= b.hi
        /\ b.hi <= End
    BY <2>1, <2>6, <2>7
  <2>9. /\ cur' \in Block /\ limit' \in Int /\ rpc' = "idle"
        /\ ret' \in [lo : Int, n : Nat, err : {"nil", "EOF", "abandoned"} \cup Failures]
        /\ ret'.err # "abandoned"
        /\ cur'.lo = End + 1 - limit' /\ cur'.hi = b.hi /\ cur'.lo <= b.hi + 1
    <3> HIDE DEF b
    <3>1. QED
      BY <2>8, CopyOutFacts
  <2>10. TypeOK'
    BY <2>1, <2>4, <2>9 DEF IInv, TypeOK, fillerVars, fetchVars
  <2>11. OrderInv'
    <3>1. \A j \in 1..Len(queue') : queue'[j] = Slice(Taken' + j - 1)
      <4>1. TAKE j \in 1..Len(queue')
      <4>2. j + 1 \in 1..Len(queue) /\ queue'[j] = queue[j + 1]
        BY <2>3, <2>4
      <4>3. queue[j + 1] = Slice(Taken + (j + 1) - 1)
        BY <4>2 DEF IInv, OrderInv
      <4>4. Taken + (j + 1) - 1 = Taken' + j - 1
        BY <2>5
      <4>5. QED
        BY <4>2, <4>3, <4>4
    <3>2. Len(queue') <= part' /\ Len(queue') <= Buffers
      BY <2>1, <2>2, <2>3, <2>4, RangeAssumption DEF IInv, OrderInv, fillerVars
    <3>3. cur'.hi = Boundary(Taken') - 1 /\ cur'.lo <= cur'.hi + 1
      BY <2>5, <2>7, <2>9
    <3>4. QED
      BY <2>9, <3>1, <3>2, <3>3 DEF OrderInv
  <2>12. WindowInv' /\ CallInv' /\ CauseInv' /\ NeverAbandoned'
    BY <2>1, <2>9 DEF IInv, WindowInv, CallInv, CauseInv, Live, NeverAbandoned,
                      fillerVars, fetchVars
  <2>13. QED
    BY <2>10, <2>11, <2>12 DEF IInv
<1>6. ASSUME NEW k \in ReadSizes, Handoff(k)
      PROVE  IInv'
  <2>1. /\ queue = <<>> /\ fpc = "push" /\ rpc = "recv" /\ Advance
        /\ CopyOut(Slice(slots[part % Window]), k) /\ UNCHANGED <<queue, cause>>
    BY <1>6 DEF Handoff
  <2>2. /\ part \in Parts /\ slots[part % Window] = part /\ part' = part + 1
        /\ part' \in 0..TotalParts /\ fpc' \in {"wait", "exit"}
        /\ slots' \in [0..(Window - 1) -> Parts]
        /\ fetch' \in [Parts -> {"idle", "running", "taken"} \cup Results]
        /\ calling' \subseteq Parts
        /\ WindowInv' /\ CallInv' /\ CauseInv'
    BY <2>1, AdvanceStep
  <2>3. queue \in Seq(Block) /\ Len(queue) = 0 /\ part \in Nat /\ part < TotalParts
    BY <2>1, <2>2, WindowFacts DEF IInv, TypeOK, OrderInv, Parts
  <2>4. Taken = part /\ Taken' = Taken + 1 /\ Taken < TotalParts
    BY <2>1, <2>2, <2>3 DEF Taken
  <2>5. /\ Slice(Taken) \in Block /\ Slice(Taken).lo = End + 1 - limit
        /\ Slice(Taken).lo <= Slice(Taken).hi /\ Slice(Taken).hi <= End
        /\ Slice(Taken).hi = Boundary(Taken + 1) - 1
    BY <2>1, <2>4, NextChunk
  <2> DEFINE b == Slice(Taken)
  <2>6. CopyOut(b, k) /\ b \in Block /\ b.lo = End + 1 - limit /\ b.lo <= b.hi
        /\ b.hi <= End
    BY <2>1, <2>2, <2>4, <2>5
  <2>7. /\ cur' \in Block /\ limit' \in Int /\ rpc' = "idle"
        /\ ret' \in [lo : Int, n : Nat, err : {"nil", "EOF", "abandoned"} \cup Failures]
        /\ ret'.err # "abandoned"
        /\ cur'.lo = End + 1 - limit' /\ cur'.hi = b.hi /\ cur'.lo <= b.hi + 1
    <3> HIDE DEF b
    <3>1. QED
      BY <2>6, CopyOutFacts
  <2>8. TypeOK'
    BY <2>1, <2>2, <2>3, <2>7 DEF IInv, TypeOK
  <2>9. OrderInv'
    <3>1. cur'.hi = Boundary(Taken') - 1 /\ cur'.lo <= cur'.hi + 1
      BY <2>4, <2>5, <2>7
    <3>2. Len(queue') <= part' /\ Len(queue') <= Buffers
      BY <2>1, <2>2, <2>3 DEF IInv, OrderInv
    <3>3. \A i \in 1..Len(queue') : queue'[i] = Slice(Taken' + i - 1)
      BY <2>1, <2>3
    <3>4. QED
      BY <2>7, <3>1, <3>2, <3>3 DEF OrderInv
  <2>10. QED
    BY <2>2, <2>7, <2>8, <2>9 DEF IInv, NeverAbandoned
<1>7. QED
  BY <1>1, <1>2, <1>3, <1>4, <1>5, <1>6 DEF Read

\* Close and the end of the request keep the invariant.
LEMMA CancelStep ==
  ASSUME IInv, Close \/ ParentCancel
  PROVE  IInv'
<1>1. /\ UNCHANGED <<fillerVars, fetchVars, queue, readerVars>>
      /\ \E kind \in {"closed", "parent"} : Cancel(kind, -1)
  BY DEF Close, ParentCancel
<1> USE DEF IInv, fillerVars, fetchVars, readerVars
<1>2. TypeOK'
  BY <1>1 DEF TypeOK, Cancel, Failures
<1>3. OrderInv' /\ WindowInv' /\ CallInv' /\ NeverAbandoned'
  BY <1>1 DEF OrderInv, Taken, WindowInv, CallInv, NeverAbandoned
<1>4. CauseInv'
  BY <1>1 DEF CauseInv, Live, Cancel
<1>5. QED
  BY <1>2, <1>3, <1>4

\* Every step of the reader keeps the invariant.
THEOREM StepInv == IInv /\ [Next]_vars => IInv'
<1> SUFFICES ASSUME IInv, [Next]_vars PROVE IInv'
  OBVIOUS
<1>1. CASE Filler
  BY <1>1, FillStartStep, TakeResultStep, PushStep, FillerStops DEF Filler
<1>2. ASSUME NEW p \in Parts, SourceReturn(p) \/ FetchEnds(p)
      PROVE  IInv'
  BY <1>2, FetchGoroutines
<1>3. CASE Read
  BY <1>3, ReadStep
<1>4. CASE Close \/ ParentCancel
  BY <1>4, CancelStep
<1>5. CASE UNCHANGED vars
  BY <1>5 DEF vars, IInv, TypeOK, OrderInv, Taken, WindowInv, CallInv, CauseInv,
              NeverAbandoned, Live
<1>6. QED
  BY <1>1, <1>2, <1>3, <1>4, <1>5 DEF Next

\* Every state the reader reaches satisfies the inductive invariant.
THEOREM Invariance == Spec => []IInv
BY InitInv, StepInv, PTL DEF Spec

------------------------------------------------------------------------------
\* The variables of fillBuffer, of the fetches and of Read keep their types:
\* in particular no slot and no fetch is ever outside the chunks of the range.
THEOREM TypeCorrect == Spec => []TypeOK
<1>1. IInv => TypeOK
  BY DEF IInv
<1>2. QED
  BY <1>1, Invariance, PTL

\* Read never answers ErrStreamAbandoned.
THEOREM NoStreamAbandoned == Spec => []NeverAbandoned
<1>1. IInv => NeverAbandoned
  BY DEF IInv
<1>2. QED
  BY <1>1, Invariance, PTL

\* The chunks launched are an initial segment of the range.
LEMMA LaunchedFacts ==
  ASSUME IInv
  PROVE  IsFiniteSet(Launched) /\ Cardinality(Launched) <= part + Window
<1>1. part \in Nat /\ Window \in Nat \ {0} /\ Parts = 0..(TotalParts - 1)
  BY WindowFacts DEF IInv, TypeOK, Parts
<1>2. Launched \subseteq 0..(part + Window - 1)
  BY <1>1 DEF Launched, IInv, WindowInv
<1>3. IsFiniteSet(0..(part + Window - 1))
      /\ Cardinality(0..(part + Window - 1)) = part + Window
  <2> DEFINE last == part + Window - 1
  <2>1. last \in Int /\ 0 <= last /\ last - 0 + 1 = part + Window
    BY <1>1
  <2> HIDE DEF last
  <2>2. IsFiniteSet(0..last) /\ Cardinality(0..last) = last - 0 + 1
    BY <2>1, FS_Interval
  <2>3. QED
    BY <2>1, <2>2 DEF last
<1>4. QED
  BY <1>2, <1>3, FS_Subset

\* A consumer that stalls leaves at most a window and a full bufferChan of
\* chunks in memory (comment of fillBuffer, tg_multi_reader.go:226-228).
THEOREM PrefetchBounded == Spec => []BoundedPrefetch
<1>1. IInv => BoundedPrefetch
  <2> SUFFICES ASSUME IInv PROVE BoundedPrefetch
    OBVIOUS
  <2>1. Cardinality(Launched) \in Nat /\ Cardinality(Launched) <= part + Window
    BY LaunchedFacts, FS_CardinalityType
  <2>2. /\ part \in Nat /\ Len(queue) \in Nat /\ Len(queue) <= Buffers
        /\ Window \in Nat /\ Buffers \in Nat
    BY WindowFacts, RangeAssumption DEF IInv, TypeOK, OrderInv
  <2>3. QED
    BY <2>1, <2>2 DEF BoundedPrefetch, Taken
<1>2. QED
  BY <1>1, Invariance, PTL

\* Never more than `concurrency` source calls, abandoned ones included.
THEOREM RequestsBounded == Spec => []RequestWindow
<1>1. IInv => RequestWindow
  <2> SUFFICES ASSUME IInv PROVE RequestWindow
    OBVIOUS
  <2>1. part \in Nat /\ Window \in Nat \ {0} /\ Window <= Threads /\ Threads \in Nat
    BY WindowFacts, RangeAssumption DEF IInv, TypeOK
  <2>2. calling \subseteq part..(part + Window - 1)
    BY <2>1, WindowFacts DEF IInv, CallInv, TypeOK, Parts
  <2>3. IsFiniteSet(part..(part + Window - 1))
        /\ Cardinality(part..(part + Window - 1)) = Window
    <3> DEFINE last == part + Window - 1
    <3>1. last \in Int /\ part \in Int /\ part <= last /\ last - part + 1 = Window
      BY <2>1
    <3> HIDE DEF last
    <3>2. IsFiniteSet(part..last) /\ Cardinality(part..last) = last - part + 1
      BY <3>1, FS_Interval
    <3>3. QED
      BY <3>1, <3>2 DEF last
  <2>4. Cardinality(calling) <= Window /\ Cardinality(calling) \in Nat
    BY <2>2, <2>3, FS_Subset, FS_CardinalityType
  <2>5. QED
    BY <2>1, <2>4 DEF RequestWindow
<1>2. QED
  BY <1>1, Invariance, PTL

\* The recorded failure belongs to the earliest chunk that failed.
THEOREM FailuresInOrder == Spec => []FailureInOrder
<1>1. IInv => FailureInOrder
  BY WindowFacts DEF IInv, TypeOK, CauseInv, WindowInv, CallInv, FailureInOrder, Parts
<1>2. QED
  BY <1>1, Invariance, PTL

------------------------------------------------------------------------------
(***************************************************************************)
(* Refinement: a step of the reader is a Read of the ordered stream, or    *)
(* leaves what the consumer sees as it was.                                *)
(***************************************************************************)
LEMMA StreamCopy ==
  ASSUME IInv, NEW b \in Block, NEW k \in ReadSizes, CopyOut(b, k),
         b.lo = End + 1 - limit, b.lo <= b.hi, b.hi <= End
  PROVE  Stream!Next
<1>1. PICK n \in 1..limit :
        /\ limit' = limit - n
        /\ ret' = [lo |-> b.lo, n |-> n, err |-> IF limit' = 0 THEN "EOF" ELSE "nil"]
  BY CopyOutFacts
<1>2. End \in Nat /\ limit \in Nat /\ limit' \in Int
  BY <1>1, ConsumerFacts, RangeAssumption
<1>3. n \in 1..(End + 1 - (End + 1 - limit)) /\ End + 1 - limit' = (End + 1 - limit) + n
  BY <1>1, <1>2
<1>4. limit' \in Nat /\ (End + 1 - limit)' = End + 1 - limit + n
  BY <1>1, <1>2, RangeAssumption
<1>5. Stream!Deliver
  <2>1. CASE limit' = 0
    <3>1. (End + 1 - limit)' = End + 1
      BY <1>2, <2>1
    <3>2. QED
      BY <1>1, <1>3, <1>4, <2>1, <3>1 DEF Stream!Deliver
  <2>2. CASE limit' # 0
    <3>1. (End + 1 - limit)' # End + 1
      <4>1. End \in Nat /\ limit' \in Nat /\ limit' # 0
        BY <1>2, <1>4, <2>2
      <4> DEFINE m == limit'
      <4>2. m \in Nat /\ m # 0
        BY <4>1
      <4> HIDE DEF m
      <4>3. End + 1 - m < End + 1 /\ End + 1 - m \in Int
        BY <4>1, <4>2
      <4>4. End + 1 - m # End + 1
        BY <4>1, <4>3
      <4>5. QED
        BY <4>4 DEF m
    <3>2. QED
      BY <1>1, <1>3, <1>4, <2>2, <3>1 DEF Stream!Deliver
  <2>3. QED
    BY <2>1, <2>2
<1>6. QED
  BY <1>5 DEF Stream!Next

\* Every step of the reader is a step of the ordered stream or leaves it unchanged.
LEMMA StreamStep == IInv /\ [Next]_vars => [Stream!Next]_(Stream!vars)
<1> SUFFICES ASSUME IInv, [Next]_vars PROVE [Stream!Next]_(Stream!vars)
  OBVIOUS
<1>0. limit \in Nat /\ End \in Nat
  BY ConsumerFacts, RangeAssumption
<1>1. CASE UNCHANGED <<limit, ret>>
  BY <1>1 DEF Stream!vars
<1>2. CASE ReadAtEOF
  <2>1. limit = 0 /\ End + 1 - limit = End + 1
    BY <1>0, <1>2 DEF ReadAtEOF
  <2>2. Stream!AtEnd
    BY <1>2, <2>1 DEF ReadAtEOF, ReturnError, Stream!AtEnd
  <2>3. QED
    BY <2>2 DEF Stream!Next
<1>3. CASE ReadClosed \/ ReadCanceled
  <2>1. cause.kind \in Failures
    BY <1>3, ClosedMeansDone DEF ReadClosed, ReadCanceled, IInv, TypeOK, Live
  <2>2. ReturnError(cause.kind)
    BY <1>3, ClosedMeansDone DEF ReadClosed, ReadCanceled
  <2>3. End + 1 - limit <= End
    BY <1>0, <1>3 DEF ReadClosed, ReadCanceled, IInv, OrderInv
  <2>4. Stream!Fail
    BY <2>1, <2>2, <2>3 DEF ReturnError, Stream!Fail
  <2>5. QED
    BY <2>4 DEF Stream!Next
<1>4. ASSUME NEW k \in ReadSizes, ReadBuffered(k)
      PROVE  Stream!Next
  BY <1>4, ConsumerFacts, StreamCopy DEF ReadBuffered, IInv, TypeOK
<1>5. ASSUME NEW k \in ReadSizes, ReadReceive(k)
      PROVE  Stream!Next
  <2>1. rpc = "recv" /\ queue # <<>> /\ CopyOut(Head(queue), k)
    BY <1>5 DEF ReadReceive
  <2>2. queue \in Seq(Block) /\ part \in Nat /\ part <= TotalParts /\ TotalParts \in Nat
    BY WindowFacts DEF IInv, TypeOK
  <2>3. Len(queue) \in Nat \ {0} /\ Head(queue) = queue[1]
    BY <2>1, <2>2
  <2>4. Taken \in Int /\ Taken < TotalParts
    BY <2>2, <2>3 DEF Taken
  <2>5. Head(queue) = Slice(Taken)
    <3>1. queue[1] = Slice(Taken + 1 - 1)
      BY <2>3 DEF IInv, OrderInv
    <3>2. Taken + 1 - 1 = Taken
      BY <2>4
    <3>3. QED
      BY <2>3, <3>1, <3>2
  <2>6. QED
    BY <2>1, <2>4, <2>5, NextChunk, StreamCopy
<1>6. ASSUME NEW k \in ReadSizes, Handoff(k)
      PROVE  Stream!Next
  <2>1. queue = <<>> /\ fpc = "push" /\ rpc = "recv" /\ Advance /\ UNCHANGED cause
        /\ CopyOut(Slice(slots[part % Window]), k)
    BY <1>6 DEF Handoff
  <2>2. part \in Parts /\ slots[part % Window] = part
    BY <2>1, AdvanceStep
  <2>3. Taken = part /\ Taken < TotalParts
    <3>1. Len(queue) = 0
      BY <2>1
    <3>2. part \in Nat /\ part < TotalParts
      BY <2>2, WindowFacts DEF Parts
    <3>3. QED
      BY <3>1, <3>2 DEF Taken
  <2>4. QED
    BY <2>1, <2>2, <2>3, NextChunk, StreamCopy
<1>7. CASE Filler \/ (\E p \in Parts : SourceReturn(p) \/ FetchEnds(p)) \/ Close \/ ParentCancel
  <2>1. UNCHANGED <<limit, ret>>
    BY <1>7 DEF Filler, FillStart, TakeResult, Push, FillCanceled, CloseChannel,
                SourceReturn, FetchEnds, FetchTimeout, FetchCanceled, Close,
                ParentCancel, readerVars
  <2>2. QED
    BY <1>1, <2>1
<1>8. CASE ReadBlock
  BY <1>1, <1>8 DEF ReadBlock
<1>9. CASE UNCHANGED vars
  BY <1>1, <1>9 DEF vars
<1>10. QED
  BY <1>2, <1>3, <1>4, <1>5, <1>6, <1>7, <1>8, <1>9 DEF Next, Read

\* The parallel reader implements the ordered stream: the bytes Read returns
\* are those of the range, in order, once each, and io.EOF closes them.
THEOREM ReaderDeliversInOrder == Spec => OrderedDelivery
<1>1. Init => Stream!Init
  BY RangeAssumption DEF Init, Stream!Init
<1>2. QED
  BY <1>1, StreamStep, Invariance, PTL DEF Spec, OrderedDelivery, Stream!Spec

==============================================================================
