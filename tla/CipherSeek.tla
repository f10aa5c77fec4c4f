----------------------------- MODULE CipherSeek -----------------------------
(***************************************************************************)
(* One part sealed block by block and decrypted from any offset            *)
(* (internal/crypt/cipher.go).  A byte is its position in the plain text,  *)
(* what a failed secretbox.Open leaves is Zero; a stored block is the      *)
(* range it holds and its nonce.  Sizes, digits and their radix are        *)
(* scaled down.  The source delivers what it was asked for: its read       *)
(* errors, and the short or empty blocks they leave, are not modelled.     *)
(***************************************************************************)
EXTENDS Integers, Sequences

CONSTANTS
  Sizes,        \* sizes of the plain text
  HeaderSize,   \* fileHeaderSize
  Overhead,     \* blockHeaderSize
  BlockData,    \* blockDataSize
  Radix,        \* values of a digit of the nonce, 256 in the code
  Low, Digits   \* digits that add() handles, and all: 8 and 24 in the code

VARIABLES
  size,     \* of the plain text
  nonce,    \* of the next block the encrypter seals
  blocks,   \* what is stored after the header
  dec       \* the decrypter: request (off, len), blocks the source still has (src),
            \* nonce, the block in its buffer (buf, idx), limit, bytes it gave its
            \* reader (out), err.  fetched: the blocks it asked the source for.

vars == <<size, nonce, blocks, dec>>

\* How many numbers have Low digits.
LowNumbers ==
  LET power[d \in 0..Low] == IF d = 0 THEN 1 ELSE Radix * power[d - 1]
  IN  power[Low]

\* The number of a block has at most Low digits: 64 bits in the code.
CipherGiven ==
  /\ HeaderSize \in Nat /\ Overhead \in Nat /\ BlockData \in Nat \ {0}
  /\ Radix \in Nat \ {0} /\ Low \in Nat /\ Digits \in Nat /\ Low <= Digits
  /\ Sizes \subseteq Nat /\ \A z \in Sizes : z <= BlockData * LowNumbers

Zero == -1
BlockSize == Overhead + BlockData
Lower(a, b) == IF a <= b THEN a ELSE b
Nonces == [0..(Digits - 1) -> 0..(Radix - 1)]

\* carry(i): digit d moves on when all those before it, from i, wrap around.
Carry(n, i) ==
  [d \in DOMAIN n |->
     IF d >= i /\ \A e \in i..(d - 1) : n[e] = Radix - 1 THEN (n[d] + 1) % Radix ELSE n[d]]

Increment(n) == Carry(n, 0)

\* What digit d and those above it still have to take of x, the carry included.
Left(n, x) ==
  LET left[d \in 0..Low] == IF d = 0 THEN x ELSE (n[d - 1] + left[d - 1]) \div Radix
  IN  left

\* Mutant: what add() carries out of the digits it handles is lost.
AddLossy(n, x) ==
  [d \in DOMAIN n |-> IF d < Low THEN (n[d] + Left(n, x)[d]) % Radix ELSE n[d]]

\* add(x), x of at most Low digits.
Add(n, x) ==
  LET left == Left(n, x)
      low  == [d \in DOMAIN n |-> IF d < Low THEN (n[d] + left[d]) % Radix ELSE n[d]]
  IN  IF left[Low] # 0 THEN Carry(low, Low) ELSE low

EncryptedSize(n) ==
  HeaderSize + (n \div BlockData) * BlockSize
    + IF n % BlockData # 0 THEN Overhead + (n % BlockData) ELSE 0

\* Mutant: the header of a last, shorter block counts as data.
DecryptedSizeLoose(n) ==
  ((n - HeaderSize) \div BlockSize) * BlockData + ((n - HeaderSize) % BlockSize)

DecryptedSize(n) ==
  LET residue == (n - HeaderSize) % BlockSize
  IN  ((n - HeaderSize) \div BlockSize) * BlockData + IF residue # 0 THEN residue - Overhead ELSE 0

\* Mutant: one more block than the range needs.
BlocksToReadLong(off, len) ==
  LET more == len - (BlockData - (off % BlockData))
  IN  1 + IF more >= 0 THEN more \div BlockData + 1 ELSE 0

\* calculateUnderlying: the blocks of the range; its first is off \div BlockData.
BlocksToRead(off, len) ==
  LET more == len - (BlockData - (off % BlockData))
  IN  1 + IF more > 0 THEN more \div BlockData + IF more % BlockData # 0 THEN 1 ELSE 0 ELSE 0

-----------------------------------------------------------------------------
NoDecrypter == [off |-> 0, len |-> 0, src |-> <<>>, nonce |-> <<>>, buf |-> <<>>, idx |-> 0,
                limit |-> 0, out |-> <<>>, err |-> "closed", fetched |-> 0]

Init ==
  /\ size \in Sizes /\ nonce \in Nonces
  /\ blocks = <<>> /\ dec = NoDecrypter

Sealed == Len(blocks) * BlockData >= size

\* encrypter.Read: the next block is read whole, or up to the end, and sealed.
Seal ==
  /\ ~Sealed
  /\ LET lo == Len(blocks) * BlockData
     IN  blocks' = Append(blocks, [lo |-> lo, n |-> Lower(BlockData, size - lo), nonce |-> nonce])
  /\ nonce' = Increment(nonce)
  /\ UNCHANGED <<size, dec>>

\* The nonce of the header.
HeaderNonce == blocks[1].nonce

\* fillBuffer: the next whole block of the source; Open fails under another nonce.
FillBuffer(rec) ==
  IF rec.src = <<>> THEN [rec EXCEPT !.err = "EOF"]
  ELSE LET b == Head(rec.src)
       IN  [rec EXCEPT !.src = Tail(@), !.nonce = Increment(@), !.idx = 0,
                       !.buf = [i \in 1..b.n |-> IF b.nonce = rec.nonce THEN b.lo + i - 1 ELSE Zero]]

\* newDecrypterSeek.  From 0 the header and the blocks come in one request and the
\* first block waits for Read; otherwise RangeSeek asks again from the first block
\* of the range, fills the buffer and discards what precedes the offset.
Open(off, len) ==
  /\ Sealed /\ dec.err = "closed"
  /\ LET first  == off \div BlockData
         count  == BlocksToRead(off, len)
         source == SubSeq(blocks, first + 1, Lower(first + count, Len(blocks)))
         opened == [NoDecrypter EXCEPT !.off = off, !.len = len, !.src = source, !.limit = len,
                                       !.err = "nil", !.nonce = HeaderNonce, !.fetched = count]
         sought == FillBuffer([opened EXCEPT !.nonce = Add(@, first)])
     IN  dec' = IF off = 0 THEN opened
                ELSE IF sought.err # "nil" THEN sought
                ELSE IF off % BlockData > Len(sought.buf) THEN [sought EXCEPT !.err = "BadSeek"]
                ELSE [sought EXCEPT !.idx = off % BlockData]
  /\ UNCHANGED <<size, nonce, blocks>>

\* decrypter.Read(p), |p| = n
Read(n) ==
  /\ dec.err = "nil"
  /\ LET d    == IF dec.idx >= Len(dec.buf) THEN FillBuffer(dec) ELSE dec
         take == Lower(n, Lower(Len(d.buf) - d.idx, d.limit))
     IN  dec' = IF d.err # "nil" THEN d
                ELSE [d EXCEPT !.out = @ \o SubSeq(d.buf, d.idx + 1, d.idx + take),
                               !.idx = @ + take, !.limit = @ - take,
                               !.err = IF d.limit = take THEN "EOF" ELSE "nil"]
  /\ UNCHANGED <<size, nonce, blocks>>

Next ==
  \/ Seal
  \/ \E off \in 0..(size - 1) : \E len \in 1..(size - off) : Open(off, len)
  \/ \E n \in 1..(BlockData + 1) : Read(n)

Spec == Init /\ [][Next]_vars

-----------------------------------------------------------------------------
TypeOK ==
  /\ size \in Sizes /\ nonce \in Nonces
  /\ \A i \in DOMAIN blocks : blocks[i].n \in 1..BlockData /\ blocks[i].nonce \in Nonces
  /\ dec.err \in {"closed", "nil", "EOF", "BadSeek"}
  /\ dec.limit \in 0..size /\ dec.idx \in 0..Len(dec.buf)

\* A reader gets the plain text of its range in order, and all of it: neither a
\* block under a wrong nonce, however the seek crosses the digits of the nonce, nor
\* an early end.
RangeDecrypted ==
  /\ dec.out = [i \in 1..Len(dec.out) |-> dec.off + i - 1]
  /\ dec.err \notin {"closed", "nil"} => dec.err = "EOF" /\ Len(dec.out) = dec.len

\* Only the blocks that hold a byte of the range are asked for.
UnderlyingTight ==
  dec.err # "closed" =>
    dec.fetched = ((dec.off + dec.len - 1) \div BlockData) - (dec.off \div BlockData) + 1

\* What is stored has the size EncryptedSize announces, and DecryptedSize, which the
\* service relies on to find the range of a part, gives back that of the plain text.
SizesAgree ==
  Sealed =>
    LET stored[i \in 0..Len(blocks)] ==
          IF i = 0 THEN HeaderSize ELSE stored[i - 1] + Overhead + blocks[i].n
        all == stored[Len(blocks)]
    IN  EncryptedSize(size) = all /\ DecryptedSize(all) = size
=============================================================================
