---------------------------- MODULE KeccakProofs ----------------------------
(***************************************************************************)
(* The sponge absorbs the padded message and returns one stream, for every *)
(* block size and every way to cut input and output into pieces.           *)
(***************************************************************************)
EXTENDS Keccak, SequenceTheorems, TLAPS

Bytes == [of : {"in", "zero", "pad", "out"}, at : Nat, end : BOOLEAN]

\* Types of the context.
Types ==
  /\ absorbed \in Seq(Bytes) /\ out \in Seq(Bytes) /\ buf \in [1 .. BlockSize -> Bytes]
  /\ perms \in Nat /\ bufsz \in Nat /\ given \in Nat
  /\ xof_state \in {"init", "absorb", "squeeze", "final"}

\* A number of whole blocks.
Whole(len) == \E q \in Nat : len = q * BlockSize

\* Before output is taken: whole blocks were absorbed, less than a block waits,
\* and together they are the input, byte by byte.
Fed ==
  xof_state \in {"init", "absorb"} =>
    /\ bufsz < BlockSize /\ Whole(Len(absorbed)) /\ Len(absorbed) + bufsz = given
    /\ \A k \in 1 .. Len(absorbed) : absorbed[k] = Byte("in", k)
    /\ \A k \in 1 .. bufsz : buf[k] = Byte("in", Len(absorbed) + k)
    /\ perms = 0 /\ out = <<>>

\* The bytes left over at the end of the buffer are the next ones of the
\* stream, up to the end of the last block squeezed.
Leftover ==
  xof_state = "squeeze" =>
    /\ bufsz < BlockSize /\ Len(out) + bufsz = (perms + 1) * BlockSize
    /\ \A k \in 1 .. bufsz : buf[BlockSize - bufsz + k] = Byte("out", Len(out) + k - 1)

\* The stream, byte by byte.
Stream == \A k \in 1 .. Len(out) : out[k] = Byte("out", k - 1)

\* The inductive invariant.
KInv == Types /\ Fed /\ AbsorbsPaddedMessage /\ Leftover /\ Stream

-----------------------------------------------------------------------------
(* Arithmetic of blocks *)

\* Every length is a number of whole blocks and a rest.
LEMMA Division ==
  ASSUME NEW a \in Nat
  PROVE  \E q, r \in Nat : /\ a \div BlockSize = q /\ a % BlockSize = r /\ r < BlockSize
                           /\ a = BlockSize * q + r
<1>1. a \div BlockSize \in Int /\ a \div BlockSize >= 0
  BY KeccakAssumption
<1>2. a % BlockSize \in Int /\ a % BlockSize >= 0 /\ a % BlockSize < BlockSize
  BY KeccakAssumption
<1>3. PICK q \in Nat : q = a \div BlockSize
  BY <1>1
<1>4. PICK r \in Nat : r = a % BlockSize
  BY <1>2
<1>5. a = BlockSize * q + r
  BY <1>3, <1>4, KeccakAssumption, Z3
<1> QED
  BY <1>2, <1>3, <1>4, <1>5

\* Blocks before the rest are found again by dividing.
LEMMA DivisionUnique ==
  ASSUME NEW q \in Nat, NEW r \in Nat, r < BlockSize
  PROVE  (q * BlockSize + r) \div BlockSize = q
<1>1. PICK a \in Nat : a = q * BlockSize + r
  BY KeccakAssumption
<1>2. PICK d, e \in Nat : a \div BlockSize = d /\ e < BlockSize /\ a = BlockSize * d + e
  BY Division
<1>4. q * BlockSize + r = BlockSize * d + e /\ e < BlockSize
  BY <1>1, <1>2
<1>5. CASE q = d
  BY <1>1, <1>2, <1>5
<1>6. CASE q > d
  <2>1. PICK k \in Nat : q = d + 1 + k
    <3>1. q - d - 1 \in Nat /\ q = d + 1 + (q - d - 1)
      BY <1>6
    <3> QED
      BY <3>1
  <2>2. q * BlockSize = BlockSize * d + BlockSize + k * BlockSize
    BY <2>1, KeccakAssumption
  <2>3. k * BlockSize \in Nat /\ BlockSize * d \in Nat
    BY KeccakAssumption
  <2> QED
    BY <1>4, <2>2, <2>3, KeccakAssumption
<1>7. CASE q < d
  <2>1. PICK k \in Nat : d = q + 1 + k
    <3>1. d - q - 1 \in Nat /\ d = q + 1 + (d - q - 1)
      BY <1>7
    <3> QED
      BY <3>1
  <2>2. BlockSize * d = q * BlockSize + BlockSize + k * BlockSize
    BY <2>1, KeccakAssumption
  <2>3. k * BlockSize \in Nat /\ q * BlockSize \in Nat
    BY KeccakAssumption
  <2> QED
    BY <1>4, <2>2, <2>3, KeccakAssumption
<1> QED
  BY <1>5, <1>6, <1>7

\* Whole blocks add up.
LEMMA WholeSum ==
  ASSUME NEW a \in Nat, NEW b \in Nat, Whole(a), Whole(b)
  PROVE  Whole(a + b)
<1>1. PICK p \in Nat : a = p * BlockSize
  BY DEF Whole
<1>2. PICK q \in Nat : b = q * BlockSize
  BY DEF Whole
<1>3. a + b = (p + q) * BlockSize /\ p + q \in Nat
  BY <1>1, <1>2, KeccakAssumption
<1> QED
  BY <1>3 DEF Whole

\* None, one, and as many as fit.
LEMMA WholeBlocks ==
  /\ Whole(0) /\ Whole(BlockSize)
  /\ \A a \in Nat : /\ a - (a % BlockSize) \in Nat /\ Whole(a - (a % BlockSize))
                    /\ a % BlockSize \in Nat /\ a % BlockSize < BlockSize
<1>1. Whole(0)
  <2>1. 0 = 0 * BlockSize
    BY KeccakAssumption
  <2> QED
    BY <2>1 DEF Whole
<1>2. Whole(BlockSize)
  <2>1. BlockSize = 1 * BlockSize
    BY KeccakAssumption
  <2> QED
    BY <2>1 DEF Whole
<1>3. ASSUME NEW a \in Nat
      PROVE  /\ a - (a % BlockSize) \in Nat /\ Whole(a - (a % BlockSize))
             /\ a % BlockSize \in Nat /\ a % BlockSize < BlockSize
  <2>2. PICK q, r \in Nat : r = a % BlockSize /\ r < BlockSize /\ a = BlockSize * q + r
    BY Division
  <2>3. a = BlockSize * q + r /\ r < BlockSize
    BY <2>2
  <2>4. BlockSize * q \in Nat /\ BlockSize * q = q * BlockSize
    BY KeccakAssumption
  <2>5. a - r = q * BlockSize /\ a - r \in Nat
    BY <2>3, <2>4
  <2> QED
    BY <2>2, <2>3, <2>5 DEF Whole
<1> QED
  BY <1>1, <1>2, <1>3

\* The blocks the padded message takes.
LEMMA PaddedBlocks ==
  ASSUME NEW a \in Nat, Whole(a), NEW r \in Nat, r < BlockSize
  PROVE  ((a + r) \div BlockSize + 1) * BlockSize = a + BlockSize
<1>1. PICK q \in Nat : a = q * BlockSize
  BY DEF Whole
<1>2. (a + r) \div BlockSize = q
  BY <1>1, DivisionUnique
<1>3. (q + 1) * BlockSize = q * BlockSize + BlockSize
  BY KeccakAssumption
<1> QED
  BY <1>1, <1>2, <1>3

-----------------------------------------------------------------------------
(* Sequences of bytes *)

\* The bytes the model speaks of.
LEMMA ByteTypes ==
  /\ \A k \in Nat : Byte("in", k) \in Bytes /\ Byte("out", k) \in Bytes
  /\ Byte("pad", 0) \in Bytes /\ Zero \in Bytes
BY DEF Byte, Bytes, Zero

\* A buffer is a sequence.
LEMMA BufferSeq ==
  ASSUME NEW n \in Nat, NEW b \in [1 .. n -> Bytes]
  PROVE  b \in Seq(Bytes) /\ Len(b) = n
OBVIOUS

\* A part of a sequence.
LEMMA Part ==
  ASSUME NEW s \in Seq(Bytes), NEW lo \in Nat, NEW hi \in Nat, lo <= hi, hi <= Len(s)
  PROVE  /\ SubSeq(s, lo + 1, hi) \in Seq(Bytes) /\ Len(SubSeq(s, lo + 1, hi)) = hi - lo
         /\ \A k \in 1 .. hi - lo : SubSeq(s, lo + 1, hi)[k] = s[lo + k]
<1>1. \A k \in lo + 1 .. hi : s[k] \in Bytes
  OBVIOUS
<1>2. /\ SubSeq(s, lo + 1, hi) \in Seq(Bytes)
      /\ Len(SubSeq(s, lo + 1, hi)) = IF lo + 1 <= hi THEN hi - (lo + 1) + 1 ELSE 0
      /\ \A k \in 1 .. hi - (lo + 1) + 1 : SubSeq(s, lo + 1, hi)[k] = s[lo + 1 + k - 1]
  BY <1>1, SubSeqProperties
<1> QED
  BY <1>2

\* Two sequences one after the other.
LEMMA Cat ==
  ASSUME NEW s \in Seq(Bytes), NEW t \in Seq(Bytes)
  PROVE  /\ s \o t \in Seq(Bytes) /\ Len(s \o t) = Len(s) + Len(t)
         /\ \A k \in 1 .. Len(s) : (s \o t)[k] = s[k]
         /\ \A k \in 1 .. Len(t) : (s \o t)[Len(s) + k] = t[k]
<1>1. /\ s \o t \in Seq(Bytes) /\ Len(s \o t) = Len(s) + Len(t)
      /\ \A i \in 1 .. Len(s) + Len(t) :
           (s \o t)[i] = IF i <= Len(s) THEN s[i] ELSE t[i - Len(s)]
  BY ConcatProperties
<1>2. Len(s) \in Nat /\ Len(t) \in Nat
  OBVIOUS
<1> QED
  BY <1>1, <1>2

\* memcpy into the buffer.
LEMMA Memcpy ==
  ASSUME NEW b \in [1 .. BlockSize -> Bytes], NEW at \in Nat, NEW s \in Seq(Bytes),
         at + Len(s) <= BlockSize
  PROVE  /\ Copied(b, at, s) \in [1 .. BlockSize -> Bytes]
         /\ \A k \in 1 .. at : Copied(b, at, s)[k] = b[k]
         /\ \A k \in 1 .. Len(s) : Copied(b, at, s)[at + k] = s[k]
<1>1. Len(s) \in Nat /\ DOMAIN b = 1 .. BlockSize /\ BlockSize \in Nat
  BY KeccakAssumption
<1>2. ASSUME NEW k \in 1 .. BlockSize
      PROVE  /\ k \in at + 1 .. at + Len(s) => k - at \in 1 .. Len(s)
             /\ (IF k \in at + 1 .. at + Len(s) THEN s[k - at] ELSE b[k]) \in Bytes
  BY <1>1
<1>3. Copied(b, at, s) \in [1 .. BlockSize -> Bytes]
  BY <1>1, <1>2 DEF Copied
<1>4. ASSUME NEW k \in 1 .. at PROVE Copied(b, at, s)[k] = b[k]
  <2>1. k \in 1 .. BlockSize /\ k \notin at + 1 .. at + Len(s)
    BY <1>1
  <2> QED
    BY <1>1, <2>1 DEF Copied
<1>5. ASSUME NEW k \in 1 .. Len(s) PROVE Copied(b, at, s)[at + k] = s[k]
  <2>1. at + k \in 1 .. BlockSize /\ at + k \in at + 1 .. at + Len(s) /\ at + k - at = k
    BY <1>1
  <2> QED
    BY <1>1, <2>1 DEF Copied
<1> QED
  BY <1>3, <1>4, <1>5

\* The bytes given by one call.
LEMMA InputSeq ==
  ASSUME NEW n \in Nat, NEW len \in Nat
  PROVE  /\ Input(n, len) \in Seq(Bytes) /\ Len(Input(n, len)) = len
         /\ \A k \in 1 .. len : Input(n, len)[k] = Byte("in", n + k)
<1>1. \A k \in 1 .. len : Byte("in", n + k) \in Bytes
  BY ByteTypes
<1>2. Input(n, len) \in [1 .. len -> Bytes]
  BY <1>1 DEF Input
<1> QED
  BY <1>2, BufferSeq DEF Input

-----------------------------------------------------------------------------
(* Absorbing *)

\* The first part of the input completes the block that was waiting.
LEMMA FullBlock ==
  ASSUME Types, Fed, xof_state \in {"init", "absorb"}, bufsz # 0,
         NEW inp \in Seq(Bytes), \A k \in 1 .. Len(inp) : inp[k] = Byte("in", given + k),
         BlockSize - bufsz <= Len(inp)
  PROVE  LET full == Copied(buf, bufsz, SubSeq(inp, 1, BlockSize - bufsz))
         IN  /\ full \in [1 .. BlockSize -> Bytes]
             /\ \A k \in 1 .. BlockSize : full[k] = Byte("in", Len(absorbed) + k)
<1>1. /\ BlockSize \in Nat /\ bufsz \in Nat /\ bufsz < BlockSize /\ Len(absorbed) \in Nat
      /\ Len(absorbed) + bufsz = given /\ Len(inp) \in Nat
      /\ \A k \in 1 .. bufsz : buf[k] = Byte("in", Len(absorbed) + k)
      /\ buf \in [1 .. BlockSize -> Bytes]
  BY KeccakAssumption DEF Types, Fed
<1>2. PICK r \in Nat : r = BlockSize - bufsz
  BY <1>1
<1>3. PICK s : s = SubSeq(inp, 1, r)
  OBVIOUS
<1>4. s \in Seq(Bytes) /\ Len(s) = r /\ \A k \in 1 .. r : s[k] = inp[k]
  <2>1. 0 \in Nat /\ 0 <= r /\ r <= Len(inp) /\ 0 + 1 = 1
    BY <1>2
  <2>2. /\ SubSeq(inp, 0 + 1, r) \in Seq(Bytes) /\ Len(SubSeq(inp, 0 + 1, r)) = r - 0
        /\ \A k \in 1 .. r - 0 : SubSeq(inp, 0 + 1, r)[k] = inp[0 + k]
    BY <2>1, Part
  <2> QED
    BY <1>3, <2>2
<1>5. PICK full : full = Copied(buf, bufsz, s)
  OBVIOUS
<1>6. /\ full \in [1 .. BlockSize -> Bytes]
      /\ \A k \in 1 .. bufsz : full[k] = buf[k]
      /\ \A k \in 1 .. Len(s) : full[bufsz + k] = s[k]
  <2>1. bufsz + Len(s) <= BlockSize
    BY <1>1, <1>2, <1>4
  <2>2. /\ Copied(buf, bufsz, s) \in [1 .. BlockSize -> Bytes]
        /\ \A k \in 1 .. bufsz : Copied(buf, bufsz, s)[k] = buf[k]
        /\ \A k \in 1 .. Len(s) : Copied(buf, bufsz, s)[bufsz + k] = s[k]
    BY <1>1, <1>4, <2>1, Memcpy
  <2> QED
    BY <1>5, <2>2
<1>7. ASSUME NEW k \in 1 .. BlockSize PROVE full[k] = Byte("in", Len(absorbed) + k)
  <2>1. CASE k <= bufsz
    BY <1>1, <1>6, <2>1
  <2>2. CASE k > bufsz
    <3>1. PICK e \in 1 .. r : k = bufsz + e
      <4>1. k - bufsz \in 1 .. r /\ k = bufsz + (k - bufsz)
        BY <1>1, <1>2, <2>2
      <4> QED
        BY <4>1
    <3>2. full[k] = inp[e]
      BY <1>4, <1>6, <3>1
    <3>3. e \in 1 .. Len(inp) /\ given + e = Len(absorbed) + k
      BY <1>1, <1>2, <3>1
    <3> QED
      BY <3>2, <3>3
  <2> QED
    BY <1>1, <2>1, <2>2
<1> QED
  BY <1>2, <1>3, <1>5, <1>6, <1>7

\* Blocks absorbed before, a block completed, and the rest of the input, which
\* follow each other.
Pieces(a, mid, rest) ==
  /\ a \in Seq(Bytes) /\ \A k \in 1 .. Len(a) : a[k] = Byte("in", k)
  /\ mid \in Seq(Bytes) /\ \A k \in 1 .. Len(mid) : mid[k] = Byte("in", Len(a) + k)
  /\ rest \in Seq(Bytes)
  /\ \A k \in 1 .. Len(rest) : rest[k] = Byte("in", Len(a) + Len(mid) + k)
  /\ Whole(Len(a)) /\ Whole(Len(mid))

\* They were absorbed in b, but for the left bytes, which wait in new.
Joined(a, mid, rest, whole, b, new) ==
  /\ whole \in Nat /\ whole <= Len(rest) /\ Len(rest) - whole < BlockSize
  /\ b \in Seq(Bytes) /\ Whole(Len(b)) /\ Len(b) = Len(a) + Len(mid) + whole
  /\ \A k \in 1 .. Len(b) : b[k] = Byte("in", k)
  /\ new \in [1 .. BlockSize -> Bytes]
  /\ \A k \in 1 .. Len(rest) - whole : new[k] = Byte("in", Len(b) + k)

\* The blocks absorbed and the bytes left, of an input that reaches the end of
\* a block.
LEMMA WholeAndRest ==
  ASSUME NEW a, NEW mid, NEW rest, Pieces(a, mid, rest),
         NEW full \in [1 .. BlockSize -> Bytes],
         NEW whole, whole = Len(rest) - (Len(rest) % BlockSize)
  PROVE  Joined(a, mid, rest, whole, a \o mid \o SubSeq(rest, 1, whole),
                Copied(full, 0, SubSeq(rest, whole + 1, Len(rest))))
<1>0. /\ a \in Seq(Bytes) /\ \A k \in 1 .. Len(a) : a[k] = Byte("in", k)
      /\ mid \in Seq(Bytes) /\ \A k \in 1 .. Len(mid) : mid[k] = Byte("in", Len(a) + k)
      /\ rest \in Seq(Bytes)
      /\ \A k \in 1 .. Len(rest) : rest[k] = Byte("in", Len(a) + Len(mid) + k)
      /\ Whole(Len(a)) /\ Whole(Len(mid))
  BY DEF Pieces
<1> USE <1>0
<1>1. Len(a) \in Nat /\ Len(mid) \in Nat /\ Len(rest) \in Nat /\ BlockSize \in Nat
  BY KeccakAssumption
<1>2. PICK n \in Nat : n = Len(rest)
  BY <1>1
<1>3. PICK m \in Nat : m = n % BlockSize /\ m < BlockSize /\ n - m \in Nat /\ Whole(n - m)
  BY WholeBlocks
<1>4. PICK w \in Nat : w = n - m
  BY <1>3
<1>5. w = whole /\ Whole(w) /\ w <= n /\ n - w < BlockSize /\ n - w \in Nat
  BY <1>1, <1>2, <1>3, <1>4
<1>6. PICK s : s = SubSeq(rest, 1, w)
  OBVIOUS
<1>7. s \in Seq(Bytes) /\ Len(s) = w /\ \A k \in 1 .. w : s[k] = rest[k]
  <2>1. 0 \in Nat /\ 0 <= w /\ w <= Len(rest)
    BY <1>2, <1>5
  <2>2. /\ SubSeq(rest, 0 + 1, w) \in Seq(Bytes) /\ Len(SubSeq(rest, 0 + 1, w)) = w - 0
        /\ \A k \in 1 .. w - 0 : SubSeq(rest, 0 + 1, w)[k] = rest[0 + k]
    BY <2>1, Part
  <2> QED
    BY <1>6, <2>2
<1>8. PICK t : t = SubSeq(rest, w + 1, n)
  OBVIOUS
<1>9. t \in Seq(Bytes) /\ Len(t) = n - w /\ \A k \in 1 .. n - w : t[k] = rest[w + k]
  <2>1. w <= n /\ n <= Len(rest)
    BY <1>2, <1>5
  <2>2. /\ SubSeq(rest, w + 1, n) \in Seq(Bytes) /\ Len(SubSeq(rest, w + 1, n)) = n - w
        /\ \A k \in 1 .. n - w : SubSeq(rest, w + 1, n)[k] = rest[w + k]
    BY <2>1, Part
  <2> QED
    BY <1>8, <2>2
<1>10. PICK c : c = a \o mid
  OBVIOUS
<1>11. /\ c \in Seq(Bytes) /\ Len(c) = Len(a) + Len(mid)
       /\ \A k \in 1 .. Len(a) : c[k] = a[k]
       /\ \A k \in 1 .. Len(mid) : c[Len(a) + k] = mid[k]
  <2>1. /\ a \o mid \in Seq(Bytes) /\ Len(a \o mid) = Len(a) + Len(mid)
        /\ \A k \in 1 .. Len(a) : (a \o mid)[k] = a[k]
        /\ \A k \in 1 .. Len(mid) : (a \o mid)[Len(a) + k] = mid[k]
    BY Cat
  <2> QED
    BY <1>10, <2>1
<1>12. \A k \in 1 .. Len(c) : c[k] = Byte("in", k)
  <2>1. ASSUME NEW k \in 1 .. Len(c) PROVE c[k] = Byte("in", k)
    <3>1. CASE k <= Len(a)
      BY <1>1, <1>11, <3>1
    <3>2. CASE k > Len(a)
      <4>1. PICK e \in 1 .. Len(mid) : k = Len(a) + e
        <5>1. k - Len(a) \in 1 .. Len(mid) /\ k = Len(a) + (k - Len(a))
          BY <1>1, <1>11, <3>2
        <5> QED
          BY <5>1
      <4> QED
        BY <1>11, <4>1
    <3> QED
      BY <1>1, <1>11, <3>1, <3>2
  <2> QED
    BY <2>1
<1>13. PICK b : b = c \o s
  OBVIOUS
<1>14. /\ b \in Seq(Bytes) /\ Len(b) = Len(c) + w
       /\ \A k \in 1 .. Len(c) : b[k] = c[k]
       /\ \A k \in 1 .. w : b[Len(c) + k] = s[k]
  <2>1. c \in Seq(Bytes) /\ s \in Seq(Bytes)
    BY <1>7, <1>11
  <2>2. /\ c \o s \in Seq(Bytes) /\ Len(c \o s) = Len(c) + Len(s)
        /\ \A k \in 1 .. Len(c) : (c \o s)[k] = c[k]
        /\ \A k \in 1 .. Len(s) : (c \o s)[Len(c) + k] = s[k]
    BY <2>1, Cat
  <2> QED
    BY <1>7, <1>13, <2>2
<1>15. Len(c) \in Nat /\ Len(b) = Len(a) + Len(mid) + w
  BY <1>1, <1>11, <1>14
<1>16. \A k \in 1 .. Len(b) : b[k] = Byte("in", k)
  <2>1. ASSUME NEW k \in 1 .. Len(b) PROVE b[k] = Byte("in", k)
    <3>1. CASE k <= Len(c)
      <4>1. k \in 1 .. Len(c)
        BY <1>15, <3>1
      <4>2. b[k] = c[k]
        BY <1>14, <4>1
      <4> QED
        BY <1>12, <4>1, <4>2
    <3>2. CASE k > Len(c)
      <4>1. PICK e \in 1 .. w : k = Len(c) + e
        <5>1. k - Len(c) \in 1 .. w /\ k = Len(c) + (k - Len(c))
          BY <1>14, <1>15, <3>2
        <5> QED
          BY <5>1
      <4>2. b[k] = rest[e] /\ e \in 1 .. Len(rest)
        <5>1. b[k] = s[e]
          BY <1>14, <4>1
        <5>2. s[e] = rest[e]
          BY <1>7
        <5>3. e \in 1 .. Len(rest)
          BY <1>2, <1>5
        <5> QED
          BY <5>1, <5>2, <5>3
      <4> QED
        BY <1>11, <4>1, <4>2
    <3> QED
      BY <1>14, <1>15, <3>1, <3>2
  <2> QED
    BY <2>1
<1>17. Whole(Len(b))
  <2>1. Whole(Len(a) + Len(mid)) /\ Len(a) + Len(mid) \in Nat
    BY <1>1, WholeSum
  <2> QED
    BY <1>5, <1>15, <2>1, WholeSum
<1>18. PICK new : new = Copied(full, 0, t)
  OBVIOUS
<1>19. /\ new \in [1 .. BlockSize -> Bytes] /\ \A k \in 1 .. Len(t) : new[0 + k] = t[k]
  <2>1. 0 \in Nat /\ 0 + Len(t) <= BlockSize /\ t \in Seq(Bytes)
    BY <1>1, <1>5, <1>9
  <2>2. /\ Copied(full, 0, t) \in [1 .. BlockSize -> Bytes]
        /\ \A k \in 1 .. Len(t) : Copied(full, 0, t)[0 + k] = t[k]
    BY <2>1, Memcpy
  <2> QED
    BY <1>18, <2>2
<1>20. ASSUME NEW k \in 1 .. n - w PROVE new[k] = Byte("in", Len(b) + k)
  <2>1. new[k] = rest[w + k]
    BY <1>9, <1>19
  <2>2. w + k \in 1 .. Len(rest)
    BY <1>2, <1>5
  <2>3. Len(a) + Len(mid) + (w + k) = Len(b) + k
    BY <1>1, <1>15
  <2> QED
    BY <2>1, <2>2, <2>3
<1> QED
  BY <1>2, <1>5, <1>6, <1>8, <1>10, <1>13, <1>14, <1>15, <1>16, <1>17, <1>18, <1>19, <1>20
  DEF Joined

\* Absorb keeps the input whole, whether it fits in the buffer or not.
LEMMA AbsorbStep ==
  ASSUME Types, Fed, xof_state \in {"init", "absorb"},
         NEW len \in Nat, NEW state \in {"init", "absorb"}, Absorb(Input(given, len), state),
         given' = given + len, UNCHANGED <<perms, out>>
  PROVE  Types' /\ Fed'
<1>1. PICK inp : inp = Input(given, len)
  OBVIOUS
<1>2. /\ BlockSize \in Nat /\ bufsz \in Nat /\ bufsz < BlockSize /\ Len(absorbed) \in Nat
      /\ given \in Nat /\ Len(absorbed) + bufsz = given /\ Whole(Len(absorbed))
      /\ absorbed \in Seq(Bytes) /\ buf \in [1 .. BlockSize -> Bytes]
      /\ perms = 0 /\ out = <<>> /\ out \in Seq(Bytes)
  BY KeccakAssumption DEF Types, Fed
<1>3. /\ \A k \in 1 .. Len(absorbed) : absorbed[k] = Byte("in", k)
      /\ \A k \in 1 .. bufsz : buf[k] = Byte("in", Len(absorbed) + k)
  BY DEF Fed
<1>4. /\ inp \in Seq(Bytes) /\ Len(inp) = len
      /\ \A k \in 1 .. len : inp[k] = Byte("in", given + k)
  BY <1>1, <1>2, InputSeq
<1>5. Absorb(inp, state)
  BY <1>1
<1>6. CASE bufsz # 0 /\ len < BlockSize - bufsz
  <2>1. /\ buf' = Copied(buf, bufsz, inp) /\ bufsz' = bufsz + len
        /\ absorbed' = absorbed /\ xof_state' = xof_state
    BY <1>4, <1>5, <1>6 DEF Absorb, Fits
  <2>2. bufsz + Len(inp) <= BlockSize
    BY <1>2, <1>4, <1>6
  <2>3. /\ Copied(buf, bufsz, inp) \in [1 .. BlockSize -> Bytes]
        /\ \A k \in 1 .. bufsz : Copied(buf, bufsz, inp)[k] = buf[k]
        /\ \A k \in 1 .. Len(inp) : Copied(buf, bufsz, inp)[bufsz + k] = inp[k]
    BY <1>2, <1>4, <2>2, Memcpy, ZenonT(60)
  <2>4. /\ buf' \in [1 .. BlockSize -> Bytes] /\ \A k \in 1 .. bufsz : buf'[k] = buf[k]
        /\ \A k \in 1 .. len : buf'[bufsz + k] = inp[k]
    BY <1>4, <2>1, <2>3
  <2>5. bufsz' \in Nat /\ bufsz' < BlockSize /\ Len(absorbed) + bufsz' = given' /\ given' \in Nat
    BY <1>2, <1>6, <2>1
  <2>6. ASSUME NEW k \in 1 .. bufsz' PROVE buf'[k] = Byte("in", Len(absorbed) + k)
    <3>1. CASE k <= bufsz
      <4>1. k \in 1 .. bufsz
        BY <1>2, <2>5, <3>1
      <4> QED
        BY <1>3, <2>4, <4>1
    <3>2. CASE k > bufsz
      <4>1. PICK e \in 1 .. len : k = bufsz + e
        <5>1. k - bufsz \in 1 .. len /\ k = bufsz + (k - bufsz)
          BY <1>2, <2>1, <3>2
        <5> QED
          BY <5>1
      <4>2. buf'[k] = Byte("in", given + e)
        BY <1>4, <2>4, <4>1
      <4>3. given + e = Len(absorbed) + k
        BY <1>2, <4>1, SMTT(30)
      <4> QED
        BY <4>2, <4>3
    <3> QED
      BY <1>2, <2>5, <3>1, <3>2
  <2>7. Types'
    BY <1>2, <2>1, <2>4, <2>5 DEF Types
  <2>8. Fed'
    BY <1>2, <1>3, <2>1, <2>5, <2>6 DEF Fed
  <2> QED
    BY <2>7, <2>8
<1>7. CASE ~(bufsz # 0 /\ len < BlockSize - bufsz)
  <2>1. PICK taken \in Nat : taken = IF bufsz = 0 THEN 0 ELSE BlockSize - bufsz
    <3>1. (IF bufsz = 0 THEN 0 ELSE BlockSize - bufsz) \in Nat
      BY <1>2
    <3> QED
      BY <3>1
  <2>2. taken <= len /\ bufsz + taken <= BlockSize
    BY <1>2, <1>7, <2>1
  <2>3. PICK piece : piece = SubSeq(inp, 1, taken)
    OBVIOUS
  <2>4. PICK rest : rest = SubSeq(inp, taken + 1, len)
    OBVIOUS
  <2>5. PICK full : full = Copied(buf, bufsz, piece)
    OBVIOUS
  <2>6. PICK mid : mid = IF bufsz = 0 THEN <<>> ELSE full
    OBVIOUS
  <2>7. PICK whole : whole = Len(rest) - (Len(rest) % BlockSize)
    OBVIOUS
  <2>8. /\ absorbed' = absorbed \o mid \o SubSeq(rest, 1, whole)
        /\ buf' = Copied(full, 0, SubSeq(rest, whole + 1, Len(rest)))
        /\ bufsz' = Len(rest) - whole /\ xof_state' = state
    BY <1>4, <1>5, <1>7, <2>1, <2>3, <2>4, <2>5, <2>6, <2>7 DEF Absorb, Fits
  <2>9. piece \in Seq(Bytes) /\ Len(piece) = taken
    <3>1. 0 \in Nat /\ 0 <= taken /\ taken <= Len(inp)
      BY <1>4, <2>2
    <3>2. SubSeq(inp, 0 + 1, taken) \in Seq(Bytes) /\ Len(SubSeq(inp, 0 + 1, taken)) = taken - 0
      BY <1>4, <3>1, Part
    <3> QED
      BY <2>3, <3>2
  <2>10. full \in [1 .. BlockSize -> Bytes]
    <3>1. bufsz + Len(piece) <= BlockSize
      BY <2>2, <2>9
    <3>2. Copied(buf, bufsz, piece) \in [1 .. BlockSize -> Bytes]
      BY <1>2, <2>9, <3>1, Memcpy
    <3> QED
      BY <2>5, <3>2
  <2>11. /\ mid \in Seq(Bytes) /\ Len(mid) \in Nat /\ Whole(Len(mid))
         /\ Len(absorbed) + Len(mid) = given + taken
         /\ \A k \in 1 .. Len(mid) : mid[k] = Byte("in", Len(absorbed) + k)
    <3>1. CASE bufsz = 0
      <4>1. mid = <<>> /\ taken = 0
        BY <2>1, <2>6, <3>1
      <4>2. mid \in Seq(Bytes) /\ Len(mid) = 0
        BY <4>1
      <4> QED
        BY <1>2, <3>1, <4>1, <4>2, WholeBlocks
    <3>2. CASE bufsz # 0
      <4>1. mid = full /\ taken = BlockSize - bufsz
        BY <2>1, <2>6, <3>2
      <4>2. mid \in Seq(Bytes) /\ Len(mid) = BlockSize
        BY <1>2, <2>10, <4>1, BufferSeq
      <4>3. \A k \in 1 .. BlockSize : full[k] = Byte("in", Len(absorbed) + k)
        <5>1. BlockSize - bufsz <= Len(inp)
          BY <1>4, <2>2, <4>1
        <5>2. full = Copied(buf, bufsz, SubSeq(inp, 1, BlockSize - bufsz))
          BY <2>3, <2>5, <4>1
        <5>3. \A k \in 1 .. Len(inp) : inp[k] = Byte("in", given + k)
          BY <1>4
        <5>4. LET f == Copied(buf, bufsz, SubSeq(inp, 1, BlockSize - bufsz))
              IN  \A k \in 1 .. BlockSize : f[k] = Byte("in", Len(absorbed) + k)
          BY <1>4, <3>2, <5>1, <5>3, FullBlock
        <5> QED
          BY <5>2, <5>4
      <4> QED
        <5>1. Whole(Len(mid)) /\ \A k \in 1 .. Len(mid) : mid[k] = Byte("in", Len(absorbed) + k)
          BY <4>1, <4>2, <4>3, WholeBlocks
        <5>2. Len(absorbed) + Len(mid) = given + taken /\ Len(mid) \in Nat
          BY <1>2, <4>1, <4>2
        <5> QED
          BY <4>2, <5>1, <5>2
    <3> QED
      BY <3>1, <3>2
  <2>12. /\ rest \in Seq(Bytes) /\ Len(rest) = len - taken
         /\ \A k \in 1 .. Len(rest) : rest[k] = Byte("in", Len(absorbed) + Len(mid) + k)
    <3>1. taken <= len /\ len <= Len(inp)
      BY <1>4, <2>2
    <3>2. /\ SubSeq(inp, taken + 1, len) \in Seq(Bytes)
          /\ Len(SubSeq(inp, taken + 1, len)) = len - taken
          /\ \A k \in 1 .. len - taken : SubSeq(inp, taken + 1, len)[k] = inp[taken + k]
      BY <1>4, <3>1, Part
    <3>3. rest \in Seq(Bytes) /\ Len(rest) = len - taken
      BY <2>4, <3>2
    <3>4. ASSUME NEW k \in 1 .. Len(rest)
          PROVE  rest[k] = Byte("in", Len(absorbed) + Len(mid) + k)
      <4>1. k \in 1 .. len - taken /\ taken + k \in 1 .. len
        BY <2>2, <3>3
      <4>2. rest[k] = Byte("in", given + (taken + k))
        BY <1>4, <2>4, <3>2, <4>1
      <4>3. given + (taken + k) = Len(absorbed) + Len(mid) + k
        <5>1. Len(mid) \in Nat /\ Len(absorbed) + Len(mid) = given + taken
          BY <2>11
        <5> QED
          BY <1>2, <4>1, <5>1
      <4> QED
        BY <4>2, <4>3
    <3> QED
      BY <3>3, <3>4
  <2>13. Joined(absorbed, mid, rest, whole, absorbed', buf')
    <3>1. Pieces(absorbed, mid, rest)
      BY <1>2, <1>3, <2>11, <2>12 DEF Pieces
    <3> QED
      BY <2>7, <2>8, <2>10, <3>1, WholeAndRest
  <2>14. /\ whole \in Nat /\ whole <= Len(rest) /\ Len(rest) - whole < BlockSize
         /\ absorbed' \in Seq(Bytes) /\ Whole(Len(absorbed'))
         /\ Len(absorbed') = Len(absorbed) + Len(mid) + whole
         /\ \A k \in 1 .. Len(absorbed') : absorbed'[k] = Byte("in", k)
         /\ buf' \in [1 .. BlockSize -> Bytes]
         /\ \A k \in 1 .. Len(rest) - whole : buf'[k] = Byte("in", Len(absorbed') + k)
    BY <2>13 DEF Joined
  <2>15. /\ bufsz' \in Nat /\ bufsz' < BlockSize /\ given' \in Nat
         /\ Len(absorbed') + bufsz' = given'
    <3>1. Len(mid) \in Nat /\ Len(absorbed) + Len(mid) = given + taken
      BY <2>11
    <3>2. Len(rest) = len - taken /\ Len(rest) \in Nat
      BY <2>12
    <3>3. /\ whole \in Nat /\ whole <= Len(rest) /\ Len(rest) - whole < BlockSize
          /\ Len(absorbed') = Len(absorbed) + Len(mid) + whole
      BY <2>14
    <3>4. PICK x, y, z, w, n \in Nat :
            x = Len(absorbed) /\ y = Len(mid) /\ z = Len(rest) /\ w = whole /\ n = given
      BY <1>2, <3>1, <3>2, <3>3
    <3>5. bufsz' = z - w /\ z = len - taken /\ w <= z /\ z - w < BlockSize /\ x + y = n + taken
      BY <2>8, <3>1, <3>2, <3>3, <3>4
    <3>6. bufsz' \in Nat /\ bufsz' < BlockSize /\ x + y + w + bufsz' = n + len
      BY <3>5
    <3> QED
      BY <3>3, <3>4, <3>6
  <2>16. Types'
    BY <1>2, <2>8, <2>14, <2>15 DEF Types
  <2>17. Fed'
    BY <1>2, <2>8, <2>14, <2>15 DEF Fed
  <2> QED
    BY <2>16, <2>17
<1> QED
  BY <1>6, <1>7

\* keccak_update and ossl_sha3_update.
LEMMA UpdateStep ==
  ASSUME KInv, NEW state \in {"absorb", xof_state}, Update(state)
  PROVE  KInv'
<1>1. PICK len \in 0 .. MaxMessage - given :
        /\ given' = given + len
        /\ IF len = 0 THEN UNCHANGED <<absorbed, buf, bufsz, xof_state>>
                      ELSE Absorb(Input(given, len), state)
  BY DEF Update
<1>2. /\ Types /\ Fed /\ Stream /\ xof_state \in {"init", "absorb"} /\ UNCHANGED <<perms, out>>
      /\ state \in {"init", "absorb"}
  BY DEF KInv, Update
<1>3. len \in Nat
  BY <1>2, KeccakAssumption DEF Types
<1>4. Types' /\ Fed' /\ xof_state' \in {"init", "absorb"}
  <2>1. CASE len = 0
    <3>1. given' = given /\ UNCHANGED <<absorbed, buf, bufsz, xof_state>>
      BY <1>1, <1>2, <2>1 DEF Types
    <3> QED
      BY <1>2, <3>1 DEF Types, Fed
  <2>2. CASE len # 0
    <3>1. Absorb(Input(given, len), state)
      BY <1>1, <2>2
    <3>2. xof_state' \in {"init", "absorb"}
      BY <1>2, <3>1 DEF Absorb
    <3> QED
      BY <1>1, <1>2, <1>3, <3>1, <3>2, AbsorbStep
  <2> QED
    BY <2>1, <2>2
<1> QED
  BY <1>2, <1>4 DEF KInv, AbsorbsPaddedMessage, Leftover, Stream

\* ossl_sha3_reset, and the first use of the context.
LEMMA Fresh ==
  /\ Init => KInv
  /\ KInv /\ KeccakInit => KInv'
<1>1. Len(<<>>) = 0 /\ <<>> \in Seq(Bytes) /\ Whole(0) /\ BlockSize \in Nat \ {0}
  BY WholeBlocks, KeccakAssumption
<1>2. ASSUME Init PROVE KInv
  <2>1. /\ absorbed = <<>> /\ perms = 0 /\ bufsz = 0 /\ xof_state = "init" /\ given = 0
        /\ out = <<>> /\ buf \in [1 .. BlockSize -> Bytes]
    BY <1>2, ByteTypes DEF Init
  <2> QED
    BY <1>1, <2>1 DEF KInv, Types, Fed, AbsorbsPaddedMessage, Leftover, Stream
<1>3. ASSUME KInv, KeccakInit PROVE KInv'
  <2>1. /\ absorbed' = <<>> /\ perms' = 0 /\ bufsz' = 0 /\ xof_state' = "init" /\ given' = 0
        /\ out' = <<>> /\ buf' \in [1 .. BlockSize -> Bytes]
    BY <1>3 DEF KeccakInit, Reset, KInv, Types
  <2> QED
    BY <1>1, <2>1 DEF KInv, Types, Fed, AbsorbsPaddedMessage, Leftover, Stream
<1> QED
  BY <1>2, <1>3

-----------------------------------------------------------------------------
(* Padding *)

\* Byte k of a message of g bytes, padded to n bytes.
PaddedByte(k, g, n) ==
  [(IF k <= g THEN Byte("in", k) ELSE IF k = g + 1 THEN Byte("pad", 0) ELSE Zero)
   EXCEPT !.end = (k = n)]

\* A byte of the message has no last bit.
LEMMA Unmarked ==
  ASSUME NEW kind, NEW n PROVE [Byte(kind, n) EXCEPT !.end = FALSE] = Byte(kind, n)
<1>1. PICK e : e = FALSE
  OBVIOUS
<1>2. PICK b : b = [of |-> kind, at |-> n, end |-> e]
  OBVIOUS
<1>3. [b EXCEPT !.end = e] = b
  BY <1>2
<1>4. Byte(kind, n) = b
  BY <1>1, <1>2, Zenon DEF Byte
<1> QED
  BY <1>1, <1>3, <1>4, Zenon

\* The last block: the bytes waiting, the pad byte, zeros and the last bit.
LEMMA LastBlock ==
  ASSUME Types, bufsz < BlockSize
  PROVE  /\ Padded(bufsz) \in [1 .. BlockSize -> Bytes]
         /\ \A k \in 1 .. bufsz : Padded(bufsz)[k] = buf[k]
         /\ \A k \in bufsz + 1 .. BlockSize :
              Padded(bufsz)[k] =
                [(IF k = bufsz + 1 THEN Byte("pad", 0) ELSE Zero) EXCEPT !.end = (k = BlockSize)]
<1>1. BlockSize \in Nat \ {0} /\ bufsz \in Nat /\ buf \in [1 .. BlockSize -> Bytes]
  BY KeccakAssumption DEF Types
<1>2. PICK n \in Nat : n = BlockSize - bufsz
  BY <1>1
<1>3. PICK s : s = [k \in 1 .. n |-> IF k = 1 THEN Byte("pad", 0) ELSE Zero]
  OBVIOUS
<1>4. s \in [1 .. n -> Bytes]
  BY <1>3, ByteTypes
<1>5. s \in Seq(Bytes) /\ Len(s) = n
  BY <1>4, BufferSeq
<1>6. PICK c : c = Copied(buf, bufsz, s)
  OBVIOUS
<1>7. /\ c \in [1 .. BlockSize -> Bytes] /\ \A k \in 1 .. bufsz : c[k] = buf[k]
      /\ \A k \in 1 .. n : c[bufsz + k] = s[k]
  <2>1. bufsz + Len(s) <= BlockSize
    BY <1>1, <1>2, <1>5
  <2>2. /\ Copied(buf, bufsz, s) \in [1 .. BlockSize -> Bytes]
        /\ \A k \in 1 .. bufsz : Copied(buf, bufsz, s)[k] = buf[k]
        /\ \A k \in 1 .. Len(s) : Copied(buf, bufsz, s)[bufsz + k] = s[k]
    BY <1>1, <1>5, <2>1, Memcpy
  <2> QED
    BY <1>5, <1>6, <2>2
<1>8. ASSUME NEW k \in bufsz + 1 .. BlockSize
      PROVE  c[k] = IF k = bufsz + 1 THEN Byte("pad", 0) ELSE Zero
  <2>1. PICK e \in 1 .. n : k = bufsz + e
    <3>1. k - bufsz \in 1 .. n /\ k = bufsz + (k - bufsz)
      BY <1>1, <1>2
    <3> QED
      BY <3>1
  <2>2. c[k] = s[e] /\ s[e] = IF e = 1 THEN Byte("pad", 0) ELSE Zero
    BY <1>3, <1>7, <2>1
  <2>3. k = bufsz + 1 <=> e = 1
    BY <1>1, <2>1
  <2> QED
    BY <2>2, <2>3
<1>9. PICK last : last = [c[BlockSize] EXCEPT !.end = TRUE]
  OBVIOUS
<1>10. c[BlockSize] \in Bytes /\ last \in Bytes
  <2>1. c[BlockSize] \in Bytes
    BY <1>1, <1>7
  <2> QED
    BY <1>9, <2>1, Zenon DEF Bytes
<1>11. Padded(bufsz) = [c EXCEPT ![BlockSize] = last]
  <2>1. Copied(buf, bufsz, [k \in 1 .. BlockSize - bufsz |->
                              IF k = 1 THEN Byte("pad", 0) ELSE Zero]) = c
    BY <1>2, <1>3, <1>6
  <2> QED
    BY <1>9, <2>1 DEF Padded
<1>12. PICK d : d = [c EXCEPT ![BlockSize] = last]
  OBVIOUS
<1>13. /\ d \in [1 .. BlockSize -> Bytes] /\ d[BlockSize] = last
       /\ \A k \in 1 .. BlockSize : k # BlockSize => d[k] = c[k]
  BY <1>1, <1>7, <1>10, <1>12
<1>14. ASSUME NEW k \in 1 .. bufsz PROVE d[k] = buf[k]
  <2>1. k \in 1 .. BlockSize /\ k # BlockSize
    BY <1>1
  <2> QED
    BY <1>7, <1>13, <2>1
<1>15. ASSUME NEW k \in bufsz + 1 .. BlockSize
       PROVE  d[k] = [(IF k = bufsz + 1 THEN Byte("pad", 0) ELSE Zero) EXCEPT !.end = (k = BlockSize)]
  <2>1. PICK x : x = IF k = bufsz + 1 THEN Byte("pad", 0) ELSE Zero
    OBVIOUS
  <2>2. c[k] = x
    BY <1>8, <2>1
  <2>3. CASE k = BlockSize
    <3>1. d[k] = [x EXCEPT !.end = TRUE] /\ (k = BlockSize) = TRUE
      BY <1>9, <1>13, <2>2, <2>3
    <3> QED
      BY <2>1, <3>1
  <2>4. CASE k # BlockSize
    <3>1. k \in 1 .. BlockSize
      BY <1>1
    <3>2. d[k] = x /\ (k = BlockSize) = FALSE
      BY <1>13, <2>2, <2>4, <3>1
    <3>3. x = [x EXCEPT !.end = FALSE]
      <4>1. x = Byte("pad", 0) \/ x = Byte("zero", 0)
        BY <2>1 DEF Zero
      <4> QED
        BY <4>1, Unmarked
    <3> QED
      BY <2>1, <3>2, <3>3
  <2> QED
    BY <2>3, <2>4
<1> QED
  BY <1>11, <1>12, <1>13, <1>14, <1>15

\* The message padded to whole blocks, as AbsorbsPaddedMessage states it.
PaddedMessage(g) ==
  LET blocks == g \div BlockSize + 1
  IN  [k \in 1 .. blocks * BlockSize |-> PaddedByte(k, g, blocks * BlockSize)]

\* Absorbing the last block completes the padded message.
LEMMA PaddingCompletes ==
  ASSUME Types, Fed, xof_state \in {"init", "absorb"}
  PROVE  /\ absorbed \o Padded(bufsz) \in Seq(Bytes)
         /\ absorbed \o Padded(bufsz) = PaddedMessage(given)
<1>1. /\ BlockSize \in Nat \ {0} /\ bufsz \in Nat /\ bufsz < BlockSize /\ Len(absorbed) \in Nat
      /\ given \in Nat /\ Len(absorbed) + bufsz = given /\ Whole(Len(absorbed))
      /\ absorbed \in Seq(Bytes)
  BY KeccakAssumption DEF Types, Fed
<1>2. /\ \A k \in 1 .. Len(absorbed) : absorbed[k] = Byte("in", k)
      /\ \A k \in 1 .. bufsz : buf[k] = Byte("in", Len(absorbed) + k)
  BY DEF Fed
<1>3. PICK m \in Nat : m = Len(absorbed)
  BY <1>1
<1>4. PICK n \in Nat : n = m + BlockSize
  BY <1>1
<1>5. (given \div BlockSize + 1) * BlockSize = n
  <2>1. ((Len(absorbed) + bufsz) \div BlockSize + 1) * BlockSize = Len(absorbed) + BlockSize
    BY <1>1, PaddedBlocks
  <2> QED
    BY <1>1, <1>3, <1>4, <2>1
<1>6. PICK d : d = Padded(bufsz)
  OBVIOUS
<1>7. /\ d \in [1 .. BlockSize -> Bytes] /\ \A k \in 1 .. bufsz : d[k] = buf[k]
      /\ \A k \in bufsz + 1 .. BlockSize :
           d[k] = [(IF k = bufsz + 1 THEN Byte("pad", 0) ELSE Zero) EXCEPT !.end = (k = BlockSize)]
  BY <1>1, <1>6, LastBlock
<1>8. d \in Seq(Bytes) /\ Len(d) = BlockSize
  BY <1>1, <1>7, BufferSeq
<1>9. PICK b : b = absorbed \o d
  OBVIOUS
<1>10. /\ b \in Seq(Bytes) /\ Len(b) = n
       /\ \A k \in 1 .. m : b[k] = absorbed[k]
       /\ \A k \in 1 .. BlockSize : b[m + k] = d[k]
  <2>1. /\ absorbed \o d \in Seq(Bytes) /\ Len(absorbed \o d) = Len(absorbed) + Len(d)
        /\ \A k \in 1 .. Len(absorbed) : (absorbed \o d)[k] = absorbed[k]
        /\ \A k \in 1 .. Len(d) : (absorbed \o d)[Len(absorbed) + k] = d[k]
    BY <1>1, <1>8, Cat
  <2> QED
    BY <1>3, <1>4, <1>8, <1>9, <2>1
<1>11. ASSUME NEW k \in 1 .. n PROVE b[k] = PaddedByte(k, given, n)
  <2>1. CASE k <= given
    <3>1. b[k] = Byte("in", k)
      <4>1. CASE k <= m
        <5>1. k \in 1 .. m
          BY <4>1
        <5> QED
          BY <1>2, <1>3, <1>10, <5>1
      <4>2. CASE k > m
        <5>1. PICK e \in 1 .. bufsz : k = m + e
          <6>1. k - m \in 1 .. bufsz /\ k = m + (k - m)
            BY <1>1, <1>3, <2>1, <4>2
          <6> QED
            BY <6>1
        <5>2. e \in 1 .. BlockSize
          BY <1>1
        <5>3. b[k] = d[e]
          BY <1>10, <5>1, <5>2
        <5>4. d[e] = Byte("in", m + e)
          BY <1>2, <1>3, <1>7
        <5> QED
          BY <5>1, <5>3, <5>4
      <4> QED
        BY <4>1, <4>2
    <3>2. k # n
      BY <1>1, <1>3, <1>4, <2>1
    <3>3. PaddedByte(k, given, n) = [Byte("in", k) EXCEPT !.end = FALSE]
      <4>1. (k = n) = FALSE
        BY <3>2
      <4> QED
        BY <2>1, <4>1 DEF PaddedByte
    <3> QED
      BY <3>1, <3>3, Unmarked
  <2>2. CASE k > given
    <3>1. PICK e \in bufsz + 1 .. BlockSize : k = m + e
      <4>1. k - m \in bufsz + 1 .. BlockSize /\ k = m + (k - m)
        BY <1>1, <1>3, <1>4, <2>2
      <4> QED
        BY <4>1
    <3>2. e \in 1 .. BlockSize
      BY <1>1
    <3>3. b[k] = d[e]
      BY <1>10, <3>1, <3>2
    <3>4. (k = given + 1 <=> e = bufsz + 1) /\ (k = n <=> e = BlockSize) /\ ~(k <= given)
      BY <1>1, <1>3, <1>4, <2>2, <3>1, <3>2
    <3>5. PICK x : x = IF e = bufsz + 1 THEN Byte("pad", 0) ELSE Zero
      OBVIOUS
    <3>6. d[e] = [x EXCEPT !.end = (e = BlockSize)]
      BY <1>7, <3>5
    <3>7. (k = n) = (e = BlockSize)
      BY <3>4
    <3>8. x = IF k <= given THEN Byte("in", k) ELSE IF k = given + 1 THEN Byte("pad", 0) ELSE Zero
      BY <3>4, <3>5
    <3>9. PaddedByte(k, given, n) = [x EXCEPT !.end = (k = n)]
      BY <3>8 DEF PaddedByte
    <3> QED
      BY <3>3, <3>6, <3>7, <3>9
  <2> QED
    BY <1>1, <2>1, <2>2
<1>12. PaddedMessage(given) = [k \in 1 .. n |-> PaddedByte(k, given, n)]
  BY <1>5 DEF PaddedMessage
<1>13. b = [k \in 1 .. n |-> PaddedByte(k, given, n)]
  <2>1. b = [k \in 1 .. n |-> b[k]]
    BY <1>10
  <2> QED
    BY <1>11, <2>1
<1> QED
  BY <1>6, <1>9, <1>10, <1>12, <1>13

-----------------------------------------------------------------------------
(* Squeezing *)

\* t is the stream from place n on.
Follows(t, n) == t \in Seq(Bytes) /\ \A k \in 1 .. Len(t) : t[k] = Byte("out", n + k - 1)

\* SHA3_squeeze returns a part of the stream.
LEMMA SqueezedFollows ==
  ASSUME NEW p \in Nat, NEW next \in Nat, NEW len \in Nat
  PROVE  /\ Follows(SqueezedFrom(p, next, len), (p + next) * BlockSize)
         /\ Len(SqueezedFrom(p, next, len)) = len
<1>1. PICK n \in Nat : n = (p + next) * BlockSize
  BY KeccakAssumption
<1>2. PICK s : s = SqueezedFrom(p, next, len)
  OBVIOUS
<1>3. s = [k \in 1 .. len |-> Byte("out", n + k - 1)]
  BY <1>1, <1>2 DEF SqueezedFrom
<1>4. \A k \in 1 .. len : n + k - 1 \in Nat
  OBVIOUS
<1>5. s \in [1 .. len -> Bytes]
  BY <1>3, <1>4, ByteTypes
<1>6. s \in Seq(Bytes) /\ Len(s) = len
  BY <1>5, BufferSeq
<1>7. Follows(s, n)
  BY <1>3, <1>6 DEF Follows
<1> QED
  BY <1>1, <1>2, <1>6, <1>7

\* So is a part of a part.
LEMMA PartFollows ==
  ASSUME NEW t, NEW n \in Nat, Follows(t, n), NEW lo \in Nat, NEW hi \in Nat,
         lo <= hi, hi <= Len(t)
  PROVE  /\ Follows(SubSeq(t, lo + 1, hi), n + lo)
         /\ Len(SubSeq(t, lo + 1, hi)) = hi - lo
<1>1. t \in Seq(Bytes) /\ \A k \in 1 .. Len(t) : t[k] = Byte("out", n + k - 1)
  BY DEF Follows
<1>2. PICK s : s = SubSeq(t, lo + 1, hi)
  OBVIOUS
<1>3. s \in Seq(Bytes) /\ Len(s) = hi - lo /\ \A k \in 1 .. hi - lo : s[k] = t[lo + k]
  <2>1. /\ SubSeq(t, lo + 1, hi) \in Seq(Bytes) /\ Len(SubSeq(t, lo + 1, hi)) = hi - lo
        /\ \A k \in 1 .. hi - lo : SubSeq(t, lo + 1, hi)[k] = t[lo + k]
    BY <1>1, Part
  <2> QED
    BY <1>2, <2>1
<1>4. ASSUME NEW k \in 1 .. Len(s) PROVE s[k] = Byte("out", n + lo + k - 1)
  <2>1. k \in 1 .. hi - lo /\ lo + k \in 1 .. Len(t) /\ n + (lo + k) - 1 = n + lo + k - 1
    BY <1>1, <1>3
  <2> QED
    BY <1>1, <1>3, <2>1
<1> QED
  BY <1>2, <1>3, <1>4 DEF Follows

\* What follows the bytes returned continues the stream.
LEMMA StreamGrows ==
  ASSUME NEW s, Follows(s, 0), NEW t, NEW n, n = Len(s), Follows(t, n)
  PROVE  Follows(s \o t, 0) /\ Len(s \o t) = n + Len(t)
<1>1. /\ s \in Seq(Bytes) /\ \A k \in 1 .. Len(s) : s[k] = Byte("out", 0 + k - 1)
      /\ t \in Seq(Bytes) /\ \A k \in 1 .. Len(t) : t[k] = Byte("out", n + k - 1)
  BY DEF Follows
<1>2. Len(s) \in Nat /\ Len(t) \in Nat /\ n \in Nat
  BY <1>1
<1>3. PICK b : b = s \o t
  OBVIOUS
<1>4. /\ b \in Seq(Bytes) /\ Len(b) = n + Len(t)
      /\ \A k \in 1 .. n : b[k] = s[k]
      /\ \A k \in 1 .. Len(t) : b[n + k] = t[k]
  <2>1. /\ s \o t \in Seq(Bytes) /\ Len(s \o t) = Len(s) + Len(t)
        /\ \A k \in 1 .. Len(s) : (s \o t)[k] = s[k]
        /\ \A k \in 1 .. Len(t) : (s \o t)[Len(s) + k] = t[k]
    BY <1>1, Cat
  <2> QED
    BY <1>3, <2>1
<1>5. ASSUME NEW k \in 1 .. Len(b) PROVE b[k] = Byte("out", 0 + k - 1)
  <2>1. CASE k <= n
    <3>1. k \in 1 .. n
      BY <1>2, <2>1
    <3> QED
      BY <1>1, <1>4, <3>1
  <2>2. CASE k > n
    <3>1. PICK e \in 1 .. Len(t) : k = n + e
      <4>1. k - n \in 1 .. Len(t) /\ k = n + (k - n)
        BY <1>2, <1>4, <2>2
      <4> QED
        BY <4>1
    <3>2. b[k] = t[e] /\ t[e] = Byte("out", n + e - 1)
      BY <1>1, <1>4, <3>1
    <3>3. n + e - 1 = 0 + k - 1
      BY <1>2, <3>1
    <3> QED
      BY <3>2, <3>3
  <2> QED
    BY <1>2, <2>1, <2>2
<1> QED
  BY <1>3, <1>4, <1>5 DEF Follows

\* SHA3_squeeze permutes between blocks, and before the first one if next.
LEMMA PermsBlocks ==
  ASSUME NEW p \in Nat, NEW next \in Nat, NEW q \in Nat
  PROVE  PermsAfter(p, next, BlockSize * q) = IF q = 0 THEN p ELSE p + next + (q - 1)
<1>1. CASE q = 0
  <2>1. BlockSize * q = 0
    BY <1>1, KeccakAssumption
  <2> QED
    BY <1>1, <2>1 DEF PermsAfter
<1>2. CASE q # 0
  <2>1. PICK j \in Nat : q = j + 1
    <3>1. q - 1 \in Nat /\ q = (q - 1) + 1
      BY <1>2
    <3> QED
      BY <3>1
  <2>2. PICK i \in Nat : BlockSize = i + 1
    <3>1. BlockSize - 1 \in Nat /\ BlockSize = (BlockSize - 1) + 1
      BY KeccakAssumption
    <3> QED
      BY <3>1
  <2>3. BlockSize * q = j * BlockSize + BlockSize /\ j * BlockSize \in Nat
    BY <2>1, KeccakAssumption
  <2>4. BlockSize * q - 1 = j * BlockSize + i /\ i < BlockSize /\ BlockSize * q # 0
    BY <2>2, <2>3
  <2>5. (j * BlockSize + i) \div BlockSize = j
    BY <2>4, DivisionUnique
  <2>6. PermsAfter(p, next, BlockSize * q) = p + next + j
    BY <2>4, <2>5 DEF PermsAfter
  <2> QED
    BY <1>2, <2>1, <2>6
<1> QED
  BY <1>1, <1>2

\* The bytes requested beyond the left over ones: whole blocks and a part.
LEMMA Request ==
  ASSUME NEW r \in Nat
  PROVE  \E q, part \in Nat :
           /\ r \div BlockSize = q /\ part < BlockSize /\ r = BlockSize * q + part
           /\ part = r - BlockSize * q
<1>1. PICK q, part \in Nat : /\ r \div BlockSize = q /\ part < BlockSize
                             /\ r = BlockSize * q + part
  BY Division
<1>2. BlockSize * q \in Nat
  BY KeccakAssumption
<1> QED
  BY <1>1, <1>2

\* The smaller of two numbers.
LEMMA MinOfTwo ==
  ASSUME NEW a \in Nat, NEW b \in Nat
  PROVE  Min({a, b}) = IF a <= b THEN a ELSE b
<1>1. CASE a <= b
  <2>1. \A x \in {a, b} : (\A y \in {a, b} : x <= y) <=> x = a
    BY <1>1
  <2> QED
    BY <1>1, <2>1 DEF Min
<1>2. CASE ~(a <= b)
  <2>1. \A x \in {a, b} : (\A y \in {a, b} : x <= y) <=> x = b
    BY <1>2
  <2> QED
    BY <1>2, <2>1 DEF Min
<1> QED
  BY <1>1, <1>2

\* keccak_final.
LEMMA FinalStep ==
  ASSUME KInv, Final
  PROVE  KInv'
<1>1. PICK len \in Lengths :
        IF len = 0 \/ xof_state \in {"squeeze", "final"}
          THEN UNCHANGED vars
          ELSE /\ buf' = Padded(bufsz)
               /\ absorbed' = absorbed \o buf'
               /\ xof_state' = "final"
               /\ out' = out \o SqueezedFrom(0, 0, len)
               /\ perms' = PermsAfter(0, 0, len)
               /\ UNCHANGED <<bufsz, given>>
  BY DEF Final
<1>2. CASE len = 0 \/ xof_state \in {"squeeze", "final"}
  <2>1. UNCHANGED vars
    BY <1>1, <1>2
  <2> QED
    BY <2>1 DEF vars, KInv, Types, Fed, AbsorbsPaddedMessage, Leftover, Stream
<1>3. CASE ~(len = 0 \/ xof_state \in {"squeeze", "final"})
  <2>1. /\ Types /\ Fed /\ xof_state \in {"init", "absorb"} /\ out = <<>>
        /\ bufsz \in Nat /\ bufsz < BlockSize /\ given \in Nat
    BY <1>3 DEF KInv, Types, Fed
  <2>2. /\ buf' = Padded(bufsz) /\ absorbed' = absorbed \o Padded(bufsz)
        /\ xof_state' = "final" /\ out' = out \o SqueezedFrom(0, 0, len)
        /\ perms' = PermsAfter(0, 0, len) /\ bufsz' = bufsz /\ given' = given
    BY <1>1, <1>3
  <2>3. len \in Nat /\ len # 0
    BY <1>3, <2>1, KeccakAssumption DEF Lengths
  <2>4. buf' \in [1 .. BlockSize -> Bytes]
    BY <2>1, <2>2, LastBlock
  <2>5. absorbed' \in Seq(Bytes) /\ absorbed' = PaddedMessage(given')
    BY <2>1, <2>2, PaddingCompletes
  <2>6. perms' \in Nat
    <3>1. PICK l \in Nat : l = len - 1
      BY <2>3
    <3>2. PICK q \in Nat : l \div BlockSize = q
      BY Division
    <3>3. PermsAfter(0, 0, len) = 0 + 0 + q
      BY <2>3, <3>1, <3>2 DEF PermsAfter
    <3> QED
      BY <2>2, <3>3
  <2>7. Follows(out', 0)
    <3>1. PICK t : t = SqueezedFrom(0, 0, len)
      OBVIOUS
    <3>2. (0 + 0) * BlockSize = 0
      BY KeccakAssumption
    <3>3. Follows(SqueezedFrom(0, 0, len), (0 + 0) * BlockSize)
      BY <2>3, SqueezedFollows
    <3>4. Follows(t, 0) /\ Follows(<<>>, 0) /\ Len(<<>>) = 0
      BY <3>1, <3>2, <3>3 DEF Follows
    <3>5. Follows(<<>> \o t, 0)
      BY <3>4, StreamGrows
    <3> QED
      BY <2>1, <2>2, <3>1, <3>5
  <2>8. out' \in Seq(Bytes) /\ \A k \in 1 .. Len(out') : out'[k] = Byte("out", k - 1)
    <3>1. out' \in Seq(Bytes) /\ \A k \in 1 .. Len(out') : out'[k] = Byte("out", 0 + k - 1)
      BY <2>7 DEF Follows
    <3> QED
      BY <3>1
  <2>9. Types'
    BY <2>1, <2>2, <2>4, <2>5, <2>6, <2>8 DEF Types
  <2>10. AbsorbsPaddedMessage'
    BY <2>5 DEF AbsorbsPaddedMessage, PaddedMessage, PaddedByte
  <2> QED
    BY <2>2, <2>8, <2>9, <2>10 DEF KInv, Fed, Leftover, Stream
<1> QED
  BY <1>2, <1>3

\* What a squeeze starts from: num bytes left over that end the blocks squeezed
\* so far, which are next blocks more than the permutations.
Ready(num, next) ==
  /\ num \in Nat /\ num < BlockSize /\ next \in {0, 1} /\ (next = 0 => num = 0)
  /\ Len(out) + num = (perms + next) * BlockSize
  /\ \A k \in 1 .. num : buf[BlockSize - num + k] = Byte("out", Len(out) + k - 1)

\* The quantities of ossl_sha3_squeeze and what it returns and keeps.
Squeezed(num, next, len, old, whole, part, then, p, block) ==
  /\ old = Min({len, num})
  /\ whole = BlockSize * ((len - old) \div BlockSize)
  /\ part = len - old - whole
  /\ then = IF whole > 0 THEN 1 ELSE next
  /\ p = PermsAfter(perms, next, whole)
  /\ block = SqueezedFrom(p, then, BlockSize)
  /\ out' = out \o SubSeq(buf, LeftoverAt(num) + 1, LeftoverAt(num) + old)
                \o SqueezedFrom(perms, next, whole) \o SubSeq(block, 1, part)
  /\ perms' = IF part > 0 THEN PermsAfter(p, then, BlockSize) ELSE p
  /\ part > 0 => buf' = block
  /\ part = 0 /\ num > 0 => buf' = buf
  /\ bufsz' = IF part > 0 THEN BlockSize - part ELSE num - old

\* What it leaves for the next one.
StillReady ==
  /\ Follows(out', 0) /\ perms' \in Nat /\ bufsz' \in Nat /\ bufsz' < BlockSize
  /\ Len(out') + bufsz' = (perms' + 1) * BlockSize
  /\ \A k \in 1 .. bufsz' : buf'[BlockSize - bufsz' + k] = Byte("out", Len(out') + k - 1)

\* The bytes one squeeze returns, and what it leaves over.
LEMMA SqueezeBytes ==
  ASSUME Types, Stream, NEW num, NEW next, Ready(num, next), NEW len \in Nat, len # 0,
         NEW old, NEW whole, NEW part, NEW then, NEW p, NEW block,
         Squeezed(num, next, len, old, whole, part, then, p, block)
  PROVE  /\ part \in Nat /\ (part > 0 => block \in [1 .. BlockSize -> Bytes])
         /\ StillReady
<1>a. old = Min({len, num})
  BY DEF Squeezed
<1>b. whole = BlockSize * ((len - old) \div BlockSize)
  BY DEF Squeezed
<1>c. part = len - old - whole
  BY DEF Squeezed
<1>d. then = IF whole > 0 THEN 1 ELSE next
  BY DEF Squeezed
<1>e. p = PermsAfter(perms, next, whole)
  BY DEF Squeezed
<1>f. block = SqueezedFrom(p, then, BlockSize)
  BY DEF Squeezed
<1>g. out' = out \o SubSeq(buf, LeftoverAt(num) + 1, LeftoverAt(num) + old)
                 \o SqueezedFrom(perms, next, whole) \o SubSeq(block, 1, part)
  BY DEF Squeezed
<1>h. perms' = IF part > 0 THEN PermsAfter(p, then, BlockSize) ELSE p
  BY DEF Squeezed
<1>i. (part > 0 => buf' = block) /\ (part = 0 /\ num > 0 => buf' = buf)
  BY DEF Squeezed
<1>j. bufsz' = IF part > 0 THEN BlockSize - part ELSE num - old
  BY DEF Squeezed
<1>1. /\ BlockSize \in Nat \ {0} /\ num \in Nat /\ num < BlockSize /\ next \in Nat
      /\ (next = 0 \/ next = 1) /\ (next = 0 => num = 0) /\ perms \in Nat
      /\ out \in Seq(Bytes) /\ buf \in [1 .. BlockSize -> Bytes]
  BY KeccakAssumption DEF Types, Ready
<1>2. PICK n \in Nat : n = Len(out)
  BY <1>1
<1>3. \A k \in 1 .. num : buf[BlockSize - num + k] = Byte("out", n + k - 1)
  BY <1>2 DEF Ready
<1>4. PICK base \in Nat : base = (perms + next) * BlockSize /\ n + num = base
  <2>1. (perms + next) * BlockSize = n + num /\ n + num \in Nat
    BY <1>1, <1>2 DEF Ready
  <2> QED
    BY <2>1
<1>5. /\ old \in Nat /\ old <= num /\ old <= len /\ (old = len \/ old = num)
  <2>1. Min({len, num}) = IF len <= num THEN len ELSE num
    BY <1>1, MinOfTwo
  <2> QED
    BY <1>1, <1>a, <2>1
<1>6. PICK r \in Nat : r = len - old
  BY <1>5
<1>7. PICK q, rem \in Nat : /\ r \div BlockSize = q /\ rem < BlockSize
                            /\ r = BlockSize * q + rem /\ rem = r - BlockSize * q
  BY Request
<1>8. whole = BlockSize * q /\ whole \in Nat
  <2>1. BlockSize * q \in Nat
    BY <1>1
  <2> QED
    BY <1>6, <1>7, <1>b, <2>1
<1>9. part = rem /\ part \in Nat /\ part < BlockSize /\ r = whole + part
  BY <1>6, <1>7, <1>8, <1>c
<1>10. q = 0 <=> whole = 0
  <2>1. CASE q = 0
    BY <1>1, <1>8, <2>1
  <2>2. CASE q # 0
    <3>1. PICK j \in Nat : q = j + 1
      <4>1. q - 1 \in Nat /\ q = (q - 1) + 1
        BY <2>2
      <4> QED
        BY <4>1
    <3>2. BlockSize * q = BlockSize * j + BlockSize /\ BlockSize * j \in Nat
      BY <1>1, <3>1
    <3> QED
      BY <1>1, <1>8, <2>2, <3>2
  <2> QED
    BY <2>1, <2>2
<1>11. p = IF q = 0 THEN perms ELSE perms + next + (q - 1)
  <2>1. PermsAfter(perms, next, BlockSize * q) = IF q = 0 THEN perms ELSE perms + next + (q - 1)
    <3>1. perms \in Nat /\ next \in Nat /\ q \in Nat
      BY <1>1
    <3> QED
      BY <3>1, PermsBlocks
  <2> QED
    BY <1>8, <1>e, <2>1
<1>12. p \in Nat /\ then \in Nat /\ p + then = perms + next + q
  <2>1. CASE q = 0
    BY <1>1, <1>8, <1>10, <1>11, <1>d, <2>1
  <2>2. CASE q # 0
    <3>1. whole > 0
      BY <1>8, <1>10, <2>2
    <3>2. then = 1 /\ p = perms + next + (q - 1)
      BY <1>11, <1>d, <2>2, <3>1
    <3> QED
      BY <1>1, <2>2, <3>2
  <2> QED
    BY <2>1, <2>2
<1>13. (p + then) * BlockSize = base + whole
  <2>1. (perms + next + q) * BlockSize = (perms + next) * BlockSize + BlockSize * q
    BY <1>1
  <2> QED
    BY <1>4, <1>8, <1>12, <2>1
<1>14. part > 0 \/ whole > 0 => old = num
  BY <1>5, <1>6, <1>8, <1>9
<1>15. PICK a : a = SubSeq(buf, LeftoverAt(num) + 1, LeftoverAt(num) + old)
  OBVIOUS
<1>16. Follows(a, n) /\ Len(a) = old
  <2>1. PICK lo, hi \in Nat : lo = BlockSize - num /\ hi = BlockSize - num + old
    <3>1. BlockSize - num \in Nat /\ BlockSize - num + old \in Nat
      BY <1>1, <1>5
    <3> QED
      BY <3>1
  <2>2. buf \in Seq(Bytes) /\ Len(buf) = BlockSize
    BY <1>1, BufferSeq
  <2>3. lo <= hi /\ hi <= Len(buf) /\ hi - lo = old
    BY <1>1, <1>5, <2>1, <2>2
  <2>4. /\ SubSeq(buf, lo + 1, hi) \in Seq(Bytes) /\ Len(SubSeq(buf, lo + 1, hi)) = hi - lo
        /\ \A k \in 1 .. hi - lo : SubSeq(buf, lo + 1, hi)[k] = buf[lo + k]
    BY <2>2, <2>3, Part
  <2>5. a = SubSeq(buf, lo + 1, hi)
    BY <1>15, <2>1 DEF LeftoverAt
  <2>6. a \in Seq(Bytes) /\ Len(a) = old /\ \A k \in 1 .. old : a[k] = buf[BlockSize - num + k]
    BY <2>1, <2>3, <2>4, <2>5
  <2>7. \A k \in 1 .. old : k \in 1 .. num
    BY <1>1, <1>5
  <2>8. \A k \in 1 .. old : a[k] = Byte("out", n + k - 1)
    BY <1>3, <2>6, <2>7
  <2> QED
    BY <2>6, <2>8 DEF Follows
<1>17. PICK s : s = out \o a
  OBVIOUS
<1>18. Follows(s, 0) /\ Len(s) = n + old
  <2>1. Follows(out, 0)
    <3>1. ASSUME NEW k \in 1 .. Len(out) PROVE out[k] = Byte("out", 0 + k - 1)
      <4>1. 0 + k - 1 = k - 1
        BY <1>1
      <4> QED
        BY <4>1 DEF Stream
    <3> QED
      BY <1>1, <3>1 DEF Follows
  <2>2. Follows(out \o a, 0) /\ Len(out \o a) = n + Len(a)
    BY <1>2, <1>16, <2>1, StreamGrows
  <2> QED
    BY <1>16, <1>17, <2>2
<1>19. PICK b : b = SqueezedFrom(perms, next, whole)
  OBVIOUS
<1>20. Follows(b, n + old) /\ Len(b) = whole
  <2>1. /\ Follows(SqueezedFrom(perms, next, whole), (perms + next) * BlockSize)
        /\ Len(SqueezedFrom(perms, next, whole)) = whole
    BY <1>1, <1>8, SqueezedFollows
  <2>2. Follows(b, base) /\ Len(b) = whole
    BY <1>4, <1>19, <2>1
  <2>3. CASE whole > 0
    BY <1>4, <1>14, <2>2, <2>3
  <2>4. CASE whole = 0
    BY <2>2, <2>4 DEF Follows
  <2> QED
    BY <1>8, <2>3, <2>4
<1>21. PICK t : t = s \o b
  OBVIOUS
<1>22. Follows(t, 0) /\ Len(t) = n + old + whole
  <2>1. n + old = Len(s)
    BY <1>18
  <2>2. Follows(s \o b, 0) /\ Len(s \o b) = n + old + Len(b)
    BY <1>18, <1>20, <2>1, StreamGrows
  <2> QED
    BY <1>20, <1>21, <2>2
<1>23. /\ Follows(block, base + whole) /\ Len(block) = BlockSize
  <2>1. /\ Follows(SqueezedFrom(p, then, BlockSize), (p + then) * BlockSize)
        /\ Len(SqueezedFrom(p, then, BlockSize)) = BlockSize
    BY <1>1, <1>12, SqueezedFollows
  <2> QED
    BY <1>13, <1>f, <2>1
<1>24. PICK c : c = SubSeq(block, 1, part)
  OBVIOUS
<1>25. Follows(c, n + old + whole) /\ Len(c) = part
  <2>1. 0 \in Nat /\ 0 <= part /\ part <= Len(block) /\ base + whole \in Nat
    BY <1>8, <1>9, <1>23
  <2>2. /\ Follows(SubSeq(block, 0 + 1, part), base + whole + 0)
        /\ Len(SubSeq(block, 0 + 1, part)) = part - 0
    BY <1>9, <1>23, <2>1, PartFollows
  <2>3. Follows(c, base + whole) /\ Len(c) = part
    BY <1>8, <1>9, <1>24, <2>2
  <2>4. CASE part > 0
    BY <1>4, <1>14, <2>3, <2>4
  <2>5. CASE part = 0
    BY <2>3, <2>5 DEF Follows
  <2> QED
    BY <1>9, <2>4, <2>5
<1>26. Follows(out', 0) /\ Len(out') = n + old + whole + part
  <2>1. n + old + whole = Len(t)
    BY <1>22
  <2>2. Follows(t \o c, 0) /\ Len(t \o c) = n + old + whole + Len(c)
    BY <1>22, <1>25, <2>1, StreamGrows
  <2>3. out' = t \o c
    BY <1>15, <1>17, <1>19, <1>21, <1>24, <1>g
  <2> QED
    BY <1>25, <2>2, <2>3
<1>27. CASE part > 0
  <2>1. bufsz' = BlockSize - part /\ bufsz' \in Nat /\ bufsz' < BlockSize /\ old = num
    BY <1>1, <1>9, <1>14, <1>27, <1>j
  <2>2. perms' = p + then
    <3>1. BlockSize * 1 = BlockSize
      BY <1>1
    <3>2. PermsAfter(p, then, BlockSize * 1) = IF 1 = 0 THEN p ELSE p + then + (1 - 1)
      BY <1>12, PermsBlocks
    <3> QED
      BY <1>12, <1>27, <1>h, <3>1, <3>2
  <2>3. (perms' + 1) * BlockSize = base + whole + BlockSize
    <3>1. (p + then + 1) * BlockSize = (p + then) * BlockSize + BlockSize
      BY <1>1, <1>12
    <3> QED
      BY <1>13, <2>2, <3>1
  <2>4. Len(out') = base + whole + part
    BY <1>4, <1>26, <2>1
  <2>5. Len(out') + bufsz' = (perms' + 1) * BlockSize
    BY <1>1, <1>8, <1>9, <2>1, <2>3, <2>4
  <2>6. /\ block \in Seq(Bytes)
        /\ \A k \in 1 .. BlockSize : block[k] = Byte("out", base + whole + k - 1)
    BY <1>23 DEF Follows
  <2>7. block \in [1 .. BlockSize -> Bytes]
    BY <1>23, <2>6
  <2>8. ASSUME NEW k \in 1 .. bufsz'
        PROVE  buf'[BlockSize - bufsz' + k] = Byte("out", Len(out') + k - 1)
    <3>1. BlockSize - bufsz' + k = part + k /\ part + k \in 1 .. BlockSize
      BY <1>1, <1>9, <2>1
    <3>2. base + whole + (part + k) - 1 = Len(out') + k - 1
      BY <1>8, <1>9, <2>1, <2>4, SMTT(30)
    <3>3. buf' = block
      BY <1>27, <1>i
    <3> QED
      BY <2>6, <3>1, <3>2, <3>3
  <2>9. perms' \in Nat
    BY <1>12, <2>2
  <2> QED
    BY <1>9, <1>26, <2>1, <2>5, <2>7, <2>8, <2>9 DEF StillReady
<1>28. CASE part = 0
  <2>1. bufsz' = num - old /\ bufsz' \in Nat /\ bufsz' < BlockSize /\ perms' = p
    BY <1>1, <1>5, <1>28, <1>h, <1>j
  <2>2. Len(out') = n + old + whole
    BY <1>5, <1>8, <1>26, <1>28
  <2>3. CASE old = num
    <3>1. bufsz' = 0
      BY <1>1, <2>1, <2>3
    <3>2. Len(out') = base + whole
      BY <1>4, <2>2, <2>3
    <3>3. p + 1 = p + then
      <4>1. CASE whole > 0
        BY <1>d, <4>1
      <4>2. CASE whole = 0
        <5>1. num # 0
          BY <1>6, <1>9, <1>28, <2>3, <4>2
        <5> QED
          BY <1>1, <1>d, <4>2, <5>1
      <4> QED
        BY <1>8, <4>1, <4>2
    <3>4. Len(out') + bufsz' = (perms' + 1) * BlockSize
      BY <1>8, <1>13, <2>1, <3>1, <3>2, <3>3
    <3> QED
      BY <1>9, <1>12, <1>26, <1>28, <2>1, <3>1, <3>4 DEF StillReady
  <2>4. CASE old # num
    <3>1. whole = 0 /\ q = 0 /\ p = perms /\ num > 0 /\ next = 1
      BY <1>1, <1>5, <1>8, <1>10, <1>11, <1>14, <2>4
    <3>2. Len(out') + bufsz' = (perms' + 1) * BlockSize
      <4>1. Len(out') + bufsz' = base
        BY <1>1, <1>4, <1>5, <2>1, <2>2, <3>1
      <4> QED
        BY <1>4, <2>1, <3>1, <4>1
    <3>3. ASSUME NEW k \in 1 .. bufsz'
          PROVE  buf'[BlockSize - bufsz' + k] = Byte("out", Len(out') + k - 1)
      <4>1. BlockSize - bufsz' + k = BlockSize - num + (old + k) /\ old + k \in 1 .. num
        BY <1>1, <1>5, <2>1
      <4>2. n + (old + k) - 1 = Len(out') + k - 1
        BY <1>5, <2>1, <2>2, <3>1
      <4>3. buf' = buf
        BY <1>28, <1>i, <3>1
      <4>4. buf[BlockSize - num + (old + k)] = Byte("out", n + (old + k) - 1)
        BY <1>3, <4>1
      <4> QED
        BY <4>1, <4>2, <4>3, <4>4
    <3> QED
      BY <1>9, <1>12, <1>26, <1>28, <2>1, <3>2, <3>3 DEF StillReady
  <2> QED
    BY <2>3, <2>4
<1> QED
  BY <1>9, <1>27, <1>28

\* ossl_sha3_squeeze.
LEMMA SqueezeStep ==
  ASSUME KInv, Squeeze
  PROVE  KInv'
<1> DEFINE first == xof_state # "squeeze"
           num   == IF first THEN 0 ELSE bufsz
           next  == IF first THEN 0 ELSE 1
           Old(len) == Min({len, num})
           Whl(len) == BlockSize * ((len - Old(len)) \div BlockSize)
           Prt(len) == len - Old(len) - Whl(len)
           Thn(len) == IF Whl(len) > 0 THEN 1 ELSE next
           P(len) == PermsAfter(perms, next, Whl(len))
           Blk(len) == SqueezedFrom(P(len), Thn(len), BlockSize)
<1>1. PICK len \in Lengths :
        IF len = 0 \/ xof_state = "final"
          THEN UNCHANGED vars
          ELSE /\ absorbed' = IF first THEN absorbed \o Padded(bufsz) ELSE absorbed
               /\ xof_state' = "squeeze"
               /\ out' = out \o SubSeq(buf, LeftoverAt(num) + 1, LeftoverAt(num) + Old(len))
                             \o SqueezedFrom(perms, next, Whl(len))
                             \o SubSeq(Blk(len), 1, Prt(len))
               /\ perms' = IF Prt(len) > 0 THEN PermsAfter(P(len), Thn(len), BlockSize) ELSE P(len)
               /\ buf' = IF Prt(len) > 0 THEN Blk(len) ELSE IF first THEN Padded(bufsz) ELSE buf
               /\ bufsz' = IF Prt(len) > 0 THEN BlockSize - Prt(len) ELSE num - Old(len)
               /\ UNCHANGED given
  BY Zenon DEF Squeeze
<1>2. CASE len = 0 \/ xof_state = "final"
  <2>1. UNCHANGED vars
    BY <1>1, <1>2
  <2> QED
    BY <2>1 DEF vars, KInv, Types, Fed, AbsorbsPaddedMessage, Leftover, Stream
<1>3. CASE ~(len = 0 \/ xof_state = "final")
  <2>1. PICK old, whole, part, then, p, block :
          /\ old = Old(len) /\ whole = Whl(len) /\ part = Prt(len) /\ then = Thn(len)
          /\ p = P(len) /\ block = Blk(len)
    OBVIOUS
  <2>2. /\ absorbed' = IF first THEN absorbed \o Padded(bufsz) ELSE absorbed
        /\ xof_state' = "squeeze"
        /\ buf' = IF part > 0 THEN block ELSE IF first THEN Padded(bufsz) ELSE buf
        /\ given' = given
    BY <1>1, <1>3, <2>1
  <2>3. Types /\ Stream /\ given \in Nat /\ len \in Nat /\ len # 0
    <3>1. Types /\ Stream /\ Len(out) \in Nat /\ given \in Nat
      BY DEF KInv, Types
    <3> QED
      BY <1>3, <3>1, KeccakAssumption DEF Lengths
  <2>4. Squeezed(num, next, len, old, whole, part, then, p, block)
    <3>1. part = 0 /\ num > 0 => ~first
      BY KeccakAssumption
    <3>2. part > 0 => buf' = block
      BY <2>2
    <3>3. part = 0 /\ num > 0 => buf' = buf
      BY <2>2, <3>1
    <3> QED
      BY <1>1, <1>3, <2>1, <3>2, <3>3, Zenon DEF Squeezed
  <2>5. Ready(num, next)
    <3>1. CASE first
      <4>1. perms = 0 /\ out = <<>> /\ xof_state \in {"init", "absorb"}
        BY <1>3, <3>1 DEF KInv, Types, Fed
      <4>2. Len(out) + 0 = (perms + 0) * BlockSize
        BY <4>1, KeccakAssumption
      <4> QED
        BY <3>1, <4>2, KeccakAssumption DEF Ready
    <3>2. CASE ~first
      BY <3>2 DEF Ready, KInv, Types, Leftover
    <3> QED
      BY <3>1, <3>2
  <2> HIDE DEF first, num, next, Old, Whl, Prt, Thn, P, Blk
  <2>6. part \in Nat /\ (part > 0 => block \in [1 .. BlockSize -> Bytes]) /\ StillReady
    BY <2>3, <2>4, <2>5, SqueezeBytes
  <2>7. first => xof_state \in {"init", "absorb"} /\ bufsz < BlockSize /\ Fed
    BY <1>3 DEF first, KInv, Types, Fed
  <2>8. buf' \in [1 .. BlockSize -> Bytes]
    <3>1. first => Padded(bufsz) \in [1 .. BlockSize -> Bytes]
      BY <2>3, <2>7, LastBlock
    <3>2. buf \in [1 .. BlockSize -> Bytes]
      BY <2>3 DEF Types
    <3> QED
      BY <2>2, <2>6, <3>1, <3>2
  <2>9. absorbed' \in Seq(Bytes) /\ absorbed' = PaddedMessage(given')
    <3>1. CASE first
      BY <2>2, <2>3, <2>7, <3>1, PaddingCompletes
    <3>2. CASE ~first
      <4>1. xof_state = "squeeze" /\ absorbed \in Seq(Bytes) /\ AbsorbsPaddedMessage
        BY <3>2 DEF first, KInv, Types
      <4>2. absorbed = PaddedMessage(given)
        BY <4>1 DEF AbsorbsPaddedMessage, PaddedMessage, PaddedByte
      <4> QED
        BY <2>2, <3>2, <4>1, <4>2
    <3> QED
      BY <3>1, <3>2
  <2>10. out' \in Seq(Bytes) /\ \A k \in 1 .. Len(out') : out'[k] = Byte("out", k - 1)
    <3>1. out' \in Seq(Bytes) /\ \A k \in 1 .. Len(out') : out'[k] = Byte("out", 0 + k - 1)
      BY <2>6 DEF StillReady, Follows
    <3> QED
      BY <3>1
  <2>11. Types'
    BY <2>2, <2>3, <2>6, <2>8, <2>9, <2>10 DEF Types, StillReady
  <2>12. AbsorbsPaddedMessage'
    BY <2>9 DEF AbsorbsPaddedMessage, PaddedMessage, PaddedByte
  <2>13. Leftover'
    BY <2>6 DEF Leftover, StillReady
  <2> QED
    BY <2>2, <2>10, <2>11, <2>12, <2>13 DEF KInv, Fed, Stream
<1> QED
  BY <1>2, <1>3

-----------------------------------------------------------------------------
(* Results *)

\* The context keeps its invariant through every init, update, final and squeeze.
THEOREM KeccakInvariance == Spec => []KInv
<1>1. Init => KInv
  BY Fresh
<1>2. KInv /\ [Next]_vars => KInv'
  <2> SUFFICES ASSUME KInv, [Next]_vars PROVE KInv'
    OBVIOUS
  <2>1. CASE KeccakInit
    BY <2>1, Fresh
  <2>2. CASE KeccakUpdate
    BY <2>2, UpdateStep DEF KeccakUpdate
  <2>3. CASE Sha3Update
    BY <2>3, UpdateStep DEF Sha3Update
  <2>4. CASE Final
    BY <2>4, FinalStep
  <2>5. CASE Squeeze
    BY <2>5, SqueezeStep
  <2>6. CASE UNCHANGED vars
    BY <2>6 DEF vars, KInv, Types, Fed, AbsorbsPaddedMessage, Leftover, Stream
  <2> QED
    BY <2>1, <2>2, <2>3, <2>4, <2>5, <2>6 DEF Next
<1> QED
  BY <1>1, <1>2, PTL DEF Spec

\* However the input is cut into pieces, keccak_update and ossl_sha3_update
\* absorb it whole and in order, and leave room in the buffer for the padding.
THEOREM InputAbsorbed == Spec => []AbsorbsMessage
<1>1. KInv => AbsorbsMessage
  <2> SUFFICES ASSUME KInv, xof_state \in {"init", "absorb"}
               PROVE  /\ bufsz < BlockSize
                      /\ absorbed \o SubSeq(buf, 1, bufsz) = Input(0, given)
    BY DEF AbsorbsMessage
  <2>1. /\ BlockSize \in Nat /\ bufsz \in Nat /\ bufsz < BlockSize /\ Len(absorbed) \in Nat
        /\ given \in Nat /\ Len(absorbed) + bufsz = given /\ absorbed \in Seq(Bytes)
        /\ buf \in [1 .. BlockSize -> Bytes]
    BY KeccakAssumption DEF KInv, Types, Fed
  <2>2. /\ \A k \in 1 .. Len(absorbed) : absorbed[k] = Byte("in", k)
        /\ \A k \in 1 .. bufsz : buf[k] = Byte("in", Len(absorbed) + k)
    BY DEF KInv, Fed
  <2>3. PICK m \in Nat : m = Len(absorbed)
    BY <2>1
  <2>4. PICK s : s = SubSeq(buf, 1, bufsz)
    OBVIOUS
  <2>5. s \in Seq(Bytes) /\ Len(s) = bufsz /\ \A k \in 1 .. bufsz : s[k] = buf[k]
    <3>1. buf \in Seq(Bytes) /\ Len(buf) = BlockSize
      BY <2>1, BufferSeq
    <3>2. 0 \in Nat /\ 0 <= bufsz /\ bufsz <= Len(buf)
      BY <2>1, <3>1
    <3>3. /\ SubSeq(buf, 0 + 1, bufsz) \in Seq(Bytes) /\ Len(SubSeq(buf, 0 + 1, bufsz)) = bufsz - 0
          /\ \A k \in 1 .. bufsz - 0 : SubSeq(buf, 0 + 1, bufsz)[k] = buf[0 + k]
      BY <2>1, <3>1, <3>2, Part
    <3> QED
      BY <2>1, <2>4, <3>3
  <2>6. PICK b : b = absorbed \o s
    OBVIOUS
  <2>7. /\ b \in Seq(Bytes) /\ Len(b) = given /\ \A k \in 1 .. m : b[k] = absorbed[k]
        /\ \A k \in 1 .. bufsz : b[m + k] = s[k]
    <3>1. /\ absorbed \o s \in Seq(Bytes) /\ Len(absorbed \o s) = Len(absorbed) + Len(s)
          /\ \A k \in 1 .. Len(absorbed) : (absorbed \o s)[k] = absorbed[k]
          /\ \A k \in 1 .. Len(s) : (absorbed \o s)[Len(absorbed) + k] = s[k]
      BY <2>1, <2>5, Cat
    <3> QED
      BY <2>1, <2>3, <2>5, <2>6, <3>1
  <2>8. ASSUME NEW k \in 1 .. given PROVE b[k] = Byte("in", 0 + k)
    <3>1. CASE k <= m
      <4>1. k \in 1 .. m /\ 0 + k = k
        BY <2>1, <3>1
      <4> QED
        BY <2>2, <2>3, <2>7, <4>1
    <3>2. CASE k > m
      <4>1. PICK e \in 1 .. bufsz : k = m + e
        <5>1. k - m \in 1 .. bufsz /\ k = m + (k - m)
          BY <2>1, <2>3, <3>2
        <5> QED
          BY <5>1
      <4>2. b[k] = buf[e] /\ buf[e] = Byte("in", m + e) /\ 0 + k = m + e
        BY <2>1, <2>2, <2>3, <2>5, <2>7, <4>1
      <4> QED
        BY <4>2
    <3> QED
      BY <2>1, <3>1, <3>2
  <2>9. b = Input(0, given)
    <3>1. b = [k \in 1 .. given |-> b[k]]
      BY <2>1, <2>7
    <3> QED
      BY <2>8, <3>1 DEF Input
  <2> QED
    BY <2>1, <2>4, <2>6, <2>9
<1> QED
  BY <1>1, KeccakInvariance, PTL

\* keccak_final and ossl_sha3_squeeze absorb the message and its padding, in
\* as few blocks as it takes.
THEOREM PaddingAbsorbed == Spec => []AbsorbsPaddedMessage
<1>1. KInv => AbsorbsPaddedMessage
  BY DEF KInv
<1> QED
  BY <1>1, KeccakInvariance, PTL

\* However the output is cut into pieces, ossl_sha3_squeeze returns the stream
\* of one long request.
THEOREM OutputStreams == Spec => []SqueezesStream
<1>1. KInv => SqueezesStream
  <2> SUFFICES ASSUME KInv PROVE out = [k \in DOMAIN out |-> Byte("out", k - 1)]
    BY DEF SqueezesStream
  <2>1. out \in Seq(Bytes) /\ \A k \in 1 .. Len(out) : out[k] = Byte("out", k - 1)
    BY DEF KInv, Types, Stream
  <2>2. DOMAIN out = 1 .. Len(out) /\ out = [k \in DOMAIN out |-> out[k]]
    BY <2>1
  <2> QED
    BY <2>1, <2>2
<1> QED
  BY <1>1, KeccakInvariance, PTL
=============================================================================
