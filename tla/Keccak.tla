------------------------------- MODULE Keccak -------------------------------
(***************************************************************************)
(* The digest context of SHA-3 and SHAKE in OpenSSL's default provider     *)
(* (sha3_prov.c, sha3.c): input arrives in pieces of any length and is     *)
(* absorbed block by block through a buffer, and output may be squeezed in *)
(* pieces of any length.  The permutation is abstract: the state A is what *)
(* has been absorbed and how often it was permuted since, and an output    *)
(* byte is its place in the stream that repeated permutation yields.       *)
(***************************************************************************)
EXTENDS Integers, Sequences, FiniteSetsExt

CONSTANTS
  BlockSize,   \* the rate of the sponge in bytes
  MaxMessage,  \* bound: bytes given
  MaxOutput    \* bound: bytes squeezed

ASSUME KeccakAssumption ==
  BlockSize \in Nat \ {0} /\ MaxMessage \in Nat /\ MaxOutput \in Nat

VARIABLES
  absorbed,   \* A: the bytes of the blocks absorbed so far
  perms,      \* A: the permutations since the first block squeezed
  buf,        \* ctx->buf; bytes not in use keep what they held
  bufsz,      \* ctx->bufsz: input waiting, or output left over at buf's end
  xof_state,  \* ctx->xof_state
  \* history variables
  given,      \* bytes passed to update since the last init
  out         \* bytes returned since the last init

vars == <<absorbed, perms, buf, bufsz, xof_state, given, out>>

Byte(kind, k) == [of |-> kind, at |-> k, end |-> FALSE]
Input(n, len) == [k \in 1 .. len |-> Byte("in", n + k)]
Zero == Byte("zero", 0)

\* memcpy(b + at, s, Len(s))
Copied(b, at, s) ==
  [k \in DOMAIN b |-> IF k \in at + 1 .. at + Len(s) THEN s[k - at] ELSE b[k]]

\* SHA3_squeeze writes len bytes, permuting first if next = 1 and between
\* blocks.
SqueezedFrom(p, next, len) ==
  [k \in 1 .. len |-> Byte("out", (p + next) * BlockSize + k - 1)]
PermsAfter(p, next, len) ==
  IF len = 0 THEN p ELSE p + next + (len - 1) \div BlockSize

Reset ==
  /\ absorbed' = <<>> /\ perms' = 0
  /\ bufsz' = 0
  /\ xof_state' = "init"
  /\ given' = 0 /\ out' = <<>>

Init ==
  /\ absorbed = <<>> /\ perms = 0
  /\ buf = [k \in 1 .. BlockSize |-> Zero] /\ bufsz = 0
  /\ xof_state = "init"
  /\ given = 0 /\ out = <<>>

\* ossl_sha3_reset leaves buf as it is.
KeccakInit == Reset /\ UNCHANGED buf

-----------------------------------------------------------------------------
(* Absorbing *)

\* Mutant: input that exactly fills the buffer is kept there.
FitsExactly(len, rem) == len <= rem

Fits(len, rem) == len < rem

\* The common body of keccak_update and ossl_sha3_update: the buffer is
\* filled and absorbed, then the whole blocks of the rest; what is left
\* waits.  Only keccak_update records that it absorbed, in state.
Absorb(inp, state) ==
  LET taken == IF bufsz = 0 THEN 0 ELSE BlockSize - bufsz
      full  == Copied(buf, bufsz, SubSeq(inp, 1, taken))
      rest  == SubSeq(inp, taken + 1, Len(inp))
      whole == Len(rest) - (Len(rest) % BlockSize)
  IN  IF bufsz # 0 /\ Fits(Len(inp), BlockSize - bufsz)
        THEN /\ buf' = Copied(buf, bufsz, inp)
             /\ bufsz' = bufsz + Len(inp)
             /\ UNCHANGED <<absorbed, xof_state>>
        ELSE /\ absorbed' = absorbed \o (IF bufsz = 0 THEN <<>> ELSE full)
                                     \o SubSeq(rest, 1, whole)
             /\ buf' = Copied(full, 0, SubSeq(rest, whole + 1, Len(rest)))
             /\ bufsz' = Len(rest) - whole
             /\ xof_state' = state

\* Clients do not absorb once output was taken: EVP_DigestUpdate refuses after
\* a final, and after a squeeze doc/designs/xof.md forbids it.
Update(state) ==
  /\ xof_state \in {"init", "absorb"}
  /\ \E len \in 0 .. MaxMessage - given :
       /\ given' = given + len
       /\ IF len = 0 THEN UNCHANGED <<absorbed, buf, bufsz, xof_state>>
                     ELSE Absorb(Input(given, len), state)
  /\ UNCHANGED <<perms, out>>

KeccakUpdate == Update("absorb")
Sha3Update == Update(xof_state)

-----------------------------------------------------------------------------
(* Padding and squeezing *)

\* Mutant: the last bit of the padding is set in the byte after the pad byte.
PaddedOver(num) ==
  [Copied(buf, num, [k \in 1 .. BlockSize - num |-> IF k = 1 THEN Byte("pad", 0) ELSE Zero])
     EXCEPT ![BlockSize] = [Zero EXCEPT !.end = TRUE]]

\* memset, the pad byte, and the last bit: both in one byte if num is
\* BlockSize - 1.
Padded(num) ==
  [Copied(buf, num, [k \in 1 .. BlockSize - num |-> IF k = 1 THEN Byte("pad", 0) ELSE Zero])
     EXCEPT ![BlockSize].end = TRUE]

Lengths == 0 .. MaxOutput - Len(out)

\* keccak_final; a length of 0 finishes nothing.
Final ==
  \E len \in Lengths :
    IF len = 0 \/ xof_state \in {"squeeze", "final"}
      THEN UNCHANGED vars
      ELSE /\ buf' = Padded(bufsz)
           /\ absorbed' = absorbed \o buf'
           /\ xof_state' = "final"
           /\ out' = out \o SqueezedFrom(0, 0, len)
           /\ perms' = PermsAfter(0, 0, len)
           /\ UNCHANGED <<bufsz, given>>

\* Mutant: the left over bytes are taken from the start of the buffer.
LeftoverAtStart(num) == 0

\* Where the left over bytes of the last block squeezed begin.
LeftoverAt(num) == BlockSize - num

\* ossl_sha3_squeeze: left over bytes first, then whole blocks, then a part
\* of a block whose rest is kept.
Squeeze ==
  \E len \in Lengths :
    LET first == xof_state # "squeeze"
        num   == IF first THEN 0 ELSE bufsz
        next  == IF first THEN 0 ELSE 1
        old   == Min({len, num})
        whole == BlockSize * ((len - old) \div BlockSize)
        part  == len - old - whole
        then  == IF whole > 0 THEN 1 ELSE next
        p     == PermsAfter(perms, next, whole)
        block == SqueezedFrom(p, then, BlockSize)
    IN IF len = 0 \/ xof_state = "final"
         THEN UNCHANGED vars
         ELSE /\ absorbed' = IF first THEN absorbed \o Padded(bufsz) ELSE absorbed
              /\ xof_state' = "squeeze"
              /\ out' = out \o SubSeq(buf, LeftoverAt(num) + 1, LeftoverAt(num) + old)
                            \o SqueezedFrom(perms, next, whole)
                            \o SubSeq(block, 1, part)
              /\ perms' = IF part > 0 THEN PermsAfter(p, then, BlockSize) ELSE p
              /\ buf' = IF part > 0 THEN block ELSE IF first THEN Padded(bufsz) ELSE buf
              /\ bufsz' = IF part > 0 THEN BlockSize - part ELSE num - old
              /\ UNCHANGED given

Next == KeccakInit \/ KeccakUpdate \/ Sha3Update \/ Final \/ Squeeze

Spec == Init /\ [][Next]_vars

-----------------------------------------------------------------------------
(* Properties *)

\* However the input was cut into pieces, the blocks absorbed and the bytes
\* waiting in the buffer are the message, and there is room for the padding.
AbsorbsMessage ==
  xof_state \in {"init", "absorb"} =>
    /\ bufsz < BlockSize
    /\ absorbed \o SubSeq(buf, 1, bufsz) = Input(0, given)

\* Once output was taken the sponge has absorbed the message, a pad byte, as
\* many zeros as fill the block, and a last bit, in no more blocks than that
\* takes; the pad byte and the last bit share a byte when only one is free.
AbsorbsPaddedMessage ==
  xof_state \in {"squeeze", "final"} =>
    LET blocks == given \div BlockSize + 1
    IN absorbed = [k \in 1 .. blocks * BlockSize |->
                     [(IF k <= given THEN Byte("in", k)
                       ELSE IF k = given + 1 THEN Byte("pad", 0) ELSE Zero)
                      EXCEPT !.end = (k = blocks * BlockSize)]]

\* However the output is cut into pieces, the bytes returned are those of one
\* long request: no byte of the stream is skipped or returned twice.
SqueezesStream ==
  out = [k \in DOMAIN out |-> Byte("out", k - 1)]
=============================================================================
