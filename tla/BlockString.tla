---------------------------- MODULE BlockString -----------------------------
(***************************************************************************)
(* block_to_string of blockchain.c: a text put together by snprintf calls  *)
(* in a buffer that cannot hold all of it, with compute_hash of the root   *)
(* in between (ComputeHash; its *digest_length is root_hash_size).  Only   *)
(* lengths are modelled: each call appends its text behind the one before, *)
(* so what the buffer holds is known from how much of the text went in.    *)
(***************************************************************************)
EXTENDS ComputeHash

CONSTANTS
  SIZEOF_TIME,  \* sizeof(block->timestamp)
  TimeLengths   \* numbers of characters %ld may need

ASSUME BlockStringAssumption ==
  SIZEOF_TIME \in Nat \ {0} /\ TimeLengths \subseteq 1 .. 20

VARIABLES
  at,     \* the statement of block_to_string
  i,      \* the loop variable
  time,   \* characters of the timestamp
  len,    \* strlen(str_block)
  full,   \* the length without truncation
  cut     \* the length of the text before the root's digits

bvars == <<vars, at, i, time, len, full, cut>>

\* Mutant: the allowance for the labels is forgotten.
BlockSizeTight == HASH_SIZE * 2 + SIZEOF_TIME

BlockSize == HASH_SIZE * 2 + SIZEOF_TIME + 100

\* Mutant: every call is told the whole buffer is free.
WholeBuffer == BlockSize

\* block_size - strlen(str_block)
Room == BlockSize - len

\* snprintf of n characters behind the text: one byte of the room is for
\* the terminating zero.
Snprintf(n) ==
  /\ len' = len + (IF n < Room THEN n ELSE Room - 1)
  /\ full' = full + n

PrevLabel == 21    \* "Previous Block Hash: "
TimeLabel == 12    \* "\nTimestamp: "
RootLabel == 23    \* "Merkle Tree Root Hash: "
NoTree    == 18    \* "Merkle Tree: NULL\n"

BInit ==
  /\ Init
  /\ at = "malloc" /\ i = 0 /\ len = 0 /\ full = 0 /\ cut = 0
  /\ time \in TimeLengths

\* malloc, which may fail, and the first label.
Malloc ==
  /\ at = "malloc"
  /\ \/ at' = "returned_null" /\ UNCHANGED <<len, full>>
     \/ at' = "prev_hash" /\ Snprintf(PrevLabel)
  /\ UNCHANGED <<vars, i, time, cut>>

PrintPrevHash ==
  /\ at = "prev_hash" /\ i < HASH_SIZE
  /\ Snprintf(2)
  /\ i' = i + 1
  /\ UNCHANGED <<vars, at, time, cut>>

\* The timestamp's line; then the tree and its root are looked for.
PrintTime ==
  /\ at = "prev_hash" /\ i = HASH_SIZE
  /\ Snprintf(TimeLabel + time + 1)
  /\ at' \in {"compute_hash", "no_tree"}
  /\ i' = 0
  /\ UNCHANGED <<vars, time, cut>>

\* One step of compute_hash on the root's hash.
HashRoot ==
  /\ at = "compute_hash" /\ Step
  /\ at' = IF pc' = "crashed" THEN "crashed" ELSE at
  /\ UNCHANGED <<i, time, len, full, cut>>

\* Whether compute_hash failed is not asked.
PrintRootLabel ==
  /\ at = "compute_hash" /\ pc = "returned"
  /\ Snprintf(RootLabel)
  /\ cut' = full'
  /\ at' = "root_hash"
  /\ UNCHANGED <<vars, i, time>>

\* Mutant: one digit pair too many.
MoreRootDigitsInclusive == i <= length

MoreRootDigits == i < length

\* The loop goes on when the buffer is full, and reads root_hash[i].
PrintRootHash ==
  /\ at = "root_hash" /\ MoreRootDigits
  /\ Snprintf(2)
  /\ i' = i + 1
  /\ UNCHANGED <<vars, at, time, cut>>

\* Reading past root_hash may fault.
ReadFaults ==
  /\ at = "root_hash" /\ MoreRootDigits
  /\ i >= HASH_SIZE
  /\ at' = "crashed"
  /\ UNCHANGED <<vars, i, time, len, full, cut>>

\* The block has no tree or no root.
PrintNoTree ==
  /\ at = "no_tree"
  /\ Snprintf(NoTree)
  /\ cut' = full'
  /\ at' = "returned"
  /\ UNCHANGED <<vars, i, time>>

Return ==
  /\ at = "root_hash" /\ ~MoreRootDigits
  /\ at' = "returned"
  /\ UNCHANGED <<vars, i, time, len, full, cut>>

BStep ==
  \/ Malloc \/ PrintPrevHash \/ PrintTime \/ HashRoot \/ PrintRootLabel
  \/ PrintRootHash \/ ReadFaults \/ PrintNoTree \/ Return

BEnded == at \in {"returned", "returned_null", "crashed"} /\ UNCHANGED bvars

BNext == BStep \/ BEnded

BSpec == BInit /\ [][BNext]_bvars

-----------------------------------------------------------------------------
(* Properties *)

\* However many calls find the buffer full, the text and its terminating
\* zero stay inside, block_size - strlen never wraps around, and the text is
\* the beginning of the whole text, as long as the buffer allows.
TextIsPrefix == len = IF full < BlockSize THEN full ELSE BlockSize - 1

\* Only digits of the root's hash are ever cut: the previous hash, the
\* timestamp (of any length), the labels and the line for a missing tree are
\* complete.
OnlyRootDigitsCut == cut < BlockSize

\* root_hash is read beyond its end only when compute_hash failed unnoticed
\* and left any value in root_hash_size, and block_to_string faults only then,
\* or inside compute_hash when the root's address is bad.
ReadsInBounds ==
  /\ at = "root_hash" /\ MoreRootDigits /\ ret = 1 => i < HASH_SIZE
  /\ at = "crashed" => IF pc = "crashed" THEN data = "bad" ELSE ret = 0
=============================================================================
