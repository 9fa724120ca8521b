------------------------- MODULE BlockStringProofs --------------------------
(***************************************************************************)
(* compute_hash and block_to_string for every size of hash, of unsigned    *)
(* int and of digest, every pattern of failing library calls and every     *)
(* timestamp.                                                              *)
(***************************************************************************)
EXTENDS BlockString, TLAPS

-----------------------------------------------------------------------------
(* compute_hash *)

HandleStates == {"none", "held", "freed"}

\* Types of compute_hash's state.
HashTypes ==
  /\ pc \in {"new_library", "fetch", "get_size", "new_context", "init", "update",
             "final", "free_context", "free_digest", "free_library", "returned",
             "crashed"}
  /\ data \in {"bytes", "bad"}
  /\ library_context \in HandleStates /\ message_digest \in HandleStates
  /\ digest_context \in HandleStates
  /\ size \in Int /\ length \in Nat /\ written \in Nat /\ ret \in {0, 1}

\* Which handles may be held and which were freed, by the place in the code.
HandlesByPlace ==
  /\ pc \notin {"free_digest", "free_library", "returned"} =>
       digest_context # "freed"
  /\ pc \notin {"free_library", "returned"} => message_digest # "freed"
  /\ pc # "returned" => library_context # "freed"
  /\ pc \in {"free_digest", "free_library", "returned"} => digest_context # "held"
  /\ pc \in {"free_library", "returned"} => message_digest # "held"
  /\ pc = "returned" => library_context # "held"

\* The size passed both tests before the digest is written, and the buffer is
\* written only by the call that succeeds.
SizeChecked ==
  /\ pc \in {"new_context", "init", "update", "final"} =>
       size \in 1 .. HASH_SIZE /\ length = size
  /\ pc \in {"new_library", "fetch", "get_size", "new_context", "init", "update",
             "final", "crashed"} => ret = 0
  /\ IF ret = 1 THEN written \in 1 .. HASH_SIZE /\ length = written
                ELSE written = 0
  /\ pc = "crashed" => data = "bad"

\* The inductive invariant of compute_hash.
HashInv == HashTypes /\ HandlesByPlace /\ SizeChecked

\* The conversion to unsigned int keeps a size that is none of an error, and
\* turns the error value into one beyond HASH_SIZE.
LEMMA UnsignedSize ==
  ASSUME NEW s \in Sizes
  PROVE  /\ s \in Int /\ Unsigned(s) \in Nat
         /\ Unsigned(s) <= HASH_SIZE => Unsigned(s) = s
<1>1. 2^Width \in Int /\ HASH_SIZE \in Nat \ {0} /\ HASH_SIZE < 2^Width - 1
  BY SizeAssumption
<1>2. s = -1 \/ s \in 0 .. 2^Width - 1
  BY SizeAssumption
<1> DEFINE M == 2^Width
<1> HIDE DEF M
<1>3. M \in Nat /\ M > 1 /\ HASH_SIZE < M - 1
  BY <1>1 DEF M
<1>4. CASE s = -1
  <2>1. (-1) % M = M - 1
    BY <1>3
  <2> QED
    BY <1>1, <1>3, <1>4, <2>1 DEF Unsigned, M
<1>5. CASE s \in 0 .. M - 1
  <2>1. s % M = s
    BY <1>3, <1>5
  <2> QED
    BY <1>3, <1>5, <2>1 DEF Unsigned, M
<1> QED
  BY <1>2, <1>4, <1>5 DEF M

\* The sizes that pass both tests are those that fit.
LEMMA GetSizeStep == ASSUME HashInv, GetSize PROVE HashInv'
<1>1. PICK s \in Sizes :
        /\ size' = s
        /\ length' = Unsigned(s)
        /\ Goto(length' > 0 /\ length' <= HASH_SIZE, "new_context")
        /\ UNCHANGED <<data, handles, written, ret>>
  BY DEF GetSize
<1>2. /\ size' \in Int /\ length' \in Nat
      /\ length' <= HASH_SIZE => length' = size'
  BY <1>1, UnsignedSize
<1>3. \/ pc' = "free_context"
      \/ pc' = "new_context" /\ size' \in 1 .. HASH_SIZE /\ length' = size'
  BY <1>1, <1>2, SizeAssumption DEF Goto
<1>4. pc = "get_size" /\ ret = 0 /\ written = 0
  BY DEF GetSize, HashInv, SizeChecked
<1>5. UNCHANGED <<data, library_context, message_digest, digest_context, written, ret>>
  BY <1>1 DEF handles
<1>6. HashTypes' /\ HandlesByPlace'
  BY <1>2, <1>3, <1>4, <1>5 DEF HashInv, HashTypes, HandlesByPlace
<1>7. SizeChecked'
  BY <1>3, <1>4, <1>5 DEF SizeChecked
<1> QED
  BY <1>6, <1>7 DEF HashInv

\* Every step of compute_hash keeps the invariant.
LEMMA HashStep == ASSUME HashInv, Step PROVE HashInv'
<1> USE DEF HashInv, HashTypes, HandleStates, HandlesByPlace, SizeChecked
<1>1. CASE NewLibrary
  BY <1>1 DEF NewLibrary, Goto, Acquired
<1>2. CASE Fetch
  BY <1>2 DEF Fetch, Goto, Acquired
<1>3. CASE GetSize
  BY <1>3, GetSizeStep
<1>4. CASE NewContext
  BY <1>4 DEF NewContext, Goto, Acquired
<1>5. CASE DigestInit
  BY <1>5 DEF DigestInit, Goto, handles
<1>6. CASE DigestUpdate
  BY <1>6 DEF DigestUpdate, Goto, handles
<1>7. CASE DigestFinal
  BY <1>7, SizeAssumption DEF DigestFinal, handles
<1>8. CASE FreeContext
  BY <1>8 DEF FreeContext, Freed
<1>9. CASE FreeDigest
  BY <1>9 DEF FreeDigest, Freed
<1>10. CASE FreeLibrary
  BY <1>10 DEF FreeLibrary, Freed
<1> QED
  BY <1>1, <1>2, <1>3, <1>4, <1>5, <1>6, <1>7, <1>8, <1>9, <1>10 DEF Step

\* compute_hash starts with nothing acquired.
LEMMA HashInit == Init => HashInv
BY SizeAssumption
DEF Init, HashInv, HashTypes, HandleStates, HandlesByPlace, SizeChecked

\* A step of nobody keeps it.
LEMMA HashStutter == ASSUME HashInv, UNCHANGED vars PROVE HashInv'
BY DEF vars, handles, HashInv, HashTypes, HandlesByPlace, SizeChecked

\* The invariant gives the two properties of compute_hash.
LEMMA HashInvImplies == HashInv => EverythingFreed /\ WritesFitBuffer
<1> SUFFICES ASSUME HashInv PROVE EverythingFreed /\ WritesFitBuffer
  OBVIOUS
<1>1. EverythingFreed
  BY DEF HashInv, HashTypes, HandleStates, HandlesByPlace, EverythingFreed
<1>2. WritesFitBuffer
  BY SizeAssumption DEF HashInv, HashTypes, SizeChecked, WritesFitBuffer
<1> QED
  BY <1>1, <1>2

\* compute_hash alone: whatever call fails, everything acquired is freed, and
\* the buffer is never overrun.
THEOREM ComputeHashSafe == Spec => [](EverythingFreed /\ WritesFitBuffer)
<1>1. HashInv /\ [Next]_vars => HashInv'
  BY HashStep, HashStutter DEF Next, Ended
<1> QED
  BY <1>1, HashInit, HashInvImplies, PTL DEF Spec

-----------------------------------------------------------------------------
(* block_to_string *)

\* Types of block_to_string's state.
StringTypes ==
  /\ at \in {"malloc", "prev_hash", "compute_hash", "root_hash", "no_tree", "returned",
             "returned_null", "crashed"}
  /\ i \in Nat /\ full \in Nat /\ time \in 1 .. 20

\* The length of the text up to the timestamp's line.
TimeEnd == PrevLabel + 2 * HASH_SIZE + TimeLabel + time + 1

\* How long the text would be, by the place in the code.
TextSoFar ==
  /\ at = "malloc" => full = 0 /\ i = 0
  /\ at = "prev_hash" => full = PrevLabel + 2 * i /\ i <= HASH_SIZE
  /\ at \in {"compute_hash", "no_tree"} => full = TimeEnd /\ i = 0

\* compute_hash runs to its end before its digest is printed.
HashDone == at = "root_hash" => pc = "returned"

\* The inductive invariant of block_to_string.
BInv ==
  /\ HashInv /\ StringTypes /\ TextSoFar /\ HashDone
  /\ TextIsPrefix /\ OnlyRootDigitsCut /\ ReadsInBounds

\* Sizes are numbers.
LEMMA Numbers ==
  /\ HASH_SIZE \in Nat \ {0} /\ SIZEOF_TIME \in Nat \ {0}
  /\ BlockSize \in Nat /\ BlockSize = 2 * HASH_SIZE + SIZEOF_TIME + 100
  /\ TimeLengths \subseteq 1 .. 20
BY SizeAssumption, BlockStringAssumption DEF BlockSize

\* snprintf keeps the text a beginning of the whole text.
LEMMA SnprintfStep ==
  ASSUME full \in Nat, TextIsPrefix, NEW n \in Nat, Snprintf(n)
  PROVE  full' \in Nat /\ full' = full + n /\ TextIsPrefix'
<1>1. BlockSize \in Nat /\ BlockSize > 0 /\ BlockSize' = BlockSize
  BY Numbers DEF BlockSize
<1> HIDE DEF BlockSize
<1>2. full' = full + n /\ len' = len + (IF n < BlockSize - len THEN n ELSE BlockSize - len - 1)
  BY DEF Snprintf, Room
<1>3. len = IF full < BlockSize THEN full ELSE BlockSize - 1
  BY DEF TextIsPrefix
<1>4. len' = IF full + n < BlockSize THEN full + n ELSE BlockSize - 1
  BY <1>1, <1>2, <1>3
<1> QED
  BY <1>1, <1>2, <1>4 DEF TextIsPrefix

\* What a step that leaves compute_hash alone has to show.
LEMMA OutsideHash ==
  ASSUME BInv, UNCHANGED vars, StringTypes', TextSoFar', HashDone',
         TextIsPrefix', OnlyRootDigitsCut', ReadsInBounds'
  PROVE  BInv'
BY HashStutter DEF BInv

\* The buffer, and the loop over the previous block's hash.
LEMMA PrevHashStep == ASSUME BInv, Malloc \/ PrintPrevHash PROVE BInv'
<1> USE Numbers
<1> USE DEF StringTypes, TextSoFar, HashDone, PrevLabel
<1>1. full \in Nat /\ i \in Nat /\ TextIsPrefix
  BY DEF BInv
<1>2. at' # "crashed" /\ at' # "root_hash" /\ UNCHANGED <<vars, cut, time>>
  BY DEF Malloc, PrintPrevHash
<1>3. OnlyRootDigitsCut' /\ ReadsInBounds' /\ HashDone'
  BY <1>2 DEF BInv, OnlyRootDigitsCut, ReadsInBounds, BlockSize
<1>4. CASE Malloc /\ at' = "returned_null"
  <2>1. UNCHANGED <<len, full, i>>
    BY <1>4 DEF Malloc
  <2>2. TextIsPrefix'
    BY <1>1, <2>1 DEF TextIsPrefix, BlockSize
  <2> QED
    BY <1>2, <1>3, <1>4, <2>1, <2>2, OutsideHash DEF BInv
<1>5. CASE Malloc /\ at' # "returned_null"
  <2>1. at = "malloc" /\ at' = "prev_hash" /\ Snprintf(21) /\ i' = i
    BY <1>5 DEF Malloc
  <2>2. full' \in Nat /\ full' = full + 21 /\ TextIsPrefix'
    BY <1>1, <2>1, SnprintfStep
  <2>3. full = 0 /\ i = 0
    BY <2>1 DEF BInv
  <2> QED
    BY <1>2, <1>3, <2>1, <2>2, <2>3, OutsideHash DEF BInv
<1>6. CASE PrintPrevHash
  <2>1. at = "prev_hash" /\ at' = at /\ Snprintf(2) /\ i' = i + 1 /\ i < HASH_SIZE
    BY <1>6 DEF PrintPrevHash
  <2>2. full' \in Nat /\ full' = full + 2 /\ TextIsPrefix'
    BY <1>1, <2>1, SnprintfStep
  <2>3. full = 21 + 2 * i
    BY <2>1 DEF BInv
  <2> QED
    BY <1>1, <1>2, <1>3, <2>1, <2>2, <2>3, OutsideHash DEF BInv
<1> QED
  BY <1>4, <1>5, <1>6

\* The timestamp's line, the last one before the root's.
LEMMA TimeStep == ASSUME BInv, PrintTime PROVE BInv'
<1> USE Numbers
<1> USE DEF StringTypes, TextSoFar, HashDone, PrevLabel, TimeLabel, TimeEnd
<1>1. full \in Nat /\ TextIsPrefix /\ time \in 1 .. 20
  BY DEF BInv
<1>2. /\ at = "prev_hash" /\ at' \in {"compute_hash", "no_tree"} /\ i = HASH_SIZE /\ i' = 0
      /\ Snprintf(12 + time + 1) /\ UNCHANGED <<vars, cut, time>>
  BY DEF PrintTime
<1>3. OnlyRootDigitsCut' /\ ReadsInBounds' /\ HashDone'
  BY <1>2 DEF BInv, OnlyRootDigitsCut, ReadsInBounds, BlockSize
<1>4. 12 + time + 1 \in Nat
  BY <1>1
<1>5. full' \in Nat /\ full' = full + (12 + time + 1) /\ TextIsPrefix'
  BY <1>1, <1>2, <1>4, SnprintfStep
<1>6. full = 21 + 2 * HASH_SIZE
  BY <1>2 DEF BInv
<1>7. StringTypes' /\ TextSoFar'
  BY <1>1, <1>2, <1>5, <1>6
<1> QED
  BY <1>2, <1>3, <1>5, <1>7, OutsideHash

\* compute_hash of the root.
LEMMA HashRootStep == ASSUME BInv, HashRoot PROVE BInv'
<1>1. Step /\ at = "compute_hash" /\ UNCHANGED <<i, time, len, full, cut>>
  BY DEF HashRoot
<1>2. HashInv'
  BY <1>1, HashStep DEF BInv
<1>3. \/ at' = at /\ pc' # "crashed"
      \/ at' = "crashed" /\ pc' = "crashed" /\ data' = "bad"
  BY <1>1, <1>2 DEF HashRoot, HashInv, SizeChecked
<1>4. StringTypes' /\ HashDone'
  BY <1>1, <1>3 DEF BInv, StringTypes, HashDone
<1>5. TextSoFar'
  BY <1>1, <1>3 DEF BInv, TextSoFar, TimeEnd
<1>6. TextIsPrefix' /\ OnlyRootDigitsCut'
  BY <1>1 DEF BInv, TextIsPrefix, OnlyRootDigitsCut, BlockSize
<1>7. ReadsInBounds'
  BY <1>1, <1>3 DEF ReadsInBounds
<1> QED
  BY <1>2, <1>4, <1>5, <1>6, <1>7 DEF BInv

\* The root's label, or the line for a missing tree: the text so far fits,
\* however long the timestamp.
LEMMA LabelStep == ASSUME BInv, PrintRootLabel \/ PrintNoTree PROVE BInv'
<1> USE Numbers
<1>1. full \in Nat /\ TextIsPrefix /\ time \in 1 .. 20 /\ i \in Nat
  BY DEF BInv, StringTypes
<1>2. PICK n \in {18, 23} : Snprintf(n)
  BY DEF PrintRootLabel, PrintNoTree, RootLabel, NoTree
<1>3. /\ \/ at = "compute_hash" /\ at' = "root_hash" /\ pc' = "returned"
         \/ at = "no_tree" /\ at' = "returned"
      /\ UNCHANGED <<vars, i, time>> /\ cut' = full'
  BY DEF PrintRootLabel, PrintNoTree, vars
<1>4. full' \in Nat /\ full' = full + n /\ TextIsPrefix'
  BY <1>1, <1>2, SnprintfStep
<1>5. full = 34 + 2 * HASH_SIZE + time /\ i = 0
  BY <1>1, <1>3 DEF BInv, TextSoFar, TimeEnd, PrevLabel, TimeLabel
<1>6. OnlyRootDigitsCut'
  BY <1>1, <1>2, <1>3, <1>4, <1>5 DEF OnlyRootDigitsCut, BlockSize
<1>7. StringTypes' /\ TextSoFar' /\ HashDone'
  BY <1>1, <1>3, <1>4 DEF StringTypes, TextSoFar, HashDone
<1>8. ReadsInBounds'
  BY <1>3, <1>5 DEF ReadsInBounds
<1> QED
  BY <1>3, <1>4, <1>6, <1>7, <1>8, OutsideHash

\* The loop over the root's digits: a digest that was computed is no longer
\* than the buffer it is read from.
LEMMA RootHashStep == ASSUME BInv, PrintRootHash \/ ReadFaults \/ Return PROVE BInv'
<1> USE Numbers
<1>1. full \in Nat /\ TextIsPrefix /\ time \in 1 .. 20 /\ i \in Nat
  BY DEF BInv, StringTypes
<1>2. at = "root_hash" /\ pc = "returned" /\ UNCHANGED <<vars, time, cut>>
  BY DEF PrintRootHash, ReadFaults, Return, BInv, HashDone
<1>3. OnlyRootDigitsCut'
  BY <1>2 DEF BInv, OnlyRootDigitsCut, BlockSize
<1>4. ret \in {0, 1} /\ length \in Nat /\ (ret = 1 => length <= HASH_SIZE)
  BY DEF BInv, HashInv, HashTypes, SizeChecked
<1>5. UNCHANGED <<pc, data, ret, length>>
  BY <1>2 DEF vars
<1>6. CASE PrintRootHash
  <2>1. at' = at /\ Snprintf(2) /\ i' = i + 1
    BY <1>6 DEF PrintRootHash
  <2>2. full' \in Nat /\ TextIsPrefix'
    BY <1>1, <2>1, SnprintfStep
  <2>3. StringTypes' /\ TextSoFar' /\ HashDone'
    BY <1>1, <1>2, <1>5, <2>1, <2>2 DEF StringTypes, TextSoFar, HashDone
  <2>4. ReadsInBounds'
    BY <1>1, <1>2, <1>4, <1>5, <2>1 DEF ReadsInBounds, MoreRootDigits
  <2> QED
    BY <1>2, <1>3, <2>2, <2>3, <2>4, OutsideHash
<1>7. CASE ReadFaults \/ Return
  <2>1. /\ UNCHANGED <<i, len, full>>
        /\ at' = "returned" \/ (at' = "crashed" /\ i >= HASH_SIZE /\ i < length)
    BY <1>7 DEF ReadFaults, Return, MoreRootDigits
  <2>2. TextIsPrefix'
    BY <1>1, <2>1 DEF TextIsPrefix, BlockSize
  <2>3. StringTypes' /\ TextSoFar' /\ HashDone'
    BY <1>1, <1>2, <2>1 DEF StringTypes, TextSoFar, HashDone
  <2>4. ReadsInBounds'
    BY <1>1, <1>2, <1>4, <1>5, <2>1 DEF ReadsInBounds
  <2> QED
    BY <1>2, <1>3, <2>2, <2>3, <2>4, OutsideHash
<1> QED
  BY <1>6, <1>7

\* block_to_string starts with no text.
LEMMA StringInit == BInit => BInv
<1> SUFFICES ASSUME BInit PROVE BInv
  OBVIOUS
<1>1. HashInv
  BY HashInit DEF BInit
<1>2. at = "malloc" /\ i = 0 /\ len = 0 /\ full = 0 /\ cut = 0 /\ time \in 1 .. 20
  BY Numbers DEF BInit
<1>3. StringTypes /\ TextSoFar /\ HashDone
  BY <1>2 DEF StringTypes, TextSoFar, HashDone
<1>4. TextIsPrefix /\ OnlyRootDigitsCut
  BY <1>2, Numbers DEF TextIsPrefix, OnlyRootDigitsCut
<1>5. ReadsInBounds
  BY <1>2 DEF ReadsInBounds
<1> QED
  BY <1>1, <1>3, <1>4, <1>5 DEF BInv

\* Every step of block_to_string keeps the invariant.
LEMMA StringStep == ASSUME BInv, [BNext]_bvars PROVE BInv'
<1>1. CASE BStep
  BY <1>1, PrevHashStep, TimeStep, HashRootStep, LabelStep, RootHashStep DEF BStep
<1>2. CASE UNCHANGED bvars
  <2>1. UNCHANGED vars /\ UNCHANGED <<at, i, time, len, full, cut>>
    BY <1>2 DEF bvars
  <2>2. UNCHANGED <<pc, data, ret, length>>
    BY <2>1 DEF vars
  <2>3. StringTypes' /\ TextSoFar' /\ HashDone'
    BY <2>1, <2>2 DEF BInv, StringTypes, TextSoFar, HashDone, TimeEnd
  <2>4. TextIsPrefix' /\ OnlyRootDigitsCut'
    BY <2>1 DEF BInv, TextIsPrefix, OnlyRootDigitsCut, BlockSize
  <2>5. ReadsInBounds'
    BY <2>1, <2>2 DEF BInv, ReadsInBounds, MoreRootDigits
  <2> QED
    BY <2>1, <2>3, <2>4, <2>5, OutsideHash
<1> QED
  BY <1>1, <1>2 DEF BNext, BEnded

\* The inductive invariant of block_to_string holds throughout.
THEOREM StringInvariance == BSpec => []BInv
BY StringInit, StringStep, PTL DEF BSpec

\* However many calls find the buffer full, what it holds is the beginning of
\* the whole text, with the terminating zero inside the buffer.
THEOREM TextCorrect == BSpec => []TextIsPrefix
<1>1. BInv => TextIsPrefix
  BY DEF BInv
<1> QED
  BY <1>1, StringInvariance, PTL

\* For every size of hash and of time_t, and every timestamp, the buffer is
\* large enough for everything but the root's digits.
THEOREM DigitsCut == BSpec => []OnlyRootDigitsCut
<1>1. BInv => OnlyRootDigitsCut
  BY DEF BInv
<1> QED
  BY <1>1, StringInvariance, PTL

\* root_hash is left only when compute_hash failed unnoticed.
THEOREM RootReads == BSpec => []ReadsInBounds
<1>1. BInv => ReadsInBounds
  BY DEF BInv
<1> QED
  BY <1>1, StringInvariance, PTL

\* compute_hash called by block_to_string frees what it acquired, whatever
\* call fails.
THEOREM HashFrees == BSpec => []EverythingFreed
<1>1. BInv => EverythingFreed
  BY HashInvImplies DEF BInv
<1> QED
  BY <1>1, StringInvariance, PTL

\* compute_hash called by block_to_string never overruns root_hash, and no
\* error value of EVP_MD_get_size gets as far as the digest.
THEOREM HashFits == BSpec => []WritesFitBuffer
<1>1. BInv => WritesFitBuffer
  BY HashInvImplies DEF BInv
<1> QED
  BY <1>1, StringInvariance, PTL
=============================================================================
