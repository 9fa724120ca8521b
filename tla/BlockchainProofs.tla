-------------------------- MODULE BlockchainProofs --------------------------
(***************************************************************************)
(* Proofs about blockchain.c for every number of blocks, every transaction *)
(* list and every pattern of failing library calls.                        *)
(***************************************************************************)
EXTENDS Blockchain, SequenceTheorems, TLAPS

\* A library call fails or it does not.
LEMMA FailuresAreBoolean == Failures \subseteq BOOLEAN
BY MayFailAssumption DEF Failures

\* create_tree gives its caller one of the known trees, and a valid one when
\* nothing fails and there is a transaction.
LEMMA TreeOutcomes ==
  ASSUME NEW k, NEW f \in BOOLEAN
  PROVE  /\ CreateTreeOutcomes(k, f) \ {"crash"} \subseteq TreeStates
         /\ ~f /\ k # 0 => CreateTreeOutcomes(k, f) = {"valid"}
         /\ ~f => "crash" \notin CreateTreeOutcomes(k, f)
BY DEF CreateTreeOutcomes, TreeStates

\* On a block with a tree, calculate_block_hash without failures returns the
\* digest of the block.
LEMMA CleanHash ==
  ASSUME NEW a, body[a].tree = "valid"
  PROVE  CalculateBlockHash(a, FALSE) = {BlockHash(body[a].prev, body[a].root)}
BY DEF CalculateBlockHash

\* The fields of a block.
Fielded(b) == DOMAIN b = {"prev", "time", "tree", "root"} /\ b.tree \in TreeStates

\* A block that is made, and freed memory, have them.
LEMMA BodiesFielded ==
  /\ Fielded(NoBody)
  /\ \A prev, time, root : \A tree \in TreeStates :
       Fielded(Body(prev, time, tree, root))
BY DEF Fielded, NoBody, Body, TreeStates

\* The invariant holds of the zeroed struct main starts with.
LEMMA InitIInv == Init => IInv
<1> SUFFICES ASSUME Init PROVE IInv
  OBVIOUS
<1>1. TypeOK
  <2>1. Fielded(NoBody)
    BY BodiesFielded
  <2>2. body = [a \in Addr |-> body[a]] /\ \A a \in Addr : body[a] = NoBody
    BY DEF Init
  <2>3. \A a \in Addr : Fielded(body[a])
    BY <2>1, <2>2
  <2>4. body = [a \in Addr |-> body[a]]
    BY <2>2
  <2>5. next \in [Addr -> Addr \cup {Null}] /\ chain \in Seq(Addr) /\ count \in Nat
    BY DEF Init
  <2>6. clean \in BOOLEAN /\ degraded \in BOOLEAN
    BY DEF Init
  <2>7. /\ alloc \subseteq Addr /\ lost \subseteq Addr
        /\ {head, tail, curr} \subseteq Addr \cup {Null}
        /\ op = "idle" /\ ret = "void"
    BY DEF Init
  <2> QED
    BY <2>3, <2>4, <2>5, <2>6, <2>7 DEF TypeOK, Fielded
<1>2. ListShape /\ NoBlockLeaks /\ CursorInChain
  BY DEF Init, ListShape, NoBlockLeaks, CursorInChain, Range
<1>3. LinksHold /\ TreesHold /\ CrashOnlyWhenDegraded
  BY DEF Init, LinksHold, TreesHold, AllTreesValid, CrashOnlyWhenDegraded
<1>4. CheckedSoFar /\ VerdictIsRight
  BY DEF Init, CheckedSoFar, VerdictIsRight
<1> QED
  BY <1>1, <1>2, <1>3, <1>4 DEF IInv, ShapeInv

\* A step keeps what holds of any list, and the links if they hold.
Kept == ShapeInv' /\ (LinksHold => LinksHold')

-----------------------------------------------------------------------------
(* Steps that leave the heap and the list alone *)

\* The blocks and the list are as they were.
SameHeap == UNCHANGED <<alloc, next, body, head, tail, count, chain, lost>>

\* Such a step keeps the list, the links and what is known about them.
LEMMA SameHeapKeeps ==
  ASSUME ShapeInv, SameHeap, Standing' => Standing, degraded => degraded'
  PROVE  /\ ListShape' /\ NoBlockLeaks' /\ TreesHold' /\ (LinksHold => LinksHold')
         /\ AllTreesValid' <=> AllTreesValid
         /\ \A i : Link(i)' <=> Link(i)
<1>1. AllTreesValid' <=> AllTreesValid
  BY DEF SameHeap, AllTreesValid
<1>2. \A i : Link(i)' <=> Link(i)
  BY DEF SameHeap, Link
<1>3. ListShape' /\ NoBlockLeaks'
  BY DEF ShapeInv, SameHeap, ListShape, NoBlockLeaks
<1>4. TreesHold' /\ (LinksHold => LinksHold')
  BY <1>1, <1>2 DEF ShapeInv, SameHeap, TreesHold, LinksHold
<1> QED
  BY <1>1, <1>2, <1>3, <1>4

\* A block of the list has an index, and the block after it is next_block.
LEMMA BlockInChain ==
  ASSUME ShapeInv, NEW a \in Range(chain)
  PROVE  \E k \in 1 .. Len(chain) :
           /\ chain[k] = a
           /\ next[a] = IF k = Len(chain) THEN Null ELSE chain[k + 1]
BY DEF ShapeInv, TypeOK, ListShape, Range

\* When nothing went wrong, the blocks of the list have their trees.
LEMMA CleanTrees ==
  ASSUME ShapeInv, ~degraded, NEW a \in Range(chain)
  PROVE  body[a].tree = "valid"
BY DEF ShapeInv, TreesHold, AllTreesValid, Range

\* The calls that return or crash at once.
LEMMA CallKeepsHeap ==
  ASSUME ShapeInv, SameHeap, op = "idle", op' \in {"idle", "crashed"},
         UNCHANGED <<curr, clean>>, ret' \in {"void", "null"} \/ op' = "crashed",
         ret' \in {"void", "null", ret},
         degraded' \in BOOLEAN, degraded => degraded',
         op' = "crashed" => degraded' \/ tail = Null
  PROVE  Kept
<1>1. Standing' => Standing
  BY DEF Standing
<1>2. TypeOK'
  BY DEF ShapeInv, TypeOK, SameHeap
<1>3. ListShape' /\ NoBlockLeaks' /\ TreesHold' /\ (LinksHold => LinksHold')
  BY <1>1, SameHeapKeeps
<1>4. CursorInChain' /\ CrashOnlyWhenDegraded'
  BY DEF CursorInChain, CrashOnlyWhenDegraded, SameHeap
<1>5. CheckedSoFar' /\ VerdictIsRight'
  BY DEF CheckedSoFar, VerdictIsRight
<1> QED
  BY <1>2, <1>3, <1>4, <1>5 DEF ShapeInv, Kept

\* create_blockchain and create_block when they give up or fault.
LEMMA FailedCalls ==
  ASSUME ShapeInv,
         \/ CreateBlockchainFails \/ CreateBlockchainCrashes \/ CreateBlockFails
         \/ \E txs \in TxLists : CreateBlockCrashes(txs)
  PROVE  Kept
<1>1. CASE CreateBlockchainFails
  BY <1>1, CallKeepsHeap DEF CreateBlockchainFails, SameHeap, memory, list
<1>2. CASE CreateBlockchainCrashes
  BY <1>2, CallKeepsHeap DEF CreateBlockchainCrashes, SameHeap, memory, list
<1>3. CASE CreateBlockFails
  BY <1>3, CallKeepsHeap
  DEF CreateBlockFails, SameHeap, memory, list, history, ShapeInv, TypeOK
<1>4. ASSUME NEW txs \in TxLists, CreateBlockCrashes(txs) PROVE Kept
  <2>1. PICK failed \in BOOLEAN :
          /\ \/ HashMayCrash(tail)
             \/ "crash" \in CreateTreeOutcomes(Len(txs), failed)
          /\ degraded' = (degraded \/ failed)
    BY <1>4, FailuresAreBoolean DEF CreateBlockCrashes
  <2>2. HashMayCrash(tail) => degraded \/ tail = Null
    <3>1. tail # Null => tail \in Range(chain)
      BY <1>4 DEF CreateBlockCrashes, ShapeInv, TypeOK, ListShape, Standing, Range
    <3> QED
      BY <3>1, CleanTrees DEF HashMayCrash
  <2>3. degraded' \/ tail = Null
    BY <2>1, <2>2, TreeOutcomes
  <2>4. degraded' \in BOOLEAN /\ (degraded => degraded')
    BY <2>1 DEF ShapeInv, TypeOK
  <2> QED
    BY <1>4, <2>3, <2>4, CallKeepsHeap
    DEF CreateBlockCrashes, SameHeap, memory, list
<1> QED
  BY <1>1, <1>2, <1>3, <1>4

-----------------------------------------------------------------------------
(* validate_blockchain *)

\* validate_blockchain starts at head, with nothing to have checked yet.
LEMMA ValidateBeginStep == ASSUME ShapeInv, ValidateBegin PROVE Kept
<1>1. SameHeap /\ UNCHANGED degraded /\ Standing' /\ Standing
  BY DEF ValidateBegin, SameHeap, memory, list, Standing
<1>2. ListShape' /\ NoBlockLeaks' /\ TreesHold' /\ (LinksHold => LinksHold')
  BY <1>1, SameHeapKeeps
<1>3. TypeOK'
  BY DEF ShapeInv, TypeOK, ValidateBegin, memory, list
<1>4. /\ head = Null <=> chain = <<>>
      /\ chain # <<>> => head = chain[1] /\ head \in Range(chain)
  BY NullAssumption DEF ShapeInv, TypeOK, ListShape, ValidateBegin, Standing, Range
<1>5. CursorInChain' /\ CrashOnlyWhenDegraded'
  BY <1>4 DEF CursorInChain, CrashOnlyWhenDegraded, ValidateBegin
<1>6. CheckedSoFar'
  <2> SUFFICES ASSUME op' = "validating", NEW k \in DOMAIN chain, chain[k] = head
               PROVE  k = 1
    BY <1>1, <1>4 DEF CheckedSoFar, ValidateBegin, SameHeap
  <2> QED
    BY <1>4 DEF ValidateBegin, ShapeInv, TypeOK, NoBlockLeaks
<1>7. VerdictIsRight'
  BY <1>4 DEF VerdictIsRight, ValidateBegin
<1> QED
  BY <1>2, <1>3, <1>5, <1>6, <1>7 DEF ShapeInv, Kept

\* The loop goes on exactly when the link it looks at holds, unless a hash
\* failed.
LEMMA ValidateLinkStep == ASSUME ShapeInv, ValidateLink PROVE Kept
<1>1. SameHeap /\ UNCHANGED degraded /\ Standing' /\ Standing
  BY DEF ValidateLink, SameHeap, memory, list, Standing
<1>2. /\ ListShape' /\ NoBlockLeaks' /\ TreesHold' /\ (LinksHold => LinksHold')
      /\ AllTreesValid' <=> AllTreesValid
      /\ \A i : Link(i)' <=> Link(i)
  BY <1>1, SameHeapKeeps
<1>3. PICK failed \in BOOLEAN :
        /\ clean' = (clean /\ ~failed)
        /\ \E digest \in CalculateBlockHash(curr, failed) :
             IF body[next[curr]].prev = digest
               THEN curr' = next[curr] /\ UNCHANGED <<op, ret>>
               ELSE curr' = Null /\ op' = "idle" /\ ret' = "false"
  BY FailuresAreBoolean DEF ValidateLink
<1>4. PICK k \in 1 .. Len(chain) :
        /\ chain[k] = curr
        /\ next[curr] = IF k = Len(chain) THEN Null ELSE chain[k + 1]
  BY BlockInChain DEF ValidateLink, ShapeInv, CursorInChain
<1>5. k \in 1 .. Len(chain) - 1 /\ next[curr] = chain[k + 1]
  BY <1>4 DEF ValidateLink, ShapeInv, TypeOK
<1>6. TypeOK'
  <2>1. clean' \in BOOLEAN /\ ret' \in {ret, "false"} /\ op' \in {op, "idle"}
    BY <1>3 DEF ShapeInv, TypeOK
  <2>2. curr' \in Addr \cup {Null}
    BY <1>3, <1>5 DEF ShapeInv, TypeOK
  <2> QED
    BY <1>1, <2>1, <2>2 DEF ShapeInv, TypeOK, SameHeap
<1>7. CursorInChain' /\ CrashOnlyWhenDegraded'
  <2>1. next[curr] \in Range(chain)
    BY <1>5 DEF ShapeInv, TypeOK, Range
  <2> QED
    BY <1>1, <1>3, <2>1
    DEF ValidateLink, SameHeap, CursorInChain, CrashOnlyWhenDegraded
<1>8. ASSUME clean', AllTreesValid
      PROVE  IF Link(k) THEN curr' = chain[k + 1] /\ op' = "validating"
                        ELSE op' = "idle" /\ ret' = "false"
  <2>1. ~failed
    BY <1>3, <1>8
  <2>2. body[curr].tree = "valid"
    <3>1. k \in DOMAIN chain
      BY <1>4 DEF ShapeInv, TypeOK
    <3> QED
      BY <1>4, <1>8, <3>1 DEF AllTreesValid
  <2>3. CalculateBlockHash(curr, failed) = {BlockHash(body[curr].prev, body[curr].root)}
    BY <1>3, <2>1, <2>2, CleanHash
  <2> QED
    BY <1>3, <1>4, <1>5, <2>3 DEF Link, ValidateLink
<1>9. CheckedSoFar'
  <2> SUFFICES ASSUME op' = "validating", clean', AllTreesValid,
                      NEW m \in DOMAIN chain, chain[m] = curr',
                      NEW i \in 1 .. m - 1
               PROVE  Link(i)
    BY <1>1, <1>2 DEF CheckedSoFar, SameHeap
  <2>1. Link(k) /\ curr' = chain[k + 1]
    BY <1>8
  <2>2. m = k + 1
    BY <1>5, <2>1 DEF ShapeInv, TypeOK, NoBlockLeaks
  <2>3. clean
    BY <1>3
  <2>4. \A h \in 1 .. k - 1 : Link(h)
    BY <1>4, <2>3 DEF ShapeInv, TypeOK, CheckedSoFar, ValidateLink
  <2> QED
    BY <1>5, <2>1, <2>2, <2>4
<1>10. VerdictIsRight'
  BY <1>1, <1>2, <1>5, <1>8 DEF VerdictIsRight, SameHeap
<1> QED
  BY <1>2, <1>6, <1>7, <1>9, <1>10 DEF ShapeInv, Kept

\* The loop ends at the last block, with every link checked.
LEMMA ValidateEndStep == ASSUME ShapeInv, ValidateEnd PROVE Kept
<1>1. SameHeap /\ UNCHANGED <<degraded, clean>> /\ Standing' /\ Standing
  BY DEF ValidateEnd, SameHeap, memory, list, history, Standing
<1>2. /\ ListShape' /\ NoBlockLeaks' /\ TreesHold' /\ (LinksHold => LinksHold')
      /\ AllTreesValid' <=> AllTreesValid
      /\ \A i : Link(i)' <=> Link(i)
  BY <1>1, SameHeapKeeps
<1>3. TypeOK'
  BY <1>1 DEF ShapeInv, TypeOK, ValidateEnd, SameHeap
<1>4. CursorInChain' /\ CrashOnlyWhenDegraded' /\ CheckedSoFar'
  BY DEF ValidateEnd, CursorInChain, CrashOnlyWhenDegraded, CheckedSoFar
<1>5. VerdictIsRight'
  <2>1. PICK k \in 1 .. Len(chain) :
          /\ chain[k] = curr
          /\ next[curr] = IF k = Len(chain) THEN Null ELSE chain[k + 1]
    BY BlockInChain DEF ValidateEnd, ShapeInv, CursorInChain
  <2>2. k = Len(chain) /\ k \in DOMAIN chain
    BY <2>1, NullAssumption DEF ValidateEnd, ShapeInv, TypeOK
  <2>3. clean /\ AllTreesValid => \A i \in 1 .. Len(chain) - 1 : Link(i)
    BY <2>1, <2>2 DEF ValidateEnd, ShapeInv, CheckedSoFar
  <2> QED
    BY <1>1, <1>2, <2>3 DEF ValidateEnd, VerdictIsRight, SameHeap
<1> QED
  BY <1>2, <1>3, <1>4, <1>5 DEF ShapeInv, Kept

\* validate_blockchain faults only on a block without a tree.
LEMMA ValidateCrashesStep == ASSUME ShapeInv, ValidateCrashes PROVE Kept
<1>1. /\ SameHeap /\ UNCHANGED <<degraded, clean, curr, ret>>
      /\ op' = "crashed" /\ ~Standing'
  BY DEF ValidateCrashes, SameHeap, memory, list, history, Standing
<1>2. ListShape' /\ NoBlockLeaks' /\ TreesHold' /\ (LinksHold => LinksHold')
  BY <1>1, SameHeapKeeps
<1>3. TypeOK'
  BY <1>1 DEF ShapeInv, TypeOK, SameHeap
<1>4. curr \in Range(chain) /\ curr # Null
  BY NullAssumption DEF ValidateCrashes, ShapeInv, TypeOK, CursorInChain, Range
<1>5. CrashOnlyWhenDegraded'
  BY <1>1, <1>4, CleanTrees DEF ValidateCrashes, HashMayCrash, CrashOnlyWhenDegraded
<1>6. CursorInChain' /\ CheckedSoFar' /\ VerdictIsRight'
  BY <1>1 DEF CursorInChain, CheckedSoFar, VerdictIsRight
<1> QED
  BY <1>2, <1>3, <1>5, <1>6 DEF ShapeInv, Kept

-----------------------------------------------------------------------------
(* print_blockchain *)

\* print_blockchain starts at head.
LEMMA PrintBeginStep == ASSUME ShapeInv, PrintBegin PROVE Kept
<1>1. SameHeap /\ UNCHANGED <<degraded, clean>> /\ Standing' /\ Standing
  BY DEF PrintBegin, SameHeap, memory, list, history, Standing
<1>2. ListShape' /\ NoBlockLeaks' /\ TreesHold' /\ (LinksHold => LinksHold')
  BY <1>1, SameHeapKeeps
<1>3. TypeOK'
  BY <1>1 DEF ShapeInv, TypeOK, PrintBegin, SameHeap
<1>4. head = Null \/ head \in Range(chain)
  BY <1>1 DEF ShapeInv, TypeOK, ListShape, Range
<1>5. CursorInChain' /\ CrashOnlyWhenDegraded'
  BY <1>1, <1>4 DEF PrintBegin, SameHeap, CursorInChain, CrashOnlyWhenDegraded
<1>6. CheckedSoFar' /\ VerdictIsRight'
  BY DEF PrintBegin, CheckedSoFar, VerdictIsRight
<1> QED
  BY <1>2, <1>3, <1>5, <1>6 DEF ShapeInv, Kept

\* print_blockchain moves on inside the list.
LEMMA PrintBlockStep == ASSUME ShapeInv, PrintBlock PROVE Kept
<1>1. SameHeap /\ UNCHANGED <<degraded, clean>> /\ Standing' /\ Standing
  BY DEF PrintBlock, SameHeap, memory, list, history, Standing
<1>2. ListShape' /\ NoBlockLeaks' /\ TreesHold' /\ (LinksHold => LinksHold')
  BY <1>1, SameHeapKeeps
<1>3. next[curr] = Null \/ next[curr] \in Range(chain)
  <2>1. PICK k \in 1 .. Len(chain) :
          next[curr] = IF k = Len(chain) THEN Null ELSE chain[k + 1]
    BY BlockInChain DEF PrintBlock, ShapeInv, CursorInChain
  <2> QED
    BY <2>1 DEF ShapeInv, TypeOK, Range
<1>4. TypeOK'
  BY <1>1, <1>3 DEF ShapeInv, TypeOK, PrintBlock, SameHeap, Range
<1>5. CursorInChain' /\ CrashOnlyWhenDegraded'
  BY <1>1, <1>3 DEF PrintBlock, SameHeap, CursorInChain, CrashOnlyWhenDegraded
<1>6. CheckedSoFar' /\ VerdictIsRight'
  BY DEF PrintBlock, CheckedSoFar, VerdictIsRight
<1> QED
  BY <1>2, <1>4, <1>5, <1>6 DEF ShapeInv, Kept

\* print_blockchain faults only on a failure or on a tree without root.
LEMMA PrintCrashesStep == ASSUME ShapeInv, PrintCrashes PROVE Kept
<1>1. PICK failed \in BOOLEAN :
        /\ \/ body[curr].tree \in {"nullroot", "wild"}
           \/ failed /\ body[curr].tree = "valid"
        /\ degraded' = (degraded \/ failed)
  BY FailuresAreBoolean DEF PrintCrashes
<1>2. /\ SameHeap /\ UNCHANGED <<clean, curr, ret>>
      /\ op' = "crashed" /\ ~Standing'
  BY DEF PrintCrashes, SameHeap, memory, list, Standing
<1>3. degraded' \in BOOLEAN /\ (degraded => degraded')
  BY <1>1 DEF ShapeInv, TypeOK
<1>4. ListShape' /\ NoBlockLeaks' /\ TreesHold' /\ (LinksHold => LinksHold')
  BY <1>2, <1>3, SameHeapKeeps
<1>5. TypeOK'
  BY <1>2, <1>3 DEF ShapeInv, TypeOK, SameHeap
<1>6. CrashOnlyWhenDegraded'
  BY <1>1, <1>2, CleanTrees DEF PrintCrashes, ShapeInv, CursorInChain, CrashOnlyWhenDegraded
<1>7. CursorInChain' /\ CheckedSoFar' /\ VerdictIsRight'
  BY <1>2 DEF CursorInChain, CheckedSoFar, VerdictIsRight
<1> QED
  BY <1>4, <1>5, <1>6, <1>7 DEF ShapeInv, Kept

-----------------------------------------------------------------------------
(* destroy_blockchain *)

\* destroy_blockchain starts at the first block.
LEMMA DestroyBeginStep == ASSUME ShapeInv, DestroyBegin PROVE Kept
<1>1. /\ SameHeap /\ UNCHANGED <<degraded, clean, ret>>
      /\ Standing /\ op' = "destroying" /\ curr' = head
  BY DEF DestroyBegin, SameHeap, memory, list, history, Standing
<1>2. ListShape' /\ NoBlockLeaks' /\ TreesHold' /\ (LinksHold => LinksHold')
  BY <1>1, SameHeapKeeps
<1>3. TypeOK'
  BY <1>1 DEF ShapeInv, TypeOK, SameHeap
<1>4. CursorInChain' /\ CrashOnlyWhenDegraded'
  BY <1>1 DEF ShapeInv, ListShape, SameHeap, CursorInChain, CrashOnlyWhenDegraded
<1>5. CheckedSoFar' /\ VerdictIsRight'
  BY <1>1 DEF CheckedSoFar, VerdictIsRight
<1> QED
  BY <1>2, <1>3, <1>4, <1>5 DEF ShapeInv, Kept

\* The block the cursor is on is the first one left; the others keep their
\* fields and move up by one place.
LEMMA DestroyBlockStep == ASSUME ShapeInv, DestroyBlock PROVE Kept
<1>1. /\ chain \in Seq(Addr) /\ chain # <<>> /\ Len(chain) \in Nat \ {0}
      /\ curr = chain[1] /\ curr \in Addr /\ 1 \in DOMAIN chain
  BY DEF DestroyBlock, ShapeInv, TypeOK, CursorInChain
<1>2. /\ chain' \in Seq(Addr) /\ Len(chain') = Len(chain) - 1
      /\ DOMAIN chain' = 1 .. Len(chain) - 1
      /\ \A i \in 1 .. Len(chain) - 1 : chain'[i] = chain[i + 1]
  BY <1>1 DEF DestroyBlock
<1>3. \A i \in 1 .. Len(chain) - 1 :
        chain[i + 1] # curr /\ chain[i + 1] \in Addr /\ i + 1 \in DOMAIN chain
  BY <1>1 DEF ShapeInv, NoBlockLeaks
<1>4. \A a \in Addr : a # curr => body'[a] = body[a] /\ next'[a] = next[a]
  BY DEF DestroyBlock, ShapeInv, TypeOK
<1>5. TypeOK'
  <2>1. body' = [a \in Addr |-> body'[a]] /\ body'[curr] = NoBody
    BY <1>1 DEF DestroyBlock, ShapeInv, TypeOK
  <2>2. \A a \in Addr : Fielded(body'[a])
    BY <1>4, <2>1, BodiesFielded DEF ShapeInv, TypeOK, Fielded
  <2>3. next' \in [Addr -> Addr \cup {Null}] /\ curr' \in Addr \cup {Null}
    BY <1>1 DEF DestroyBlock, ShapeInv, TypeOK
  <2> QED
    BY <1>2, <2>1, <2>2, <2>3 DEF DestroyBlock, ShapeInv, TypeOK, Fielded, list
<1>6. ListShape'
  <2>1. \A i \in DOMAIN chain' :
          next'[chain'[i]] = IF i = Len(chain') THEN Null ELSE chain'[i + 1]
    <3> SUFFICES ASSUME NEW i \in 1 .. Len(chain) - 1
                 PROVE  next'[chain[i + 1]] = IF i = Len(chain) - 1 THEN Null
                                              ELSE chain'[i + 1]
      BY <1>2
    <3>1. next'[chain[i + 1]] = next[chain[i + 1]]
      BY <1>3, <1>4
    <3>2. next[chain[i + 1]] = IF i + 1 = Len(chain) THEN Null ELSE chain[(i + 1) + 1]
      BY <1>3 DEF ShapeInv, ListShape
    <3>3. i # Len(chain) - 1 => chain'[i + 1] = chain[(i + 1) + 1]
      BY <1>1, <1>2
    <3> QED
      BY <1>1, <3>1, <3>2, <3>3
  <2> QED
    BY <2>1 DEF ListShape, DestroyBlock, Standing
<1>7. NoBlockLeaks'
  <2>1. Range(chain) = {curr} \cup Range(chain')
    <3>1. ASSUME NEW m \in DOMAIN chain PROVE chain[m] \in {curr} \cup Range(chain')
      <4>1. m = 1 \/ (m - 1 \in 1 .. Len(chain) - 1 /\ (m - 1) + 1 = m)
        BY <1>1
      <4> QED
        BY <1>1, <1>2, <4>1 DEF Range
    <3>2. ASSUME NEW m \in DOMAIN chain' PROVE chain'[m] \in Range(chain)
      BY <1>2, <1>3 DEF Range
    <3> QED
      BY <1>1, <3>1, <3>2 DEF Range
  <2>2. curr \notin Range(chain') /\ curr \notin lost
    BY <1>1, <1>2, <1>3 DEF Range, ShapeInv, NoBlockLeaks
  <2>3. alloc' = Range(chain') \cup lost'
    BY <2>1, <2>2 DEF DestroyBlock, ShapeInv, NoBlockLeaks
  <2>4. Range(chain') \cap lost' = {}
    BY <2>1 DEF DestroyBlock, ShapeInv, NoBlockLeaks
  <2>5. \A i, j \in DOMAIN chain' : chain'[i] = chain'[j] => i = j
    <3> SUFFICES ASSUME NEW i \in DOMAIN chain', NEW j \in DOMAIN chain',
                        chain'[i] = chain'[j]
                 PROVE  i = j
      OBVIOUS
    <3>1. i + 1 \in DOMAIN chain /\ j + 1 \in DOMAIN chain /\ chain[i + 1] = chain[j + 1]
      BY <1>2, <1>3
    <3>2. i + 1 = j + 1
      BY <3>1 DEF ShapeInv, NoBlockLeaks
    <3> QED
      BY <1>2, <3>2
  <2> QED
    BY <2>3, <2>4, <2>5 DEF NoBlockLeaks, Range
<1>8. CursorInChain'
  <2>1. next[curr] = IF Len(chain) = 1 THEN Null ELSE chain[2]
    <3>1. next[chain[1]] = IF 1 = Len(chain) THEN Null ELSE chain[1 + 1]
      BY <1>1 DEF ShapeInv, ListShape
    <3> QED
      BY <1>1, <3>1
  <2>2. chain' = <<>> <=> Len(chain) = 1
    BY <1>1, <1>2
  <2> QED
    BY <1>1, <1>2, <2>1, <2>2 DEF DestroyBlock, CursorInChain
<1>9. TreesHold' /\ (LinksHold => LinksHold')
  <2> SUFFICES ASSUME ~degraded
               PROVE  /\ AllTreesValid'
                      /\ LinksHold => \A i \in 1 .. Len(chain') - 1 : Link(i)'
    BY DEF TreesHold, LinksHold, DestroyBlock
  <2>1. AllTreesValid'
    <3>1. \A i \in 1 .. Len(chain) - 1 : body'[chain'[i]].tree = "valid"
      BY <1>2, <1>3, <1>4 DEF ShapeInv, TreesHold, AllTreesValid
    <3> QED
      BY <1>2, <3>1 DEF AllTreesValid
  <2>2. ASSUME LinksHold, NEW i \in 1 .. Len(chain') - 1 PROVE Link(i)'
    <3>1. Link(i + 1)
      BY <1>1, <1>2, <2>2 DEF LinksHold
    <3> QED
      BY <1>1, <1>2, <1>3, <1>4, <3>1 DEF Link
  <2> QED
    BY <2>1, <2>2
<1>10. CrashOnlyWhenDegraded' /\ CheckedSoFar' /\ VerdictIsRight'
  BY DEF DestroyBlock, CrashOnlyWhenDegraded, CheckedSoFar, VerdictIsRight
<1> QED
  BY <1>5, <1>6, <1>7, <1>8, <1>9, <1>10 DEF ShapeInv, Kept

\* destroy_blockchain faults only on a wild root.
LEMMA DestroyCrashesStep == ASSUME ShapeInv, DestroyCrashes PROVE Kept
<1>1. /\ SameHeap /\ UNCHANGED <<degraded, clean, curr, ret>>
      /\ op' = "crashed" /\ ~Standing'
  BY DEF DestroyCrashes, SameHeap, memory, list, history, Standing
<1>2. ListShape' /\ NoBlockLeaks' /\ TreesHold' /\ (LinksHold => LinksHold')
  BY <1>1, SameHeapKeeps
<1>3. TypeOK'
  BY <1>1 DEF ShapeInv, TypeOK, SameHeap
<1>4. curr \in Range(chain)
  BY DEF DestroyCrashes, ShapeInv, TypeOK, CursorInChain, Range
<1>5. CrashOnlyWhenDegraded'
  BY <1>1, <1>4, CleanTrees DEF DestroyCrashes, CrashOnlyWhenDegraded
<1>6. CursorInChain' /\ CheckedSoFar' /\ VerdictIsRight'
  BY <1>1 DEF CursorInChain, CheckedSoFar, VerdictIsRight
<1> QED
  BY <1>2, <1>3, <1>5, <1>6 DEF ShapeInv, Kept

\* The cursor is NULL only when no block is left.
LEMMA DestroyEndStep == ASSUME ShapeInv, DestroyEnd PROVE Kept
<1>1. chain = <<>>
  BY NullAssumption DEF DestroyEnd, ShapeInv, TypeOK, CursorInChain
<1>2. TypeOK'
  BY DEF DestroyEnd, ShapeInv, TypeOK, memory, history
<1>3. ListShape' /\ NoBlockLeaks' /\ TreesHold' /\ (LinksHold => LinksHold')
  BY <1>1 DEF DestroyEnd, memory, history, ShapeInv, ListShape, NoBlockLeaks,
              TreesHold, LinksHold, AllTreesValid, Range
<1>4. CursorInChain' /\ CrashOnlyWhenDegraded' /\ CheckedSoFar' /\ VerdictIsRight'
  BY DEF DestroyEnd, CursorInChain, CrashOnlyWhenDegraded, CheckedSoFar, VerdictIsRight
<1> QED
  BY <1>2, <1>3, <1>4 DEF ShapeInv, Kept

-----------------------------------------------------------------------------
(* create_blockchain and create_block *)

\* The genesis block is a list of its own, the old list is lost.
LEMMA CreateBlockchainStep == ASSUME ShapeInv, CreateBlockchain PROVE Kept
<1> DEFINE Made(failed, a, time, tree, leaf) ==
             /\ alloc' = alloc \cup {a}
             /\ next' = [next EXCEPT ![a] = Null]
             /\ body' = [body EXCEPT ![a] = GenesisBody(time, tree, leaf)]
             /\ head' = a
             /\ tail' = a
             /\ chain' = <<a>>
             /\ degraded' = (degraded \/ failed)
<1>0. PICK failed \in BOOLEAN, a \in Addr \ alloc, time \in Times :
        \E tree \in CreateTreeOutcomes(1, failed) \ {"crash"},
           leaf \in FirstLeaf(<<Genesis>>, failed) : Made(failed, a, time, tree, leaf)
  BY FailuresAreBoolean, ZenonT(60) DEF CreateBlockchain
<1>1. PICK tree \in CreateTreeOutcomes(1, failed) \ {"crash"},
           leaf \in FirstLeaf(<<Genesis>>, failed) : Made(failed, a, time, tree, leaf)
  BY <1>0
<1>2. tree \in TreeStates /\ (~failed => tree = "valid")
  BY <1>1, TreeOutcomes
<1>3. /\ body'[a] = GenesisBody(time, tree, leaf) /\ body'[a].tree = tree
      /\ \A x \in Addr : x # a => body'[x] = body[x]
      /\ body' = [x \in Addr |-> body'[x]]
  BY <1>1 DEF GenesisBody, Body, ShapeInv, TypeOK
<1>4. TypeOK'
  <2>1. next' \in [Addr -> Addr \cup {Null}]
    BY <1>1 DEF ShapeInv, TypeOK
  <2>2. \A x \in Addr : Fielded(body'[x])
    BY <1>2, <1>3, BodiesFielded DEF ShapeInv, TypeOK, Fielded, GenesisBody
  <2>3. chain' \in Seq(Addr) /\ lost' \subseteq Addr /\ alloc' \subseteq Addr
    BY <1>1 DEF CreateBlockchain, ShapeInv, TypeOK, Range
  <2>4. degraded' \in BOOLEAN
    BY <1>1 DEF ShapeInv, TypeOK
  <2> QED
    BY <1>1, <1>3, <2>1, <2>2, <2>3, <2>4, ZenonT(60)
    DEF CreateBlockchain, ShapeInv, TypeOK, Fielded
<1>5. ListShape'
  BY <1>1 DEF ListShape, CreateBlockchain, ShapeInv, TypeOK
<1>6. NoBlockLeaks'
  <2>1. Range(chain') = {a}
    BY <1>1 DEF Range
  <2>2. alloc' = Range(chain') \cup lost' /\ Range(chain') \cap lost' = {}
    BY <1>1, <2>1 DEF CreateBlockchain, ShapeInv, NoBlockLeaks
  <2>3. \A i, j \in DOMAIN chain' : chain'[i] = chain'[j] => i = j
    BY <1>1
  <2> QED
    BY <2>2, <2>3 DEF NoBlockLeaks, Range
<1>7. TreesHold' /\ LinksHold'
  BY <1>1, <1>2, <1>3 DEF TreesHold, LinksHold, AllTreesValid
<1>8. CursorInChain' /\ CrashOnlyWhenDegraded' /\ CheckedSoFar' /\ VerdictIsRight'
  BY DEF CreateBlockchain, CursorInChain, CrashOnlyWhenDegraded, CheckedSoFar,
         VerdictIsRight
<1> QED
  BY <1>4, <1>5, <1>6, <1>7, <1>8 DEF ShapeInv, Kept

\* The new block is appended behind the tail, which is the last block of the
\* list; its link is the digest of that block unless something failed.
LEMMA AppendStep ==
  ASSUME ShapeInv, NEW txs \in TxLists, CreateBlock(txs)
  PROVE  Kept
<1>0. PICK failed \in BOOLEAN, a \in Addr \ alloc, time \in Times :
        \E prev \in CalculateBlockHash(tail, failed),
           leaf \in FirstLeaf(txs, failed),
           tree \in CreateTreeOutcomes(Len(txs), failed) \ {"crash"} :
          /\ LinkBlock(a, Body(prev, time, tree, leaf))
          /\ degraded' = (degraded \/ failed \/ txs = <<>>)
  BY FailuresAreBoolean DEF CreateBlock, GetLastBlock
<1>1. PICK prev \in CalculateBlockHash(tail, failed),
           leaf \in FirstLeaf(txs, failed),
           tree \in CreateTreeOutcomes(Len(txs), failed) \ {"crash"} :
        /\ LinkBlock(a, Body(prev, time, tree, leaf))
        /\ degraded' = (degraded \/ failed \/ txs = <<>>)
  BY <1>0
<1> DEFINE L == Len(chain)
<1>2. /\ chain \in Seq(Addr) /\ L \in Nat \ {0} /\ DOMAIN chain = 1 .. L
      /\ tail = chain[L] /\ tail \in Addr /\ tail \in Range(chain)
      /\ head = chain[1] /\ count = L /\ L \in DOMAIN chain
  BY DEF CreateBlock, ShapeInv, TypeOK, ListShape, Standing, Range
<1>3. /\ chain' \in Seq(Addr) /\ Len(chain') = L + 1
      /\ DOMAIN chain' = 1 .. L + 1
      /\ \A i \in 1 .. L : chain'[i] = chain[i]
      /\ chain'[L + 1] = a
  BY <1>1, <1>2 DEF LinkBlock
<1>4. \A i \in 1 .. L : chain[i] \in Addr /\ chain[i] # a
  BY <1>1, <1>2 DEF ShapeInv, NoBlockLeaks, Range
<1>5. tree \in TreeStates /\ (~failed /\ txs # <<>> => tree = "valid")
  <2>1. txs # <<>> => Len(txs) # 0
    BY TxListsAssumption
  <2> QED
    BY <1>1, <2>1, TreeOutcomes
<1>6. /\ body'[a] = Body(prev, time, tree, leaf)
      /\ \A x \in Addr : x # a => body'[x] = body[x]
      /\ body' = [x \in Addr |-> body'[x]]
  BY <1>1 DEF LinkBlock, ShapeInv, TypeOK
<1>7. body'[a].tree = tree /\ body'[a].prev = prev
  BY <1>6 DEF Body
<1>8. TypeOK'
  <2>1. next' \in [Addr -> Addr \cup {Null}]
    BY <1>1, <1>2 DEF LinkBlock, Relinked, ShapeInv, TypeOK
  <2>2. \A x \in Addr : Fielded(body'[x])
    BY <1>5, <1>6, BodiesFielded DEF ShapeInv, TypeOK, Fielded
  <2>3. degraded' \in BOOLEAN
    BY <1>1 DEF ShapeInv, TypeOK
  <2>4. alloc' \subseteq Addr /\ count' \in Nat /\ {head', tail'} \subseteq Addr \cup {Null}
    BY <1>1, <1>2 DEF LinkBlock, ShapeInv, TypeOK
  <2> QED
    BY <1>3, <1>6, <2>1, <2>2, <2>3, <2>4 DEF CreateBlock, ShapeInv, TypeOK, Fielded
<1>9. ListShape'
  <2>0. /\ next'[a] = Null /\ next'[tail] = a
        /\ \A x \in Addr : x # a /\ x # tail => next'[x] = next[x]
    <3>1. tail # Null /\ tail # a
      BY <1>2, <1>4, NullAssumption
    <3>2. next' = Relinked(a)
      BY <1>1, <3>1 DEF LinkBlock
    <3> QED
      BY <1>1, <1>2, <3>1, <3>2 DEF Relinked, ShapeInv, TypeOK
  <2>1. ASSUME NEW i \in 1 .. L + 1
        PROVE  next'[chain'[i]] = IF i = L + 1 THEN Null ELSE chain'[i + 1]
    <3>1. CASE i = L + 1
      BY <1>3, <2>0, <3>1
    <3>2. CASE i = L
      <4> HIDE DEF L
      <4>1. L \in 1 .. L /\ L # L + 1
        BY <1>2
      <4>2. chain'[L] = tail /\ chain'[L + 1] = a
        BY <1>2, <1>3, <4>1
      <4> QED
        BY <2>0, <3>2, <4>1, <4>2
    <3>3. CASE i < L
      <4>1. chain[i] # tail
        BY <1>2, <3>3 DEF ShapeInv, NoBlockLeaks
      <4>2. next'[chain[i]] = next[chain[i]]
        BY <1>2, <1>4, <2>0, <3>3, <4>1
      <4>3. next[chain[i]] = chain[i + 1]
        BY <1>2, <3>3 DEF ShapeInv, ListShape
      <4> QED
        BY <1>2, <1>3, <3>3, <4>2, <4>3
    <3>4. i = L + 1 \/ i = L \/ i < L
      <4>1. L \in Nat
        BY <1>2
      <4> HIDE DEF L
      <4> QED
        BY <4>1
    <3> QED
      BY <3>1, <3>2, <3>3, <3>4
  <2>2. chain' # <<>> /\ chain'[1] = chain[1]
    BY <1>2, <1>3
  <2>3. count' = L + 1 /\ head' = head /\ tail' = a
    BY <1>1, <1>2, NullAssumption DEF LinkBlock
  <2> QED
    BY <1>2, <1>3, <2>1, <2>2, <2>3 DEF ListShape
<1>10. NoBlockLeaks'
  <2>1. Range(chain') = Range(chain) \cup {a}
    BY <1>2, <1>3 DEF Range
  <2>2. alloc' = Range(chain') \cup lost' /\ Range(chain') \cap lost' = {}
    BY <1>1, <2>1 DEF CreateBlock, LinkBlock, ShapeInv, NoBlockLeaks
  <2>3. \A i, j \in DOMAIN chain' : chain'[i] = chain'[j] => i = j
    BY <1>2, <1>3, <1>4 DEF ShapeInv, NoBlockLeaks
  <2> QED
    BY <2>2, <2>3 DEF NoBlockLeaks, Range
<1>11. TreesHold' /\ (LinksHold => LinksHold')
  <2> SUFFICES ASSUME ~degraded'
               PROVE  AllTreesValid' /\ (LinksHold => \A i \in 1 .. L : Link(i)')
    BY <1>2, <1>3 DEF TreesHold, LinksHold
  <2>1. ~degraded /\ ~failed /\ txs # <<>>
    BY <1>1
  <2>2. AllTreesValid'
    BY <1>2, <1>3, <1>4, <1>5, <1>6, <1>7, <2>1 DEF ShapeInv, TreesHold, AllTreesValid
  <2>3. prev = BlockHash(body[tail].prev, body[tail].root)
    BY <1>1, <1>2, <2>1, CleanTrees, CleanHash
  <2>4. ASSUME LinksHold, NEW i \in 1 .. L PROVE Link(i)'
    <3>1. CASE i = L
      BY <1>2, <1>3, <1>4, <1>6, <1>7, <2>3, <3>1 DEF Link
    <3>2. CASE i # L
      <4>1. i \in 1 .. L - 1 /\ i + 1 \in 1 .. L
        <5>1. L \in Nat
          BY <1>2
        <5> HIDE DEF L
        <5> QED
          BY <3>2, <5>1
      <4>2. Link(i)
        BY <2>1, <2>4, <4>1 DEF LinksHold
      <4> QED
        BY <1>3, <1>4, <1>6, <4>1, <4>2 DEF Link
    <3> QED
      BY <3>1, <3>2
  <2> QED
    BY <2>2, <2>4
<1>12. CursorInChain' /\ CrashOnlyWhenDegraded' /\ CheckedSoFar' /\ VerdictIsRight'
  BY DEF CreateBlock, CursorInChain, CrashOnlyWhenDegraded, CheckedSoFar,
         VerdictIsRight
<1> QED
  BY <1>8, <1>9, <1>10, <1>11, <1>12 DEF ShapeInv, Kept

-----------------------------------------------------------------------------
\* Every step of blockchain.c keeps the invariant.
LEMMA StepKeeps == ShapeInv /\ [Next]_vars => Kept
<1> SUFFICES ASSUME ShapeInv, [Next]_vars PROVE Kept
  OBVIOUS
<1>1. CASE Call
  BY <1>1, FailedCalls, CreateBlockchainStep, AppendStep, ValidateBeginStep,
     PrintBeginStep, DestroyBeginStep
  DEF Call
<1>2. CASE Walk
  BY <1>2, ValidateLinkStep, ValidateCrashesStep, ValidateEndStep, PrintBlockStep,
     PrintCrashesStep, DestroyBlockStep, DestroyCrashesStep, DestroyEndStep
  DEF Walk
<1>3. CASE UNCHANGED vars
  <2>1. /\ SameHeap /\ UNCHANGED <<op, curr, ret, clean, degraded>>
        /\ (Standing' <=> Standing)
    BY <1>3 DEF vars, memory, list, history, SameHeap, Standing
  <2>2. /\ ListShape' /\ NoBlockLeaks' /\ TreesHold' /\ (LinksHold => LinksHold')
        /\ AllTreesValid' <=> AllTreesValid
        /\ \A i : Link(i)' <=> Link(i)
    BY <2>1, SameHeapKeeps
  <2>3. TypeOK' /\ CursorInChain' /\ CrashOnlyWhenDegraded'
    BY <2>1 DEF SameHeap, ShapeInv, TypeOK, CursorInChain, CrashOnlyWhenDegraded
  <2>4. CheckedSoFar' /\ VerdictIsRight'
    BY <2>1, <2>2 DEF SameHeap, ShapeInv, CheckedSoFar, VerdictIsRight
  <2> QED
    BY <2>2, <2>3, <2>4 DEF ShapeInv, Kept
<1> QED
  BY <1>1, <1>2, <1>3 DEF Next, Crashed

\* In particular the inductive invariant.
LEMMA StepIInv == IInv /\ [Next]_vars => IInv'
BY StepKeeps DEF Kept, IInv

\* The inductive invariant of blockchain.c.
THEOREM Invariance == Spec => []IInv
BY InitIInv, StepIInv, PTL DEF Spec

\* The state of the list is well typed after any calls and failures: the
\* cursors and links hold addresses of blocks or NULL.
THEOREM TypeCorrect == Spec => []TypeOK
<1>1. IInv => TypeOK
  BY DEF IInv, ShapeInv
<1> QED
  BY <1>1, Invariance, PTL

\* The linked list that create_block builds, and that validate, print and
\* destroy walk, is well formed however many blocks there are and whatever
\* fails.
THEOREM ListCorrect == Spec => []ListShape
<1>1. IInv => ListShape
  BY DEF IInv, ShapeInv
<1> QED
  BY <1>1, Invariance, PTL

\* No block is lost from the list, nor kept by a create_block that fails or by
\* a blockchain that was destroyed.
THEOREM NothingLeaks == Spec => []NoBlockLeaks
<1>1. IInv => NoBlockLeaks
  BY DEF IInv, ShapeInv
<1> QED
  BY <1>1, Invariance, PTL

\* The cursors of validate, print and destroy stay on allocated blocks of the
\* chain they walk.
THEOREM CursorsCorrect == Spec => []CursorInChain
<1>1. IInv => CursorInChain
  BY DEF IInv, ShapeInv
<1> QED
  BY <1>1, Invariance, PTL

\* Without unreported failures every block create_block appends carries the
\* digest of its predecessor.
THEOREM LinksCorrect == Spec => []LinksHold
<1>1. IInv => LinksHold
  BY DEF IInv
<1> QED
  BY <1>1, Invariance, PTL

\* The process crashes only after a failure nobody was told of, or in
\* create_block on an empty chain.
THEOREM CrashesExplained == Spec => []CrashOnlyWhenDegraded
<1>1. IInv => CrashOnlyWhenDegraded
  BY DEF IInv, ShapeInv
<1> QED
  BY <1>1, Invariance, PTL

\* validate_blockchain answers true exactly when every link holds, for
\* chains of every length.
THEOREM VerdictCorrect == Spec => []VerdictIsRight
<1>1. IInv => VerdictIsRight
  BY DEF IInv, ShapeInv
<1> QED
  BY <1>1, Invariance, PTL

-----------------------------------------------------------------------------
(* The linked list implements the append-only ledger *)

\* The fields of the blocks at the addresses c, in order.
Fields(b, c) == [i \in 1 .. Len(c) |-> b[c[i]]]

\* They are a sequence as long as c.
LEMMA FieldsAreSeq ==
  ASSUME NEW c \in Seq(Addr), NEW b
  PROVE  /\ Fields(b, c) \in Seq({b[a] : a \in Addr})
         /\ Len(Fields(b, c)) = Len(c)
         /\ \A i \in 1 .. Len(c) : Fields(b, c)[i] = b[c[i]]
         /\ c = <<>> => Fields(b, c) = <<>>
BY DEF Fields

\* The zeroed struct is the empty ledger.
LEMMA InitRefines == Init => Ledger!Init
BY DEF Init, Ledger!Init, LedgerView

\* A step that leaves the blocks alone, or ends the ledger.
LEMMA QuietRefines ==
  ASSUME degraded => degraded',
         \/ SameHeap /\ (Standing' => Standing)
         \/ ~Standing'
  PROVE  Ledger!Next
<1>1. LedgerView' = LedgerView \/ LedgerView' = <<>>
  BY DEF SameHeap, LedgerView
<1> QED
  BY <1>1 DEF Ledger!Next, Ledger!Degrade, Ledger!Close

\* destroy_blockchain comes to its end with no block left.
LEMMA DestroyEndRefines == ASSUME IInv, DestroyEnd PROVE Ledger!Next
<1>1. chain' = <<>> /\ Standing' /\ UNCHANGED degraded
  BY NullAssumption
  DEF DestroyEnd, IInv, ShapeInv, TypeOK, CursorInChain, Standing, history
<1>2. LedgerView' = <<>>
  BY <1>1 DEF LedgerView
<1> QED
  BY <1>1, <1>2 DEF Ledger!Next, Ledger!Close

\* create_blockchain opens a ledger.
LEMMA CreateBlockchainRefines ==
  ASSUME IInv, IInv', CreateBlockchain
  PROVE  Ledger!Next
<1>1. PICK failed \in BOOLEAN, a \in Addr :
        /\ \E time, tree, leaf :
             body' = [body EXCEPT ![a] = GenesisBody(time, tree, leaf)]
        /\ chain' = <<a>>
        /\ degraded' = (degraded \/ failed)
  BY FailuresAreBoolean DEF CreateBlockchain
<1>2. LedgerView' = Fields(body', chain') /\ chain' \in Seq(Addr)
  BY DEF CreateBlockchain, Standing, LedgerView, Fields, IInv, ShapeInv, TypeOK
<1>3. Len(LedgerView') = 1 /\ LedgerView'[1] = body'[a]
  <2>1. Len(chain') = 1 /\ chain'[1] = a /\ 1 \in 1 .. 1
    BY <1>1
  <2>2. /\ Len(Fields(body', chain')) = Len(chain')
        /\ \A i \in 1 .. Len(chain') : Fields(body', chain')[i] = body'[chain'[i]]
    BY <1>2, FieldsAreSeq
  <2> QED
    BY <1>2, <2>1, <2>2
<1>4. body'[a].prev = ZeroDigest
  BY <1>1 DEF GenesisBody, Body, IInv, ShapeInv, TypeOK
<1>5. ~degraded' => body'[a].tree = "valid"
  BY <1>1 DEF IInv, LinksHold, AllTreesValid
<1>6. Ledger!Open
  BY <1>3, <1>4, <1>5 DEF Ledger!Open, Ledger!ZeroDigest, ZeroDigest
<1> QED
  BY <1>1, <1>6 DEF Ledger!Next, IInv, ShapeInv, TypeOK

\* create_block extends it by one block and leaves the others alone.
LEMMA CreateBlockRefines ==
  ASSUME IInv, IInv', NEW txs \in TxLists, CreateBlock(txs)
  PROVE  Ledger!Next
<1>1. PICK failed \in BOOLEAN, a \in Addr \ alloc :
        /\ \E b : LinkBlock(a, b)
        /\ degraded' = (degraded \/ failed \/ txs = <<>>)
  BY FailuresAreBoolean DEF CreateBlock
<1> DEFINE L == Len(chain)
           V == Fields(body, chain)
           W == Fields(body', chain')
<1>2. /\ Standing /\ Standing' /\ L \in Nat \ {0}
      /\ chain \in Seq(Addr) /\ chain' \in Seq(Addr)
  BY DEF CreateBlock, Standing, IInv, ShapeInv, TypeOK, ListShape
<1>3. LedgerView = V /\ LedgerView' = W
  BY <1>2 DEF LedgerView, Fields
<1>4. /\ Len(chain') = L + 1 /\ \A i \in 1 .. L : chain'[i] = chain[i]
  BY <1>1, <1>2 DEF LinkBlock
<1>5. \A i \in 1 .. L : body'[chain[i]] = body[chain[i]]
  <2>1. \A i \in 1 .. L : chain[i] \in Addr /\ chain[i] # a
    BY <1>1, <1>2 DEF IInv, ShapeInv, NoBlockLeaks, Range
  <2> QED
    BY <1>1, <2>1 DEF LinkBlock, IInv, ShapeInv, TypeOK
<1> DEFINE S == {body[x] : x \in Addr} \cup {body'[x] : x \in Addr}
<1>6. /\ V \in Seq(S) /\ Len(V) = L /\ \A i \in 1 .. L : V[i] = body[chain[i]]
      /\ W \in Seq(S) /\ Len(W) = L + 1
      /\ \A i \in 1 .. L + 1 : W[i] = body'[chain'[i]]
  <2>1. V \in Seq({body[x] : x \in Addr}) /\ W \in Seq({body'[x] : x \in Addr})
    BY <1>2, FieldsAreSeq
  <2>2. V \in Seq(S) /\ W \in Seq(S)
    BY <2>1
  <2>3. Len(V) = L /\ \A i \in 1 .. L : V[i] = body[chain[i]]
    BY <1>2, FieldsAreSeq
  <2>4. /\ Len(W) = Len(chain')
        /\ \A i \in 1 .. Len(chain') : W[i] = body'[chain'[i]]
    BY <1>2, FieldsAreSeq
  <2> HIDE DEF V, W, S
  <2> QED
    BY <1>4, <2>2, <2>3, <2>4
<1>7. \A i \in 1 .. L : W[i] = V[i]
  BY <1>2, <1>4, <1>5, <1>6
<1>8. W = Append(V, W[L + 1])
  <2> HIDE DEF V, W, L, S
  <2>1. L \in Nat /\ W[L + 1] \in S
    BY <1>2, <1>6
  <2> QED
    BY <1>6, <1>7, <2>1
<1>9. ~degraded' => W[L + 1].tree = "valid"
                    /\ W[L + 1].prev = BlockHash(V[L].prev, V[L].root)
  <2> SUFFICES ASSUME ~degraded'
               PROVE  /\ body'[chain'[L + 1]].tree = "valid"
                      /\ body'[chain'[L + 1]].prev
                           = BlockHash(body'[chain'[L]].prev, body'[chain'[L]].root)
    BY <1>2, <1>4, <1>5, <1>6
  <2>1. L + 1 \in DOMAIN chain' /\ L \in 1 .. Len(chain') - 1
    BY <1>2, <1>4
  <2> HIDE DEF L
  <2> QED
    BY <2>1 DEF IInv, LinksHold, AllTreesValid, Link
<1>10. Ledger!Extend
  <2> HIDE DEF V, W, L, S
  <2>1. V # <<>> /\ L \in Nat
    BY <1>2, <1>6
  <2> QED
    BY <1>2, <1>3, <1>6, <1>8, <1>9, <2>1
    DEF Ledger!Extend, Ledger!Last, Ledger!Follows, Ledger!BlockHash, Ledger!Hash,
        BlockHash, Hash
<1> QED
  BY <1>1, <1>10 DEF Ledger!Next, IInv, ShapeInv, TypeOK

\* Every step of blockchain.c is a step of the ledger or leaves it alone.
LEMMA StepRefines == IInv /\ IInv' /\ [Next]_vars => [Ledger!Next]_(Ledger!vars)
<1> SUFFICES ASSUME IInv, IInv', [Next]_vars PROVE Ledger!Next
  OBVIOUS
<1> USE DEF memory, list, history, SameHeap, Standing
<1>1. ASSUME \/ CreateBlockchainFails \/ CreateBlockchainCrashes \/ CreateBlockFails
             \/ ValidateBegin \/ PrintBegin \/ DestroyBegin
             \/ ValidateLink \/ ValidateCrashes \/ ValidateEnd
             \/ PrintBlock \/ DestroyBlock \/ DestroyCrashes \/ UNCHANGED vars
      PROVE  Ledger!Next
  BY <1>1, QuietRefines
  DEF CreateBlockchainFails, CreateBlockchainCrashes, CreateBlockFails,
      ValidateBegin, PrintBegin, DestroyBegin, ValidateLink, ValidateCrashes,
      ValidateEnd, PrintBlock, DestroyBlock, DestroyCrashes, vars
<1>2. ASSUME NEW txs \in TxLists, CreateBlockCrashes(txs) PROVE Ledger!Next
  BY <1>2, QuietRefines, FailuresAreBoolean DEF CreateBlockCrashes
<1>3. ASSUME PrintCrashes PROVE Ledger!Next
  BY <1>3, QuietRefines, FailuresAreBoolean DEF PrintCrashes
<1> QED
  BY <1>1, <1>2, <1>3, CreateBlockchainRefines, CreateBlockRefines, DestroyEndRefines
  DEF Next, Call, Walk, Crashed

\* What blockchain.c keeps on its heap is an append-only ledger.
THEOREM Refinement == Spec => ImplementsLedger
BY InitRefines, StepRefines, Invariance, PTL
   DEF Spec, ImplementsLedger, Ledger!Spec
=============================================================================
