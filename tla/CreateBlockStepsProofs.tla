----------------------- MODULE CreateBlockStepsProofs -----------------------
(***************************************************************************)
(* create_block, statement by statement, for transaction lists of every    *)
(* length and every pattern of failures: its buffers balance, and it is    *)
(* one step of Blockchain, so the invariants of the chain hold between its *)
(* statements as well.                                                     *)
(***************************************************************************)
EXTENDS CreateBlockSteps, BlockchainProofs

\* The buffers allocated at each statement.
Held ==
  CASE pc = "idle"                -> {}
    [] pc \in {"hash_last", "array", "link"} -> {<<"block">>}
    [] pc = "loop" -> {<<"block">>, <<"array">>} \cup Hashes(Len(hashes))
    [] pc = "free" -> {<<"block">>, <<"array">>} \cup Hashes(Len(txs))

\* What a buffer of transaction_hashes may hold after compute_hash.
Digests == Residue \cup {LeafHash(txs[k]) : k \in DOMAIN txs}

\* Types of the locals; inside the call there is a transaction list, a block
\* that is not yet the chain's, and nobody else changed the chain.
LocalsOK ==
  /\ pc \in {"idle", "hash_last", "array", "loop", "free", "link"}
  /\ failed \in BOOLEAN
  /\ pc = "idle" => hashes = <<>> /\ failed = FALSE
  /\ pc # "idle" =>
       /\ op \in {"idle", "crashed"}
       /\ txs \in TxLists /\ new_block \in Addr \ alloc
       /\ failed \in Failures
       /\ hashes \in Seq(Digests) /\ Len(hashes) <= Len(txs)
  /\ pc \in {"hash_last", "array"} => hashes = <<>>
  /\ pc \in {"free", "link"} => Len(hashes) = Len(txs)

\* Each buffer is allocated once or not at all, as the statement says.
HeapOK == heap = [o \in Buffers |-> IF o \in Held THEN 1 ELSE 0]

\* What has been written so far is what one call of Blockchain's create_block
\* could write, if it failed exactly as often.
WrittenOK ==
  /\ DOMAIN fields = {"prev", "time", "tree"}
  /\ pc \in {"array", "loop", "free", "link"} =>
       /\ tail # Null
       /\ fields.prev \in CalculateBlockHash(tail, failed)
       /\ fields.time \in Times
  /\ pc \in {"loop", "free", "link"} /\ Len(hashes) > 0 =>
       hashes[1] \in FirstLeaf(txs, failed)
  /\ pc \in {"free", "link"} =>
       fields.tree \in CreateTreeOutcomes(Len(txs), failed) \ {"crash"}

\* The inductive invariant of the statements.
SInv == LocalsOK /\ HeapOK /\ WrittenOK

-----------------------------------------------------------------------------
\* The buffer of a transaction is one of the call's buffers.
LEMMA HashBuffers ==
  ASSUME NEW t \in TxLists
  PROVE  Len(t) \in Nat /\ DOMAIN t = 1 .. Len(t) /\ Hashes(Len(t)) \subseteq Buffers
<1>1. Len(t) \in Nat /\ DOMAIN t = 1 .. Len(t)
  BY TxListsAssumption
<1> QED
  BY <1>1 DEF Hashes, Buffers

\* The block, the array and the hashes are different buffers.
LEMMA BuffersDiffer ==
  /\ <<"block">> \in Buffers /\ <<"array">> \in Buffers /\ <<"block">> # <<"array">>
  /\ \A k : <<"hash", k>> \notin {<<"block">>, <<"array">>}
  /\ \A j, k : <<"hash", j>> = <<"hash", k>> => j = k
BY DEF Buffers

\* A call that may have failed more often may write what it could before.
LEMMA FailureMonotone ==
  ASSUME NEW a, NEW t, NEW f \in BOOLEAN, NEW g \in BOOLEAN, f => g
  PROVE  /\ CalculateBlockHash(a, f) \subseteq CalculateBlockHash(a, g)
         /\ FirstLeaf(t, f) \subseteq FirstLeaf(t, g)
         /\ CreateTreeOutcomes(Len(t), f) \subseteq CreateTreeOutcomes(Len(t), g)
BY DEF CalculateBlockHash, FirstLeaf, CreateTreeOutcomes

\* malloc of a buffer the call does not have.
LEMMA MallocHeap ==
  ASSUME HeapOK, NEW o \in Buffers, o \notin Held, Malloc(o), Held' = Held \cup {o}
  PROVE  HeapOK'
BY DEF HeapOK, Malloc

\* free of buffers the call has.
LEMMA FreeHeap ==
  ASSUME HeapOK, NEW os, os \subseteq Held, Free(os), Held' = Held \ os
  PROVE  HeapOK'
BY DEF HeapOK, Free

\* Every path of return leaves the locals as they were before the call.
LEMMA LeaveLocals ==
  ASSUME NEW v, Leave(v), Free(Held) \/ (Held = {} /\ UNCHANGED heap), SInv
  PROVE  SInv'
<1>1. Held' = {} /\ pc' = "idle"
  BY DEF Leave, Held
<1>2. HeapOK'
  <2>1. CASE Free(Held)
    BY <1>1, <2>1, FreeHeap DEF SInv
  <2>2. CASE Held = {} /\ UNCHANGED heap
    BY <1>1, <2>2 DEF SInv, HeapOK
  <2> QED
    BY <2>1, <2>2
<1>3. LocalsOK'
  BY DEF Leave, LocalsOK
<1>4. WrittenOK'
  BY <1>1 DEF WrittenOK, Leave, NoFields
<1> QED
  BY <1>2, <1>3, <1>4 DEF SInv

\* A step that touches neither the chain nor the fields nor the hashes keeps
\* what was written.
LEMMA SameLocals ==
  ASSUME SInv, UNCHANGED <<alloc, body, tail, locals>>,
         pc # "idle" => op' \in {"idle", "crashed"}
  PROVE  SInv'
<1>1. LocalsOK'
  BY DEF SInv, LocalsOK, locals, Digests, Residue
<1>2. HeapOK'
  BY DEF SInv, HeapOK, Held, locals
<1>3. WrittenOK'
  <2>1. UNCHANGED <<pc, txs, fields, hashes, failed>>
    BY DEF locals
  <2>2. CalculateBlockHash(tail, failed)' = CalculateBlockHash(tail, failed)
    BY <2>1 DEF CalculateBlockHash, Residue
  <2>3. FirstLeaf(txs, failed)' = FirstLeaf(txs, failed)
    BY <2>1 DEF FirstLeaf, Residue
  <2> QED
    BY <2>1, <2>2, <2>3 DEF SInv, WrittenOK
<1> QED
  BY <1>1, <1>2, <1>3 DEF SInv

\* Before the first statement nothing is allocated.
LEMMA InitSInv == SInit => SInv
<1> SUFFICES ASSUME SInit PROVE SInv
  OBVIOUS
<1>1. Held = {}
  BY DEF SInit, Held
<1> QED
  BY <1>1 DEF SInit, SInv, LocalsOK, HeapOK, WrittenOK, NoFields

\* An error path frees what was allocated up to there.
LEMMA GiveUpStep ==
  ASSUME SInv, GiveUp(Held), op = "idle"
  PROVE  SInv' /\ CreateBlockFails
<1>1. SInv'
  BY LeaveLocals DEF GiveUp
<1> QED
  BY <1>1 DEF GiveUp, Leave, CreateBlockFails

-----------------------------------------------------------------------------
(* One lemma per statement *)

\* malloc of the new block: a failure is that of Blockchain's create_block,
\* a success is not seen by the chain.
LEMMA MallocBlockStep ==
  ASSUME SInv, NEW t \in TxLists, MallocBlock(t)
  PROVE  SInv' /\ (CreateBlockFails \/ UNCHANGED vars)
<1>1. Held = {}
  BY DEF MallocBlock, Held
<1>2. CASE /\ MayFail \/ alloc = Addr
           /\ Leave("null")
           /\ UNCHANGED <<memory, list, op, curr, history, heap>>
  <2>1. SInv'
    BY <1>1, <1>2, LeaveLocals
  <2> QED
    BY <1>2, <2>1 DEF MallocBlock, Leave, CreateBlockFails
<1>3. CASE /\ \E a \in Addr \ alloc : new_block' = a
           /\ Malloc(<<"block">>)
           /\ txs' = t
           /\ pc' = "hash_last"
           /\ UNCHANGED <<vars, fields, hashes, failed>>
  <2>1. Held' = Held \cup {<<"block">>}
    BY <1>1, <1>3 DEF Held
  <2>2. HeapOK'
    BY <1>1, <1>3, <2>1, MallocHeap, BuffersDiffer DEF SInv
  <2>3. UNCHANGED <<alloc, op, hashes, failed>>
    BY <1>3 DEF vars, memory
  <2>4. LocalsOK'
    <3>1. hashes = <<>> /\ failed = FALSE /\ op = "idle"
      BY DEF MallocBlock, SInv, LocalsOK
    <3>2. Len(t) \in Nat
      BY HashBuffers
    <3>3. FALSE \in Failures
      BY DEF Failures
    <3>4. new_block' \in Addr \ alloc' /\ txs' \in TxLists /\ op' = "idle"
      BY <1>3, <2>3, <3>1
    <3>5. failed' \in BOOLEAN /\ failed' \in Failures
      BY <2>3, <3>1, <3>3
    <3>6. hashes' = <<>> /\ Len(hashes') <= Len(txs')
      BY <1>3, <2>3, <3>1, <3>2
    <3>7. hashes' \in Seq(Digests')
      BY <3>6
    <3> QED
      BY <1>3, <3>4, <3>5, <3>6, <3>7 DEF LocalsOK
  <2>5. WrittenOK'
    BY <1>3 DEF SInv, WrittenOK
  <2> QED
    BY <1>3, <2>2, <2>4, <2>5 DEF SInv
<1> QED
  BY <1>2, <1>3 DEF MallocBlock

\* The process faults: the chain and the locals stay as they were.
LEMMA FaultStep ==
  ASSUME SInv, op = "idle", pc # "idle", NEW f \in Failures, Fault(f),
         \/ HashMayCrash(tail)
         \/ "crash" \in CreateTreeOutcomes(Len(txs), f)
  PROVE  SInv' /\ txs \in TxLists /\ CreateBlockCrashes(txs)
<1>1. SInv'
  BY SameLocals DEF Fault, memory, list
<1>2. txs \in TxLists /\ alloc # Addr
  BY DEF SInv, LocalsOK
<1> QED
  BY <1>1, <1>2 DEF Fault, CreateBlockCrashes

\* calculate_block_hash of the last block.
LEMMA HashLastStep ==
  ASSUME SInv, HashLast
  PROVE  /\ SInv'
         /\ UNCHANGED vars \/ (txs \in TxLists /\ CreateBlockCrashes(txs))
<1>1. PICK f \in Failures :
        \/ HashMayCrash(tail) /\ Fault(f)
        \/ /\ tail # Null
           /\ \E prev \in CalculateBlockHash(tail, f), now \in Times :
                fields' = [fields EXCEPT !.prev = prev, !.time = now]
           /\ failed' = f
           /\ pc' = "array"
           /\ UNCHANGED <<vars, txs, new_block, hashes, heap>>
  BY DEF HashLast, AfterHash, GetLastBlock
<1>2. CASE HashMayCrash(tail) /\ Fault(f)
  BY <1>1, <1>2, FaultStep DEF HashLast
<1>3. CASE /\ tail # Null
           /\ \E prev \in CalculateBlockHash(tail, f), now \in Times :
                fields' = [fields EXCEPT !.prev = prev, !.time = now]
           /\ failed' = f
           /\ pc' = "array"
           /\ UNCHANGED <<vars, txs, new_block, hashes, heap>>
  <2>1. UNCHANGED <<alloc, body, tail, op, txs, new_block, hashes, heap>>
    BY <1>3 DEF vars, memory, list
  <2>2. HeapOK'
    BY <1>3, <2>1 DEF SInv, HeapOK, HashLast, Held
  <2>3. LocalsOK'
    <3>1. failed' \in BOOLEAN /\ failed' \in Failures
      BY <1>1, <1>3, FailuresAreBoolean
    <3>2. Digests' = Digests
      BY <2>1 DEF Digests, Residue
    <3> QED
      BY <1>3, <2>1, <3>1, <3>2 DEF SInv, LocalsOK, HashLast
  <2>4. CalculateBlockHash(tail, f)' = CalculateBlockHash(tail, f)
    BY <2>1 DEF CalculateBlockHash, Residue
  <2>5. WrittenOK'
    BY <1>3, <2>1, <2>4 DEF SInv, WrittenOK
  <2> QED
    BY <1>3, <2>2, <2>3, <2>5 DEF SInv
<1> QED
  BY <1>1, <1>2, <1>3

\* malloc of the array transaction_hashes.
LEMMA MallocArrayStep ==
  ASSUME SInv, MallocArray
  PROVE  SInv' /\ (CreateBlockFails \/ UNCHANGED vars)
<1>1. Held = {<<"block">>}
  BY DEF MallocArray, Held
<1>2. CASE GiveUp(ArrayFailedFrees)
  BY <1>1, <1>2, GiveUpStep DEF ArrayFailedFrees, MallocArray
<1>3. CASE /\ Malloc(<<"array">>)
           /\ pc' = "loop"
           /\ UNCHANGED <<vars, txs, new_block, fields, hashes, failed>>
  <2>1. UNCHANGED <<alloc, body, tail, op, txs, new_block, fields, hashes, failed>>
    BY <1>3 DEF vars, memory, list
  <2>2. hashes = <<>>
    BY DEF MallocArray, SInv, LocalsOK
  <2>3. Held' = Held \cup {<<"array">>}
    <3>1. Held' = {<<"block">>, <<"array">>} \cup Hashes(Len(hashes))'
      BY <1>3 DEF Held
    <3>2. Hashes(Len(hashes))' = {}
      BY <2>1, <2>2 DEF Hashes
    <3> QED
      BY <1>1, <3>1, <3>2
  <2>4. HeapOK'
    BY <1>1, <1>3, <2>3, MallocHeap, BuffersDiffer DEF SInv
  <2>5. LocalsOK'
    BY <1>3, <2>1, <2>2 DEF SInv, LocalsOK, MallocArray, Digests, Residue
  <2>6. WrittenOK'
    <3>1. CalculateBlockHash(tail, failed)' = CalculateBlockHash(tail, failed)
      BY <2>1 DEF CalculateBlockHash, Residue
    <3>2. Len(hashes') = 0
      BY <2>1, <2>2
    <3> QED
      BY <1>3, <2>1, <3>1, <3>2 DEF SInv, WrittenOK, MallocArray
  <2> QED
    BY <1>3, <2>4, <2>5, <2>6 DEF SInv
<1> QED
  BY <1>2, <1>3 DEF MallocArray

\* Failures of two statements are a failure of the call.
LEMMA FailuresAdd ==
  ASSUME NEW f \in Failures, NEW g \in Failures
  PROVE  (f \/ g) \in Failures /\ (f \/ g) \in BOOLEAN /\ f \in BOOLEAN
BY FailuresAreBoolean DEF Failures

\* One iteration of the loop over the transactions.
LEMMA HashTransactionStep ==
  ASSUME SInv, HashTransaction
  PROVE  SInv' /\ (CreateBlockFails \/ UNCHANGED vars)
<1>1. Held = {<<"block">>, <<"array">>} \cup Hashes(Len(hashes))
  BY DEF HashTransaction, Held
<1>2. CASE GiveUp(LoopFailedFrees)
  <2>1. LoopFailedFrees = Held
    BY <1>1 DEF LoopFailedFrees
  <2> QED
    BY <1>2, <2>1, GiveUpStep DEF HashTransaction
<1> DEFINE i == Len(hashes) + 1
<1>3. ASSUME NEW f \in Failures,
             Malloc(<<"hash", i>>),
             \E h \in IF f THEN Residue ELSE {LeafHash(txs[i])} :
               hashes' = Append(hashes, h),
             failed' = (failed \/ f),
             UNCHANGED <<vars, pc, txs, new_block, fields>>
      PROVE  SInv' /\ UNCHANGED vars
  <2>1. UNCHANGED <<alloc, body, tail, op, pc, txs, new_block, fields>>
    BY <1>3 DEF vars, memory, list
  <2>2. PICK h \in IF f THEN Residue ELSE {LeafHash(txs[i])} : hashes' = Append(hashes, h)
    BY <1>3
  <2>3. /\ txs \in TxLists /\ Len(txs) \in Nat /\ DOMAIN txs = 1 .. Len(txs)
        /\ Hashes(Len(txs)) \subseteq Buffers
    BY HashBuffers DEF SInv, LocalsOK, HashTransaction
  <2>4. hashes \in Seq(Digests) /\ Len(hashes) \in Nat /\ i \in 1 .. Len(txs)
    BY <2>3 DEF SInv, LocalsOK, HashTransaction
  <2>5. h \in Digests
    BY <2>2, <2>3, <2>4 DEF Digests
  <2>6. /\ hashes' \in Seq(Digests) /\ Len(hashes') = i
        /\ hashes'[1] = IF Len(hashes) = 0 THEN h ELSE hashes[1]
    BY <2>2, <2>4, <2>5
  <2>7. HeapOK'
    <3>1. Held' = {<<"block">>, <<"array">>} \cup Hashes(i)
      BY <2>1, <2>6 DEF Held, HashTransaction
    <3> HIDE DEF i
    <3>2. Hashes(i) = Hashes(Len(hashes)) \cup {<<"hash", i>>}
      <4>1. 1 .. i = (1 .. Len(hashes)) \cup {i}
        BY <2>4 DEF i
      <4> QED
        BY <4>1 DEF Hashes
    <3>3. Held' = Held \cup {<<"hash", i>>}
      BY <1>1, <3>1, <3>2
    <3>4. <<"hash", i>> \in Buffers
      BY <2>3, <2>4 DEF Hashes
    <3>5. <<"hash", i>> \notin Held
      <4>1. i \notin 1 .. Len(hashes)
        BY <2>4 DEF i
      <4> QED
        BY <1>1, <4>1, BuffersDiffer DEF Hashes
    <3> QED
      BY <1>3, <3>3, <3>4, <3>5, MallocHeap DEF SInv
  <2>8. LocalsOK'
    <3>1. failed' \in BOOLEAN /\ failed' \in Failures
      BY <1>3, FailuresAdd DEF SInv, LocalsOK, HashTransaction
    <3>2. Digests' = Digests
      BY <2>1 DEF Digests, Residue
    <3>3. hashes' \in Seq(Digests') /\ Len(hashes') <= Len(txs')
      BY <2>1, <2>3, <2>4, <2>6, <3>2
    <3> QED
      BY <2>1, <3>1, <3>3 DEF SInv, LocalsOK, HashTransaction
  <2>9. WrittenOK'
    <3>1. failed \in BOOLEAN /\ f \in BOOLEAN /\ failed' \in BOOLEAN
      BY <1>3, FailuresAreBoolean DEF SInv, LocalsOK
    <3>2. CalculateBlockHash(tail, failed)' = CalculateBlockHash(tail, failed')
      BY <2>1 DEF CalculateBlockHash, Residue
    <3>3. FirstLeaf(txs, failed)' = FirstLeaf(txs, failed')
      BY <2>1 DEF FirstLeaf, Residue
    <3>4. /\ CalculateBlockHash(tail, failed) \subseteq CalculateBlockHash(tail, failed')
          /\ FirstLeaf(txs, failed) \subseteq FirstLeaf(txs, failed')
          /\ FirstLeaf(txs, f) \subseteq FirstLeaf(txs, failed')
      BY <1>3, <3>1, FailureMonotone
    <3>5. Len(hashes) = 0 => h \in FirstLeaf(txs, f)
      BY <2>2, <2>3, <2>4 DEF FirstLeaf
    <3>6. hashes'[1] \in FirstLeaf(txs, failed)'
      BY <2>4, <2>6, <3>3, <3>4, <3>5 DEF SInv, WrittenOK, HashTransaction
    <3> QED
      BY <2>1, <3>2, <3>4, <3>6 DEF SInv, WrittenOK, HashTransaction
  <2> QED
    BY <1>3, <2>7, <2>8, <2>9 DEF SInv
<1> QED
  BY <1>2, <1>3 DEF HashTransaction

\* create_tree: a fault of it is that of Blockchain's create_block.
LEMMA CreateTreeStep ==
  ASSUME SInv, CreateTree
  PROVE  /\ SInv'
         /\ UNCHANGED vars \/ (txs \in TxLists /\ CreateBlockCrashes(txs))
<1>1. PICK f \in Failures : \E outcome \in CreateTreeOutcomes(Len(txs), f) :
        IF outcome = "crash"
          THEN Fault(TRUE)
          ELSE /\ fields' = [fields EXCEPT !.tree = outcome]
               /\ failed' = (failed \/ f)
               /\ pc' = "free"
               /\ UNCHANGED <<vars, txs, new_block, hashes, heap>>
  BY DEF CreateTree
<1>2. PICK outcome \in CreateTreeOutcomes(Len(txs), f) :
        IF outcome = "crash"
          THEN Fault(TRUE)
          ELSE /\ fields' = [fields EXCEPT !.tree = outcome]
               /\ failed' = (failed \/ f)
               /\ pc' = "free"
               /\ UNCHANGED <<vars, txs, new_block, hashes, heap>>
  BY <1>1
<1>3. f \in BOOLEAN /\ failed \in BOOLEAN /\ failed \in Failures
  BY FailuresAreBoolean DEF CreateTree, SInv, LocalsOK
<1>4. CASE outcome = "crash"
  <2>1. f = TRUE
    BY <1>2, <1>3, <1>4, TreeOutcomes
  <2> QED
    BY <1>2, <1>4, <2>1, FaultStep DEF CreateTree
<1>5. CASE outcome # "crash"
  <2>1. /\ UNCHANGED <<alloc, body, tail, op, txs, new_block, hashes, heap>>
        /\ fields' = [fields EXCEPT !.tree = outcome]
        /\ failed' = (failed \/ f)
        /\ pc' = "free"
    BY <1>2, <1>5 DEF vars, memory, list
  <2>2. Len(hashes) = Len(txs)
    BY DEF CreateTree, LoopDone
  <2>3. HeapOK'
    <3>1. Held = Held'
      BY <2>1, <2>2 DEF Held, CreateTree
    <3> QED
      BY <2>1, <3>1 DEF SInv, HeapOK
  <2>4. LocalsOK'
    <3>1. failed' \in BOOLEAN /\ failed' \in Failures
      BY <1>3, <2>1, FailuresAdd
    <3>2. Digests' = Digests
      BY <2>1 DEF Digests, Residue
    <3> QED
      BY <2>1, <2>2, <3>1, <3>2 DEF SInv, LocalsOK, CreateTree
  <2>5. WrittenOK'
    <3>1. failed' \in BOOLEAN
      BY <1>3, <2>1
    <3>2. CalculateBlockHash(tail, failed)' = CalculateBlockHash(tail, failed')
      BY <2>1 DEF CalculateBlockHash, Residue
    <3>3. FirstLeaf(txs, failed)' = FirstLeaf(txs, failed')
      BY <2>1 DEF FirstLeaf, Residue
    <3>4. /\ CalculateBlockHash(tail, failed) \subseteq CalculateBlockHash(tail, failed')
          /\ FirstLeaf(txs, failed) \subseteq FirstLeaf(txs, failed')
          /\ CreateTreeOutcomes(Len(txs), f) \subseteq CreateTreeOutcomes(Len(txs), failed')
      BY <1>3, <2>1, <3>1, FailureMonotone
    <3>5. /\ DOMAIN fields' = DOMAIN fields /\ fields'.prev = fields.prev
          /\ fields'.time = fields.time /\ fields'.tree = outcome
      BY <2>1 DEF SInv, WrittenOK
    <3> QED
      BY <1>5, <2>1, <3>2, <3>3, <3>4, <3>5 DEF SInv, WrittenOK, CreateTree
  <2> QED
    BY <1>2, <1>5, <2>3, <2>4, <2>5 DEF SInv
<1> QED
  BY <1>4, <1>5

\* The hashes and the array are freed.
LEMMA FreeTemporariesStep ==
  ASSUME SInv, FreeTemporaries
  PROVE  SInv' /\ UNCHANGED vars
<1>1. UNCHANGED <<alloc, body, tail, op, txs, new_block, fields, hashes, failed>>
  BY DEF FreeTemporaries, vars, memory, list
<1>2. HeapOK'
  <2>1. Held = {<<"block">>, <<"array">>} \cup Hashes(Len(txs)) /\ Held' = {<<"block">>}
    BY DEF FreeTemporaries, Held
  <2>2. Held' = Held \ (Hashes(Len(txs)) \cup {<<"array">>})
    BY <2>1, BuffersDiffer DEF Hashes
  <2> QED
    BY <2>1, <2>2, FreeHeap DEF FreeTemporaries, SInv
<1>3. LocalsOK'
  BY <1>1 DEF SInv, LocalsOK, FreeTemporaries, Digests, Residue
<1>4. WrittenOK'
  <2>1. CalculateBlockHash(tail, failed)' = CalculateBlockHash(tail, failed)
    BY <1>1 DEF CalculateBlockHash, Residue
  <2>2. FirstLeaf(txs, failed)' = FirstLeaf(txs, failed)
    BY <1>1 DEF FirstLeaf, Residue
  <2> QED
    BY <1>1, <2>1, <2>2 DEF SInv, WrittenOK, FreeTemporaries
<1> QED
  BY <1>2, <1>3, <1>4 DEF SInv, FreeTemporaries

\* The last statements are the create_block of Blockchain.
LEMMA LinkNewBlockStep ==
  ASSUME SInv, LinkNewBlock
  PROVE  SInv' /\ txs \in TxLists /\ CreateBlock(txs)
<1>1. Held = {<<"block">>}
  BY DEF LinkNewBlock, Held
<1>2. SInv'
  BY <1>1, LeaveLocals DEF LinkNewBlock
<1>3. txs \in TxLists /\ new_block \in Addr \ alloc /\ failed \in Failures /\ tail # Null
  BY DEF SInv, LocalsOK, WrittenOK, LinkNewBlock
<1>4. /\ fields.prev \in CalculateBlockHash(GetLastBlock, failed)
      /\ fields.time \in Times
      /\ fields.tree \in CreateTreeOutcomes(Len(txs), failed) \ {"crash"}
  BY DEF SInv, WrittenOK, LinkNewBlock, GetLastBlock
<1>5. RootHash \in FirstLeaf(txs, failed)
  <2>1. Len(txs) \in Nat /\ txs \in Seq(Range(txs))
    BY <1>3, HashBuffers, TxListsAssumption
  <2>2. txs # <<>> => Len(txs) > 0
    BY <2>1
  <2>3. Len(hashes) = Len(txs)
    BY DEF SInv, LocalsOK, LinkNewBlock
  <2> QED
    BY <2>2, <2>3 DEF RootHash, FirstLeaf, SInv, WrittenOK, LinkNewBlock
<1>6. CreateBlock(txs)
  BY <1>3, <1>4, <1>5 DEF CreateBlock, LinkNewBlock, Leave
<1> QED
  BY <1>2, <1>3, <1>6

\* The other calls do not run inside create_block.
LEMMA OtherSteps ==
  ASSUME SInv, OtherCall \/ SWalk \/ SCrashed \/ UNCHANGED svars
  PROVE  SInv' /\ [Next]_vars
<1>1. CASE UNCHANGED vars /\ UNCHANGED locals
  <2>1. UNCHANGED <<alloc, body, tail, op>>
    BY <1>1 DEF vars, memory, list
  <2> QED
    BY <1>1, <2>1, SameLocals DEF SInv, LocalsOK
<1>2. CASE pc = "idle" /\ UNCHANGED locals
  <2>1. UNCHANGED <<pc, txs, fields, hashes, heap, failed>>
    BY <1>2 DEF locals
  <2>2. SInv'
    BY <1>2, <2>1 DEF SInv, LocalsOK, HeapOK, Held, WrittenOK
  <2> QED
    BY <1>2, <2>2 DEF OtherCall, SWalk, SCrashed, svars, Next, Call, Crashed
<1> QED
  BY <1>1, <1>2 DEF OtherCall, SWalk, SCrashed, Crashed, svars

\* Every statement keeps the invariant and is a step of Blockchain, or none.
LEMMA StatementStep ==
  ASSUME SInv, [SNext]_svars
  PROVE  SInv' /\ [Next]_vars
<1>1. CASE \E t \in TxLists : MallocBlock(t)
  BY <1>1, MallocBlockStep DEF Next, Call
<1>2. CASE CreateBlockStep
  BY <1>2, HashLastStep, MallocArrayStep, HashTransactionStep, CreateTreeStep,
     FreeTemporariesStep, LinkNewBlockStep
  DEF CreateBlockStep, Next, Call
<1> QED
  BY <1>1, <1>2, OtherSteps DEF SNext

\* The inductive invariant of the statements of create_block.
THEOREM StepsInvariance == SSpec => []SInv
BY InitSInv, StatementStep, PTL DEF SSpec

\* Every buffer create_block allocates is freed exactly once, for lists of
\* any number of transactions, whichever malloc fails.
THEOREM BuffersCorrect == SSpec => []BuffersBalanced
<1>1. ASSUME SInv PROVE BuffersBalanced
  <2>1. pc # "idle" => <<"block">> \in Held /\ new_block \notin alloc
    BY <1>1 DEF SInv, LocalsOK, Held
  <2>2. pc = "free" => Hashes(Len(txs)) \subseteq Held /\ Hashes(Len(txs)) \subseteq Buffers
    BY <1>1, HashBuffers DEF SInv, LocalsOK, Held
  <2>3. \A o \in Buffers : heap[o] \in 0 .. 1 /\ (pc = "idle" => heap[o] = 0)
    BY <1>1 DEF SInv, HeapOK, Held
  <2>4. /\ pc = "free" => \A o \in Hashes(Len(txs)) : heap[o] = 1
        /\ pc # "idle" => heap[<<"block">>] = 1
    BY <1>1, <2>1, <2>2, BuffersDiffer DEF SInv, HeapOK
  <2> QED
    BY <2>1, <2>3, <2>4 DEF BuffersBalanced
<1> QED
  BY <1>1, StepsInvariance, PTL

\* The statements of create_block implement the single step Blockchain
\* takes for the call.
THEOREM StatementsRefine == SSpec => ImplementsBlockchain
<1>1. SInit => Init
  BY DEF SInit
<1> QED
  BY <1>1, StatementStep, StepsInvariance, PTL DEF SSpec, ImplementsBlockchain

\* What is proved of the chain in Blockchain holds between any two statements
\* of create_block.
THEOREM ChainInvariance == SSpec => []IInv
BY StatementsRefine, InitIInv, StepIInv, PTL DEF ImplementsBlockchain
=============================================================================
