-------------------------- MODULE CreateBlockSteps --------------------------
(***************************************************************************)
(* create_block of blockchain.c statement by statement, with the buffers   *)
(* it allocates on the way.  Blockchain takes the whole call as one step;  *)
(* here the chain is only touched by the last statement, and the module    *)
(* shows that the statements together are one of the steps of Blockchain.  *)
(* The other calls on the chain are those of Blockchain.                   *)
(***************************************************************************)
EXTENDS Blockchain

VARIABLES
  pc,          \* the statement create_block is at, "idle" outside the call
  txs,         \* transaction_data
  new_block,   \* the block being made
  fields,      \* its prev_block_hash, timestamp and tree as written so far
  hashes,      \* the contents of transaction_hashes[0], [1], ...
  heap,        \* how often each buffer of the call is allocated
  failed       \* a library call failed and create_block did not notice

locals == <<pc, txs, new_block, fields, hashes, heap, failed>>
svars  == <<vars, locals>>

\* The buffers of the call: the block, the array, and one per transaction.
Buffers ==
  {<<"block">>, <<"array">>} \cup UNION {{<<"hash", k>> : k \in DOMAIN t} : t \in TxLists}

Hashes(n) == {<<"hash", k>> : k \in 1 .. n}

Malloc(o) == heap' = [heap EXCEPT ![o] = @ + 1]

Free(os) == heap' = [o \in Buffers |-> IF o \in os THEN heap[o] - 1 ELSE heap[o]]

NoFields == [prev |-> Junk, time |-> CHOOSE t \in Times : TRUE, tree |-> "null"]

SInit ==
  /\ Init
  /\ pc = "idle" /\ txs = <<>> /\ new_block = Null
  /\ fields = NoFields /\ hashes = <<>> /\ failed = FALSE
  /\ heap = [o \in Buffers |-> 0]

\* return NULL, or the block; the local variables are gone.
Leave(value) ==
  /\ ret' = value
  /\ pc' = "idle" /\ txs' = <<>> /\ new_block' = Null
  /\ fields' = NoFields /\ hashes' = <<>> /\ failed' = FALSE

\* An error path: the buffers os are freed and NULL is returned.
GiveUp(os) ==
  /\ MayFail
  /\ Free(os)
  /\ Leave("null")
  /\ UNCHANGED <<memory, list, op, curr, history>>

\* A fault ends the process.
Fault(unnoticed) ==
  /\ op' = "crashed"
  /\ degraded' = (degraded \/ unnoticed)
  /\ UNCHANGED <<memory, list, curr, ret, clean, chain, lost, locals>>

\* malloc of the new block.
MallocBlock(t) ==
  /\ op = "idle" /\ pc = "idle"
  /\ \/ /\ MayFail \/ alloc = Addr
        /\ Leave("null")
        /\ UNCHANGED <<memory, list, op, curr, history, heap>>
     \/ /\ \E a \in Addr \ alloc : new_block' = a
        /\ Malloc(<<"block">>)
        /\ txs' = t
        /\ pc' = "hash_last"
        /\ UNCHANGED <<vars, fields, hashes, failed>>

\* Whether the hash of the last block failed is not asked.
AfterHash(f) == "array"

\* calculate_block_hash(last), memcpy and time; tail may be NULL.
HashLast ==
  /\ op = "idle" /\ pc = "hash_last"
  /\ \E f \in Failures :
       \/ HashMayCrash(tail) /\ Fault(f)
       \/ /\ tail # Null
          /\ \E prev \in CalculateBlockHash(GetLastBlock, f), now \in Times :
               fields' = [fields EXCEPT !.prev = prev, !.time = now]
          /\ failed' = f
          /\ pc' = AfterHash(f)
          /\ UNCHANGED <<vars, txs, new_block, hashes, heap>>

\* What is freed when malloc of transaction_hashes fails.
ArrayFailedFrees == {<<"block">>}

MallocArray ==
  /\ op = "idle" /\ pc = "array"
  /\ \/ GiveUp(ArrayFailedFrees)
     \/ /\ Malloc(<<"array">>)
        /\ pc' = "loop"
        /\ UNCHANGED <<vars, txs, new_block, fields, hashes, failed>>

\* Mutant: the loop over j also frees the entry whose malloc failed.
LoopFailedFreesOneMore ==
  Hashes(Len(hashes) + 1) \cup {<<"array">>, <<"block">>}

\* What is freed when malloc of transaction_hashes[i] fails.
LoopFailedFrees == Hashes(Len(hashes)) \cup {<<"array">>, <<"block">>}

\* One iteration: malloc of transaction_hashes[i] and compute_hash, which
\* leaves the buffer unwritten when it fails.
HashTransaction ==
  /\ op = "idle" /\ pc = "loop"
  /\ Len(hashes) < Len(txs)
  /\ \/ GiveUp(LoopFailedFrees)
     \/ \E f \in Failures :
          LET i == Len(hashes) + 1
          IN  /\ Malloc(<<"hash", i>>)
              /\ \E h \in IF f THEN Residue ELSE {LeafHash(txs[i])} :
                   hashes' = Append(hashes, h)
              /\ failed' = (failed \/ f)
              /\ UNCHANGED <<vars, pc, txs, new_block, fields>>

LoopDone == Len(hashes) = Len(txs)

\* create_tree; what it returns is not looked at.
CreateTree ==
  /\ op = "idle" /\ pc = "loop"
  /\ LoopDone
  /\ \E f \in Failures :
     \E outcome \in CreateTreeOutcomes(Len(txs), f) :
       IF outcome = "crash"
         THEN Fault(TRUE)
         ELSE /\ fields' = [fields EXCEPT !.tree = outcome]
              /\ failed' = (failed \/ f)
              /\ pc' = "free"
              /\ UNCHANGED <<vars, txs, new_block, hashes, heap>>

FreeTemporaries ==
  /\ op = "idle" /\ pc = "free"
  /\ Free(Hashes(Len(txs)) \cup {<<"array">>})
  /\ pc' = "link"
  /\ UNCHANGED <<vars, txs, new_block, fields, hashes, failed>>

\* Mutant: the root is taken from the last buffer.
RootHashOfLast == IF txs = <<>> THEN Junk ELSE hashes[Len(txs)]

\* What the root of the tree was made from.
RootHash == IF txs = <<>> THEN Junk ELSE hashes[1]

\* The block is linked and belongs to the chain from here on.
LinkNewBlock ==
  /\ op = "idle" /\ pc = "link"
  /\ LinkBlock(new_block,
               Body(fields.prev, fields.time, fields.tree, RootHash))
  /\ degraded' = (degraded \/ failed \/ txs = <<>>)
  /\ Free({<<"block">>})
  /\ Leave("block")
  /\ UNCHANGED <<op, curr, clean, lost>>

CreateBlockStep ==
  \/ HashLast \/ MallocArray \/ HashTransaction
  \/ CreateTree \/ FreeTemporaries \/ LinkNewBlock

\* The other calls, which never run inside create_block.
OtherCall ==
  /\ pc = "idle"
  /\ \/ CreateBlockchain \/ CreateBlockchainFails \/ CreateBlockchainCrashes
     \/ ValidateBegin \/ PrintBegin \/ DestroyBegin
  /\ UNCHANGED locals

SWalk == pc = "idle" /\ Walk /\ UNCHANGED locals

SCrashed == Crashed /\ UNCHANGED locals

SNext == \/ \E t \in TxLists : MallocBlock(t)
         \/ CreateBlockStep
         \/ OtherCall
         \/ SWalk
         \/ SCrashed

SSpec == SInit /\ [][SNext]_svars /\ WF_svars(CreateBlockStep) /\ WF_svars(SWalk)

-----------------------------------------------------------------------------
(* Properties *)

\* Every buffer create_block allocates is freed exactly once on every path
\* that returns, the paths on which the malloc of a later transaction's hash
\* fails included: no buffer is freed that is not allocated, none is
\* allocated twice, and none is left when the call is over.  While it lasts,
\* create_tree gets one live buffer per transaction, and the block to be linked
\* is allocated and none of the chain's.
BuffersBalanced ==
  /\ \A o \in Buffers : heap[o] \in 0 .. 1
  /\ pc = "idle" => \A o \in Buffers : heap[o] = 0
  /\ pc = "free" => \A o \in Hashes(Len(txs)) : heap[o] = 1
  /\ pc # "idle" => heap[<<"block">>] = 1 /\ new_block \notin alloc

\* Statement by statement, create_block does what Blockchain lets it do in
\* one step: the chain is changed by the linking alone, a call that gives up
\* leaves no trace, and a failure nobody noticed is accounted for.
ImplementsBlockchain == Init /\ [][Next]_vars
=============================================================================
