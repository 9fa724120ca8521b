----------------------------- MODULE Blockchain -----------------------------
(***************************************************************************)
(* blockchain.c: a singly linked list of blocks on the heap, reached from  *)
(* a Blockchain {head, tail, count}, and the calls a client makes on it.   *)
(*                                                                         *)
(* The program has one thread.  A call that only touches one block is one  *)
(* action; the calls that walk the list (validate, print, destroy) take    *)
(* one step per loop iteration, and nothing else happens until they        *)
(* return.  The library calls (malloc, the EVP functions) may fail when    *)
(* MayFail is TRUE; most of their failures are not reported to the caller. *)
(***************************************************************************)
EXTENDS MerkleHash, Integers, FiniteSets, Functions

CONSTANTS
  Addr,      \* addresses malloc can give to a Block
  Null,      \* the NULL pointer
  Genesis,   \* the text "Genesis"
  TxLists,   \* the transaction_data arrays given to create_block
  Times,     \* what time() may return
  MayFail    \* whether library calls may fail

ASSUME NullAssumption == Null \notin Addr
ASSUME MayFailAssumption == MayFail \in BOOLEAN
ASSUME TxListsAssumption == \A txs \in TxLists : txs \in Seq(Range(txs))

VARIABLES
  alloc,     \* addresses of the Blocks allocated and not freed
  next,      \* next_block of every address
  body,      \* the other fields: prev_block_hash, timestamp, merkletree
  head, tail, count,   \* the Blockchain struct
  op,        \* the call under way, "idle" between calls
  curr,      \* the cursor of the loop under way
  ret,       \* what the last call returned
  \* history variables
  clean,     \* no library call has failed since validate_blockchain began
  degraded,  \* a failure went unreported, or a block got no transactions
  chain,     \* the blocks the list should hold, in order
  lost       \* blocks a second create_blockchain cut off

memory  == <<alloc, next, body>>
list    == <<head, tail, count>>
history == <<clean, degraded, chain, lost>>
vars    == <<memory, list, op, curr, ret, history>>

\* Whether some library call of the current step fails.
Failures == IF MayFail THEN {FALSE, TRUE} ELSE {FALSE}

\* The other fields of a Block; root is the hash in the root node and is
\* only meaningful when the tree is valid.
Body(prev, time, tree, root) ==
  [prev |-> prev, time |-> time, tree |-> tree,
   root |-> IF tree = "valid" THEN root ELSE Junk]

\* Freed or never used memory.
NoBody == [prev |-> Junk, time |-> CHOOSE t \in Times : TRUE,
           tree |-> "null", root |-> Junk]

\* What an unwritten HASH_SIZE buffer may hold: bytes of no use, or a digest
\* an earlier call left on the stack or in a recycled heap chunk.
Residue ==
  {Junk} \cup {body[a].root : a \in alloc}
         \cup {BlockHash(body[a].prev, body[a].root) : a \in alloc}

-----------------------------------------------------------------------------
(* calculate_block_hash *)

\* It reads merkletree->root->hash without looking at either pointer.
HashMayCrash(a) == a # Null => body[a].tree # "valid"

\* The digests a call that survives may leave in digest_value.  When the
\* hash of the root fails, unwritten bytes are hashed in its place; when
\* malloc or the last hash fails, digest_value itself stays unwritten.
CalculateBlockHash(a, failed) ==
  LET b == body[a]
  IN  (CASE b.tree = "valid" -> {BlockHash(b.prev, b.root)}
         [] b.tree = "wild"  -> {BlockHash(b.prev, Junk)}
         [] OTHER            -> {})
      \cup (IF failed /\ b.tree # "null"
              THEN Residue \cup {Hash(<<b.prev, g>>) : g \in Residue}
              ELSE {})

\* The hash of the first transaction as create_tree finds it.
FirstLeaf(txs, failed) ==
  IF txs = <<>> THEN {Junk}
                ELSE {LeafHash(txs[1])} \cup (IF failed THEN Residue ELSE {})

-----------------------------------------------------------------------------
(* create_blockchain *)

\* malloc of the genesis block fails: the caller is not told.
CreateBlockchainFails ==
  /\ op = "idle"
  /\ MayFail \/ alloc = Addr
  /\ degraded' = TRUE
  /\ ret' = "void"
  /\ UNCHANGED <<memory, list, op, curr, clean, chain, lost>>

\* create_tree writes to an array it did not get.
CreateBlockchainCrashes ==
  /\ op = "idle"
  /\ alloc # Addr
  /\ \E failed \in Failures : "crash" \in CreateTreeOutcomes(1, failed)
  /\ op' = "crashed"
  /\ degraded' = TRUE
  /\ UNCHANGED <<memory, list, curr, ret, clean, chain, lost>>

\* Mutant: prev_block_hash of the genesis block is not zeroed.
GenesisBodyNoMemset(time, tree, leaf) == Body(Junk, time, tree, leaf)

GenesisBody(time, tree, leaf) == Body(ZeroDigest, time, tree, leaf)

\* The genesis block replaces whatever the struct held.
CreateBlockchain ==
  /\ op = "idle"
  /\ \E failed \in Failures, a \in Addr \ alloc, time \in Times :
     \E tree \in CreateTreeOutcomes(1, failed) \ {"crash"},
        leaf \in FirstLeaf(<<Genesis>>, failed) :
       /\ alloc' = alloc \cup {a}
       /\ next' = [next EXCEPT ![a] = Null]
       /\ body' = [body EXCEPT ![a] = GenesisBody(time, tree, leaf)]
       /\ head' = a
       /\ tail' = a
       /\ chain' = <<a>>
       /\ degraded' = (degraded \/ failed)
  /\ count' = 1
  /\ lost' = lost \cup Range(chain)
  /\ ret' = "void"
  /\ UNCHANGED <<op, curr, clean>>

-----------------------------------------------------------------------------
(* create_block *)

\* One of create_block's own mallocs fails: what it allocated is freed, NULL
\* is returned.
CreateBlockFails ==
  /\ op = "idle"
  /\ MayFail \/ alloc = Addr
  /\ ret' = "null"
  /\ UNCHANGED <<memory, list, op, curr, history>>

\* The hash of the last block is computed before tail is compared to NULL;
\* create_tree may fault on an array or a node it did not get.
CreateBlockCrashes(txs) ==
  /\ op = "idle"
  /\ alloc # Addr
  /\ \E failed \in Failures :
       /\ \/ HashMayCrash(tail)
          \/ "crash" \in CreateTreeOutcomes(Len(txs), failed)
       /\ degraded' = (degraded \/ failed)
  /\ op' = "crashed"
  /\ UNCHANGED <<memory, list, curr, ret, clean, chain, lost>>

\* Mutant: the old tail is not made to point at the new block.
NotRelinked(a) == [next EXCEPT ![a] = Null]

\* next_block of the old tail, which is not NULL, and of the new block.
Relinked(a) == [next EXCEPT ![a] = Null, ![tail] = a]

\* The end of create_block: the new block becomes the tail.
LinkBlock(a, b) ==
  /\ alloc' = alloc \cup {a}
  /\ body' = [body EXCEPT ![a] = b]
  /\ next' = IF tail # Null THEN Relinked(a) ELSE [next EXCEPT ![a] = Null]
  /\ head' = IF tail # Null THEN head ELSE a
  /\ tail' = a
  /\ count' = count + 1
  /\ chain' = Append(chain, a)

\* Mutant: the first block instead of the last.
GetFirstBlock == head

\* The block a new one is linked to.
GetLastBlock == tail

\* The block is appended whatever calculate_block_hash, compute_hash and
\* create_tree made of it.
CreateBlock(txs) ==
  /\ op = "idle"
  /\ tail # Null
  /\ \E failed \in Failures, a \in Addr \ alloc, time \in Times :
     \E prev \in CalculateBlockHash(GetLastBlock, failed),
        leaf \in FirstLeaf(txs, failed),
        tree \in CreateTreeOutcomes(Len(txs), failed) \ {"crash"} :
       /\ LinkBlock(a, Body(prev, time, tree, leaf))
       /\ degraded' = (degraded \/ failed \/ txs = <<>>)
  /\ ret' = "block"
  /\ UNCHANGED <<op, curr, clean, lost>>

-----------------------------------------------------------------------------
(* validate_blockchain and validate_block *)

ValidateBegin ==
  /\ op = "idle"
  /\ IF head = Null
       THEN /\ ret' = "false"
            /\ UNCHANGED <<op, curr>>
       ELSE /\ op' = "validating"
            /\ curr' = head
            /\ UNCHANGED ret
  /\ clean' = TRUE
  /\ UNCHANGED <<memory, list, degraded, chain, lost>>

\* Mutant: the loop goes on after a link that does not hold.
ValidateLinkNoBreak ==
  /\ op = "validating"
  /\ next[curr] # Null
  /\ \E failed \in Failures : clean' = (clean /\ ~failed)
  /\ body[curr].tree = "valid"
  /\ curr' = next[curr]
  /\ UNCHANGED <<memory, list, op, ret, degraded, chain, lost>>

\* validate_block(curr->next_block, curr)
ValidateLink ==
  /\ op = "validating"
  /\ next[curr] # Null
  /\ \E failed \in Failures :
       /\ clean' = (clean /\ ~failed)
       /\ \E digest \in CalculateBlockHash(curr, failed) :
            IF body[next[curr]].prev = digest
              THEN curr' = next[curr] /\ UNCHANGED <<op, ret>>
              ELSE curr' = Null /\ op' = "idle" /\ ret' = "false"
  /\ UNCHANGED <<memory, list, degraded, chain, lost>>

ValidateCrashes ==
  /\ op = "validating"
  /\ next[curr] # Null
  /\ HashMayCrash(curr)
  /\ op' = "crashed"
  /\ UNCHANGED <<memory, list, curr, ret, history>>

ValidateEnd ==
  /\ op = "validating"
  /\ next[curr] = Null
  /\ op' = "idle"
  /\ curr' = Null
  /\ ret' = "true"
  /\ UNCHANGED <<memory, list, history>>

-----------------------------------------------------------------------------
(* print_blockchain: a NULL tree is looked at, a NULL or wild root is not. *)

PrintBegin ==
  /\ op = "idle"
  /\ IF head = Null
       THEN ret' = "void" /\ UNCHANGED <<op, curr>>
       ELSE op' = "printing" /\ curr' = head /\ UNCHANGED ret
  /\ UNCHANGED <<memory, list, history>>

\* Mutant: the loop does not go on to the next block.
PrintBlockStuck ==
  /\ op = "printing"
  /\ body[curr].tree # "nullroot"
  /\ UNCHANGED vars

PrintBlock ==
  /\ op = "printing"
  /\ \E failed \in Failures : body[curr].tree # "nullroot" \/ failed
  /\ curr' = next[curr]
  /\ op' = IF curr' = Null THEN "idle" ELSE "printing"
  /\ ret' = IF curr' = Null THEN "void" ELSE ret
  /\ UNCHANGED <<memory, list, history>>

\* Mutant: the loop runs past the last block.
PrintCrashesAtEnd ==
  /\ op = "printing"
  /\ next[curr] = Null
  /\ op' = "crashed"
  /\ UNCHANGED <<memory, list, curr, ret, history>>

\* A failed hash leaves root_hash_size unset, and the loop that prints
\* root_hash runs to whatever it holds.
PrintCrashes ==
  /\ op = "printing"
  /\ \E failed \in Failures :
       /\ \/ body[curr].tree \in {"nullroot", "wild"}
          \/ failed /\ body[curr].tree = "valid"
       /\ degraded' = (degraded \/ failed)
  /\ op' = "crashed"
  /\ UNCHANGED <<memory, list, curr, ret, clean, chain, lost>>

-----------------------------------------------------------------------------
(* destroy_blockchain *)

DestroyBegin ==
  /\ op = "idle"
  /\ op' = "destroying"
  /\ curr' = head
  /\ UNCHANGED <<memory, list, ret, history>>

\* Mutant: next_block is read from the block after it was freed.
DestroyBlockUseAfterFree ==
  /\ op = "destroying"
  /\ curr # Null
  /\ alloc' = alloc \ {curr}
  /\ body' = [body EXCEPT ![curr] = NoBody]
  /\ next' = [next EXCEPT ![curr] = Null]
  /\ curr' = next'[curr]
  /\ chain' = Tail(chain)
  /\ UNCHANGED <<list, op, ret, clean, degraded, lost>>

\* Mutant: the block's tree is freed, the block is not.
DestroyBlockNotFreed ==
  /\ op = "destroying"
  /\ curr # Null
  /\ curr' = next[curr]
  /\ chain' = Tail(chain)
  /\ UNCHANGED <<memory, list, op, ret, clean, degraded, lost>>

\* free_tree and free of one block; the tree's own nodes are in MerkleTree.
DestroyBlock ==
  /\ op = "destroying"
  /\ curr # Null
  /\ alloc' = alloc \ {curr}
  /\ body' = [body EXCEPT ![curr] = NoBody]
  /\ next' = [next EXCEPT ![curr] = Null]
  /\ curr' = next[curr]
  /\ chain' = Tail(chain)
  /\ UNCHANGED <<list, op, ret, clean, degraded, lost>>

\* free_node follows a wild root.
DestroyCrashes ==
  /\ op = "destroying"
  /\ curr # Null
  /\ body[curr].tree = "wild"
  /\ op' = "crashed"
  /\ UNCHANGED <<memory, list, curr, ret, history>>

\* Mutant: count is decremented instead of reset.
DestroyEndDecrements ==
  /\ op = "destroying"
  /\ curr = Null
  /\ head' = Null
  /\ tail' = Null
  /\ count' = count - 1
  /\ op' = "idle"
  /\ ret' = "void"
  /\ UNCHANGED <<memory, curr, history>>

DestroyEnd ==
  /\ op = "destroying"
  /\ curr = Null
  /\ head' = Null
  /\ tail' = Null
  /\ count' = 0
  /\ op' = "idle"
  /\ ret' = "void"
  /\ UNCHANGED <<memory, curr, history>>

-----------------------------------------------------------------------------
\* Blockchain blockchain = {0}
Init ==
  /\ alloc = {}
  /\ next = [a \in Addr |-> Null]
  /\ body = [a \in Addr |-> NoBody]
  /\ head = Null /\ tail = Null /\ count = 0
  /\ op = "idle" /\ curr = Null /\ ret = "void"
  /\ clean = TRUE /\ degraded = FALSE
  /\ chain = <<>> /\ lost = {}

\* A step inside a walking call.
Walk ==
  \/ ValidateLink \/ ValidateCrashes \/ ValidateEnd
  \/ PrintBlock \/ PrintCrashes
  \/ DestroyBlock \/ DestroyCrashes \/ DestroyEnd

\* The client makes a call.
Call ==
  \/ CreateBlockchain \/ CreateBlockchainFails \/ CreateBlockchainCrashes
  \/ CreateBlockFails
  \/ \E txs \in TxLists : CreateBlock(txs) \/ CreateBlockCrashes(txs)
  \/ ValidateBegin \/ PrintBegin \/ DestroyBegin

\* The process is gone.
Crashed == op = "crashed" /\ UNCHANGED vars

Next == Call \/ Walk \/ Crashed

\* The thread keeps executing the call it is in; nothing obliges the client
\* to make one.
Spec == Init /\ [][Next]_vars /\ WF_vars(Walk)

-----------------------------------------------------------------------------
(* Properties *)

\* Types of the state: addresses, the call under way and what it returned.
TypeOK ==
  /\ alloc \subseteq Addr
  /\ next \in [Addr -> Addr \cup {Null}]
  /\ body = [a \in Addr |-> body[a]]
  /\ \A a \in Addr : /\ DOMAIN body[a] = {"prev", "time", "tree", "root"}
                     /\ body[a].tree \in TreeStates
  /\ {head, tail, curr} \subseteq Addr \cup {Null}
  /\ count \in Nat
  /\ op \in {"idle", "validating", "printing", "destroying", "crashed"}
  /\ ret \in {"void", "null", "block", "true", "false"}
  /\ clean \in BOOLEAN /\ degraded \in BOOLEAN
  /\ chain \in Seq(Addr) /\ lost \subseteq Addr

Standing == op \in {"idle", "validating", "printing"}

\* The next_block pointers describe one finite list without sharing, which
\* holds exactly the blocks created, in order of creation, or those of them
\* that destroy_blockchain has not freed yet; outside destroy_blockchain head
\* and tail are its ends and count is its length.
ListShape ==
  /\ \A i \in DOMAIN chain :
       next[chain[i]] = IF i = Len(chain) THEN Null ELSE chain[i + 1]
  /\ Standing =>
       /\ count = Len(chain)
       /\ head = IF chain = <<>> THEN Null ELSE chain[1]
       /\ tail = IF chain = <<>> THEN Null ELSE chain[Len(chain)]

\* No block is leaked or freed twice: the allocated blocks are those of the
\* list (during destroy_blockchain, those it has yet to free), each once,
\* and the ones a second create_blockchain cut off.
NoBlockLeaks ==
  /\ alloc = Range(chain) \cup lost
  /\ Range(chain) \cap lost = {}
  /\ \A i, j \in DOMAIN chain : chain[i] = chain[j] => i = j

\* The cursor of a loop never points at freed memory: while it walks, it is
\* on a block of the list, and destroy_blockchain is at the first block left.
CursorInChain ==
  /\ op \in {"validating", "printing"} => curr \in Range(chain)
  /\ op = "destroying" => curr = IF chain = <<>> THEN Null ELSE chain[1]

Link(i) ==
  body[chain[i + 1]].prev = BlockHash(body[chain[i]].prev, body[chain[i]].root)

AllTreesValid == \A i \in DOMAIN chain : body[chain[i]].tree = "valid"

\* Without unreported failures and empty transaction lists, every block of
\* the chain has a tree and carries the digest of the block before it.
LinksHold ==
  ~degraded =>
    /\ AllTreesValid
    /\ \A i \in 1 .. Len(chain) - 1 : Link(i)

\* The process only crashes after an unreported failure or an empty
\* transaction list, or when create_block is called on an empty chain.
CrashOnlyWhenDegraded == op = "crashed" => degraded \/ tail = Null

\* When no library call fails during validate_blockchain, its answer on a
\* chain with all its trees is right: true exactly when every link holds,
\* for chains whose creation went wrong unnoticed as well.
VerdictIsRight ==
  op = "idle" /\ clean /\ chain # <<>> /\ AllTreesValid =>
    /\ ret = "true" => \A i \in 1 .. Len(chain) - 1 : Link(i)
    /\ ret = "false" => \E i \in 1 .. Len(chain) - 1 : ~Link(i)

\* The loop of validate_blockchain has checked the links up to its cursor.
CheckedSoFar ==
  op = "validating" /\ clean /\ AllTreesValid =>
    \A k \in DOMAIN chain : chain[k] = curr => \A i \in 1 .. k - 1 : Link(i)

\* The part of LinksHold that does not depend on what the fields hold.
TreesHold == ~degraded => AllTreesValid

\* The strengthening that makes the safety properties above inductive: first
\* what holds whatever is written to the links and roots, then the links.
ShapeInv ==
  /\ TypeOK /\ ListShape /\ NoBlockLeaks /\ CursorInChain
  /\ TreesHold /\ CrashOnlyWhenDegraded /\ CheckedSoFar /\ VerdictIsRight

IInv == ShapeInv /\ LinksHold

\* README.md:7 "blocks that link to each other": every block create_block
\* returned carries the digest of the block before it.
BlocksLinkToEachOther == \A i \in 1 .. Len(chain) - 1 : Link(i)

\* Every walking call comes to an end.
CallsReturn ==
  op \in {"validating", "printing", "destroying"} ~> op \in {"idle", "crashed"}

\* destroy_blockchain leaves an empty struct and frees every block it could
\* reach, unless it crashes on a wild root.
DestroyReleasesAll ==
  op = "destroying" ~>
    \/ op = "crashed"
    \/ op = "idle" /\ head = Null /\ tail = Null /\ count = 0 /\ alloc = lost

\* The ledger the heap stands for: gone once destruction or a crash begins.
LedgerView ==
  IF Standing THEN [i \in 1 .. Len(chain) |-> body[chain[i]]] ELSE <<>>

Ledger == INSTANCE Ledger WITH ledger <- LedgerView

\* The linked list implements the append-only ledger.
ImplementsLedger == Ledger!Spec
=============================================================================
