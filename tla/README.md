# A TLA+ model of cblockchain

The repository is a small C program: a chain of blocks on the heap
(`blockchain.c`), a Merkle tree per block (`merkletree.c`), SHA3-512 through
OpenSSL's EVP interface (`compute_hash` in `merkletree.c`) and a `main.c` that
builds, validates, prints and destroys one chain. It has one thread, no files,
no network and no tests. What makes it hard is failure: nearly every step calls
`malloc` or OpenSSL, most failures are not reported to the caller, and the
program goes on with unwritten buffers and missing trees. OpenSSL 3.4.0 is
vendored under `openssl-3.4.0/`; the three of its parts that carry a call of
`compute_hash` (fetching a method, the digest context, the SHA-3 sponge) are
modelled too, with the threads and the calls a library has to expect.

## The parts and how they interact

| Part | State | Operations | Hard behaviour | Correct when |
|---|---|---|---|---|
| chain (`blockchain.c`) | `Blockchain {head, tail, count}`, `Block`s on the heap linked by `next_block` | `create_blockchain`, `create_block`, `get_last_block`, `destroy_blockchain`, `print_blockchain` | calls in any order, calls on an empty chain, unreported failures, a second `create_blockchain` | the list holds exactly the created blocks in order, no block leaks, no cursor dangles, the walks end |
| block hash and validation (`blockchain.c`) | none of their own | `calculate_block_hash`, `validate_block`, `validate_blockchain` | a hash that fails is compared all the same | true exactly when every link holds; a rewritten chain is noticed |
| Merkle tree (`merkletree.c`) | nodes and level arrays on the heap | `create_tree`, `create_node`, `combine_hashes`, `free_tree`, `free_node` | shrinking loop bounds, zero transactions, failing `malloc`s | accesses in bounds, a root that stands for the transactions, nothing left behind |
| hashing (`merkletree.c`) | three OpenSSL handles, the caller's buffer | `compute_hash` | seven calls, each may fail; `int` to `unsigned int` | everything freed, the buffer never overrun |
| `block_to_string` (`blockchain.c`) | a text buffer of 236 bytes | `block_to_string` | the text may be longer than the buffer; the loop runs to a size a failed hash leaves unwritten | the buffer is never left, only the root's digits are cut |
| `main.c` | position in its call sequence | `main` | ignores what `create_block` returns | ends with everything freed, reports errors only when there are some |
| SHA-3 context (OpenSSL `sha3.c`, `sha3_prov.c`) | sponge, partial block, phase | init, update, final, squeeze | pieces of any length, the padding at a block's end | the sponge absorbs the padded message, the output is one stream |
| digest contexts (OpenSSL `evp/digest.c`) | `EVP_MD_CTX`, reference counts of `EVP_MD`, provider contexts | fetch, up_ref, free, new, reset, init, update, final, squeeze, copy | reuse, copies, any step failing | exact references, one owner per provider context, a digest of the data fed |
| method fetching (OpenSSL `evp_fetch.c`, `core_fetch.c`, `core_algorithm.c`, `property.c`, `provider_core.c`) | activation counts, operation bits, method store, query cache | fetch, load, unload | threads between locks, a lock-free count, random flushes | exact references and counts, a provider in use stays active, what is marked as constructed is stored |

`main` calls the chain; `create_blockchain` and `create_block` call `create_tree`
and `compute_hash`; validation, printing and `create_block` call `compute_hash`
on the root of a block's tree; `destroy_blockchain` calls `free_tree`. All calls
are synchronous. The only shared state is the heap. `compute_hash` creates a
library context, fetches SHA3-512 in it, and runs one digest through an
`EVP_MD_CTX`, whose provider context is a SHA-3 context.

Nothing calls `block_to_string`, `print_compute_hash`, `add_transaction`
or `get_last_block`; `print_block` is declared in `blockchain.h:44` and defined nowhere.

## Modules

| Module | Models |
|---|---|
| `MerkleHash` | digests as terms, and the outcomes of `create_tree` its callers see |
| `Blockchain` | `blockchain.c`: heap, struct, all calls; the walking calls take one step per loop iteration |
| `Ledger` | abstract specification: an append-only sequence of linked blocks |
| `Tampering` | `Blockchain` with a writer that overwrites any field of a block between calls, pointers included |
| `MerkleTree` | `create_tree` and `free_tree`, one step per allocation, iteration and free |
| `CreateBlockSteps` | `create_block` statement by statement with its temporary buffers, among the other calls of `Blockchain`; implements `Blockchain` |
| `ComputeHash` | `compute_hash`, one step per EVP call |
| `BlockString` | `block_to_string`, one step per `snprintf`, with `ComputeHash` inside |
| `MainProgram` | `main.c` on top of `Blockchain` |
| `Keccak` | OpenSSL: the SHA-3 context, both ways of feeding it (provider and `ossl_sha3_update`), final and squeeze |
| `EvpDigest` | OpenSSL: `EVP_MD` and `EVP_MD_CTX` over provided methods |
| `MethodFetch` | OpenSSL: fetching threads against loading and unloading ones, one step per lock held; each provider of a walk is pinned under its own lock |
| `BlockchainProofs` | theorems about `Blockchain`, its refinement of `Ledger` included |
| `CreateBlockStepsProofs` | theorems about `CreateBlockSteps`, its refinement of `Blockchain` included |
| `ClientProofs` | theorems about `Tampering` and `MainProgram` |
| `MerkleTreeProofs` | theorems about `MerkleTree` |
| `BlockStringProofs` | theorems about `ComputeHash` and `BlockString` |
| `KeccakProofs`, `EvpDigestProofs`, `MethodFetchProofs` | theorems about the three modules of OpenSSL |
| `MC*` | instances for TLC |

`PROJECT.json` maps every definition to the lines it models. Definitions whose
comment starts with "Mutant" are faults put into a definition on purpose, to see
that a property notices them; no specification uses them.

### State and actions of `Blockchain`

`alloc`, `next` and `body` are the heap (`next_block` apart from the other
fields), `head`, `tail`, `count` the struct, `op` and `curr` the call under way
and its cursor, `ret` the last return value. Four history variables serve the
properties: `chain` (the blocks the list should hold), `lost` (blocks cut off by
a second `create_blockchain`), `degraded` (a failure went unreported, or a block
got no transactions) and `clean` (no failure since validation began).

`create_blockchain` and `create_block` are one action each for success
(`CreateBlockchain`, `CreateBlock`), for giving up (`...Fails`) and for faulting
(`...Crashes`). A call of the code that dereferences NULL or a wild pointer may
end the process (`op = "crashed"`); a wild pointer may also happen to be readable.
An unwritten buffer holds `Junk` or a digest that was around before (`Residue`),
so a stale digest that happens to be right is covered too.

`create_block` has no guard on an empty chain: it hashes `tail` at line 29 before
it compares it with NULL at line 67, so on an empty chain only the crash and the
failing `malloc` are possible. A `malloc` that fails inside `create_tree` or
`calculate_block_hash` does not stop it: the block is appended.

### The other modules

* `CreateBlockSteps` extends `Blockchain` and replaces its one-step
  `create_block` by the statements, with `heap` counting how often each buffer
  is allocated. The chain is only touched by `LinkNewBlock`; `ImplementsBlockchain`
  says that a whole call is one of the steps `Blockchain` allows, or none.
* `Tampering` extends `Blockchain` by `Overwrite`: between two calls one field of
  one block changes, its link, root or timestamp (`OverwriteData`) or a pointer
  (`OverwritePointer`: `next_block`, `merkletree`, the root in it). The writer is
  not in the repository; `Block` is a public struct and `create_block` hands out
  pointers into the list. A pointer becomes NULL or points to a block of the
  list, never to other memory. `sealed` keeps the blocks as they were when the
  last one was appended, `seen` where the cursor of a validation has been,
  `rewired` whether a pointer was overwritten. From then on the list is only
  validated: on a circle `print_blockchain` does not end and
  `destroy_blockchain` frees a block twice, and no verdict could prevent either.
* `BlockString` extends `ComputeHash`: `HashRoot` is one step of `compute_hash`,
  whose `*digest_length` is `root_hash_size`. A failed `compute_hash` leaves it
  unwritten, at 0, at the digest's size or at the error value, and the loop over
  `root_hash` runs to it.
* `Keccak` keeps what was absorbed as a sequence of bytes and the output as
  positions of a stream; the permutation itself is abstract. Bytes of the buffer
  that are not in use keep what they held. Its client feeds nothing once output
  was taken, as `openssl-3.4.0/doc/designs/xof.md:25` demands; what a client that
  does not keep to this gets is in `EvpDigest`.
* `EvpDigest`: `evp` holds the contexts, the reference counts and the provider
  contexts. An init step is composed of the code's parts: dropping the old
  method (`ClearDigest`), fetching one for a method without provider
  (`Fetched`), attaching it (`Attach`), and calling its newctx and dinit
  (`UseMethod`), each of which may fail. A failed init may leave a context with
  a method but without a started provider context, and a client does not update,
  finish or squeeze such a context (`MayUse`); it may reset, free, copy or set it
  up again. An update after a squeeze is accepted but not absorbed (`Dupdate`): the
  provider returns 1, and bytes waiting to be squeezed may be overwritten
  (`Garbled`). Copies onto the context itself and of methods without a dupctx
  are included.
* `MethodFetch`: a fetch goes through `CacheGet`, `CopyProviders`, for each
  provider `Pin`, `GoThrough`, for each provider `Reserve`, `Construct`,
  `Unreserve`, then `Unpin`, `StoreFetch`, `FillCache` and later `Release`; a
  loader through `Load`, `FlushAll`, `Unload`, `ClearBits`, `RemoveMethods`. What
  the code does under one lock is one step. A query that has optional properties
  may find any matching method (`Wanted`), since each may score best. The
  history variable `spoiled` records the two mishaps `ConstructedMeansStored`
  excuses.

### Abstractions

* SHA3-512 is free of collisions: `Hash(data)` is a term. Two texts hash alike only
  when they are equal, and no transaction text is a digest.
* A transaction is a model value; only equality of texts matters. Only the first
  transaction reaches a block's hash, as `MerkleTree` shows, so `Blockchain`
  keeps the first leaf's hash as the root.
* What `create_tree` does inside is in `MerkleTree`; `Blockchain` uses the set
  `CreateTreeOutcomes`, and `TreeAsPromised` shows that it covers what
  `create_tree` does.
* `count` is an unbounded number; it cannot exceed the number of blocks on the heap.
* glibc's `malloc(0)` returns a pointer unless it fails.
* OpenSSL: allocations and fetches fail, locks and atomic counters do not. Left out
  are engines, methods without provider other than as a name to fetch by,
  signature contexts, `EVP_DigestFinalXOF`, child providers, temporary stores,
  fallback providers, the contents of property queries (a query matches a set of
  providers) and the s390x code.

The output the repository's `README.md` prints for `main` was recomputed: a block's
`Previous Block Hash` is SHA3-512 of the previous block's `prev_block_hash`
followed by SHA3-512 of its root, the root being SHA3-512 of the first
transaction only, without the timestamp. That is `BlockHash` on `LeafHash`.

## Runs

| Run | Bounds | Shows |
|---|---|---|
| `blockchain_failures` | 3 addresses, lists of 0, 1, 2 transactions, every library call may fail | list shape, no leak, cursor, links, crashes, verdict, refinement of `Ledger` |
| `create_block_steps` | 2 addresses, lists of 0, 1, 3 transactions, every `malloc` and hash may fail | temporaries freed exactly once, tree built from live buffers, refinement of `Blockchain`; the walks return, destroy releases every reachable block |
| `tamper_evidence` | 3 blocks, 2 overwrites of any field, 2 times, 2 texts, one of them the genesis block's | an accepted list ends and is linked, validation meets no block twice, and a list accepted down to the original last link is the chain as it was, but for times and the last block's root |
| `merkle_tree` | 0 to 9 transactions, every library call may fail | outcome, root, accesses in bounds, what stays on the heap, termination |
| `block_string` | timestamps of 1 to 20 characters, all EVP failures, 7 digest sizes, 8-bit `unsigned int`, 64-byte hash, 236-byte buffer | `compute_hash`: cleanup and buffer; `block_to_string`: text in its buffer, what is cut, reads of the hash |
| `main_program` | 3 addresses, all failures | `main` ends, errors and crashes only after a failure |
| `keccak` | blocks of 4 bytes, 12 bytes in, 12 bytes out, in pieces of every length | absorbed message, padding, output stream |
| `evp_digest` | 2 contexts, 2 methods and one to fetch by, 2 provider contexts, 1 piece of data | references, ownership, no use after free, the digest is of the data fed |
| `method_fetch` | 2 fetching and 2 loading threads, 2 providers, 1 query, 3 method objects, a flush due after each entry | references, count of the cache, activation, operation bits |
| `blockchain_unlinked`, `timestamp_integrity`, `root_coverage` | as above | the three findings below |

Why the bounds are enough: three addresses give a first, a middle and a last
block, recycled addresses after a destroy, and a lost list next to a new one; an
exhausted address set is a failing `malloc`. Lists of 0, 1 and 2 transactions
are the cases `CreateTreeOutcomes` tells apart; three transactions let a
`malloc` of `create_block` fail before, in and after the middle of its loop, and
two addresses let it meet an empty chain, a block to link to and an exhausted
heap. Two overwrites are enough to change a block and repair the link after it, or to
drop a block and give the one after it the link it now needs; with a second block
whose text is the genesis block's, a list can also be rewired so that its links
still hold.
For trees, 0 to 9 covers odd and even sizes on three levels. The proofs lift
every safety result to every size. An 8-bit `unsigned int`
has values below, at and beyond the hash's 64 bytes, and its largest one is what
-1 becomes. Blocks of 4 bytes and up to three of them give every position of
a piece's ends in a block, and a padding of one, two and more bytes. Two
contexts are what a copy needs, and with a provider context for each of them
one that leaks or is shared shows at once. In `method_fetch` two threads of each kind meet between any two
locks; a threshold of 1 makes a flush due at once. Fetches of two queries
would multiply the states without a new interaction: the cache already holds one
entry per provider.

`LeftOnHeap` records what the code leaves behind: the arrays and nodes of every
level above the leaves, and every leaf but the first. Its `LevelSizes` is the
least set that holds the halved size of n and of each of its members, which needs
no powers of two to state. `OnlyRootDigitsCut` is the
most `block_to_string` can promise: with a timestamp of ten digits 195 of its 235
characters are used before the root's digits, so 40 of the 128 fit.

### Findings

* `RootCoversTransactions` fails: `create_tree` computes the levels but never
  makes the new level the current one (`merkletree.c:68`), so the root is the first leaf
  and later transactions do not matter (README.md:8).
* `BlocksLinkToEachOther` fails: a hash failing inside `create_block` is not
  noticed and the block is appended with a link made of unwritten bytes (README.md:7).
* `AcceptedMeansSameTime` fails: the timestamp is not hashed (README.md:9).

`DigestsWhatWasFed` excuses one thing: after `EVP_DigestSqueeze`, `EVP_DigestUpdate`
returns 1 and the data is not hashed (`sha3_prov.c:107`), so what a later squeeze
returns is not the digest of all the data accepted. The manual page
(`EVP_DigestInit.pod:292`, `:637`) has no such exception; `xof.md:25` forbids the
call. What remains true is that such data never gets into a digest that a final
returns, because a final after a squeeze fails. `compute_hash` does not squeeze.

`ConstructedMeansStored` says of every operation bit outside `spoiled` that its
provider has a method in the store; the two mishaps that add to `spoiled` are
real. When a thread loads a
provider again while another thread's unload has not yet reached the end of
`provider_remove_store_methods`, a fetch constructs the methods, sets the
operation bit, and the unload then removes them: the bit stays, and no later
fetch constructs them again. The same happens when a method cannot be stored for
lack of memory, since the bit is set all the same (`core_fetch.c:86`).

### Running

`tlc -config BlockchainFailures.cfg MCBlockchain` checks a run; `PROJECT.json`
lists the module, the configuration and the properties of each.
`tlapm BlockchainProofs.tla` checks the proofs of a module.

## Fairness

The program has one thread and no call blocks, so inside a call it keeps taking
steps: weak fairness of `Walk` in `Blockchain`, of `CreateBlockStep` and `SWalk`
in `CreateBlockSteps`, of `Step` in `MerkleTree` and `ComputeHash`, of `MNext` in
`MainProgram`. Nothing obliges a client to make a call, so the calls have no
fairness. The modules of OpenSSL state safety only: their clients decide whether
anything happens, and threads that wait for the store's lock have no promise of
getting it.

## Proofs

All theorems hold for every value of the constants, under the assumptions named
in the modules:

* `Blockchain`, `MainProgram`: NULL is not an address, a transaction list is a
  sequence, the two lists of `main` have two transactions each and are among
  them;
* `MerkleTree`: counts are natural numbers;
* `ComputeHash`: a digest of `HASH_SIZE` bytes fits an `unsigned int` with room
  for the value -1 becomes, and a size is one of an `unsigned int` or -1;
* `BlockString`: a timestamp prints as 1 to 20 characters, as a 64-bit one does;
* `Keccak`: a block has at least one byte;
* `EvpDigest`, `MethodFetch`: threads and contexts are finitely many (a sum of
  references is a cardinality), and the value that stands for NULL is none of the
  objects and records.

Each invariant theorem is an induction over the steps, on an invariant that TLC
checked on the run's instance before it was proved. What it adds to the
properties and why:

* `MerkleTreeProofs`, `IInv`: `RootIsFirstLeaf` needs that `nodes[k]` still is the
  leaf of transaction k (`NodesAreLeaves`), `AccessesInBounds` the loop bounds
  (`LoopBounds`), and `TreeAsPromised` that a tree with more than one transaction
  was only completed after its first leaf was read (`FirstLeafRead`), that nodes
  go missing only after a failure (`Progress`) and that the first leaf stays
  allocated (`KeptAlive`). `HeapInv` proves `LeftOnHeap`: from above, the
  heap only has objects the call makes (`Upper`); from below, while nothing
  failed, each level larger than the current one has the level above it complete
  on the heap (`Lower`). For the second no size may lie strictly between a level
  and the next (`Levels`). At the top the complete levels are closed under
  halving, so they contain `LevelSizes`.
* `BlockchainProofs`, `ShapeInv` and `IInv`, one lemma per action; steps that leave
  the heap alone share `SameHeapKeeps`. `ListShape`, `NoBlockLeaks` and
  `CursorInChain` support one another (freeing the first block keeps the rest
  only because no address occurs twice; the cursor moves inside the list only
  because `next_block` follows `chain`). `LinksHold` is what makes
  `CrashOnlyWhenDegraded` inductive: a crash needs a missing tree.
  `VerdictIsRight` needs the loop invariant `CheckedSoFar`: the links before the
  cursor hold. `ShapeInv` is the part that does not depend on what the blocks
  contain, so that it also holds when a client writes into them.
  `Refinement` is `Spec => ImplementsLedger`: the ledger is the sequence of the
  blocks' fields along `chain`, gone once destruction or a crash begins;
  `create_blockchain` is `Open`, `create_block` is `Extend`, everything else leaves
  the ledger alone or is `Close`.
* `CreateBlockStepsProofs`, `SInv`: which buffers are allocated is a function of
  the statement and the number of hashes (`HeapOK`), and what has been written so
  far is what one atomic `create_block` that failed in the same way could have
  written (`WrittenOK`). The latter gives `StatementsRefine`: `LinkNewBlock` is
  `CreateBlock`, a crash is `CreateBlockCrashes`, a failing `malloc` is
  `CreateBlockFails`, every other statement a stutter. Through the refinement the
  invariant of `Blockchain` holds between the statements too (`ChainInvariance`).
* `ClientProofs`, `TInv`: the parts of the list's shape that no overwrite can hurt
  (`Ground`), that while no pointer was overwritten the shape is that of
  `Blockchain`, and that the blocks a validation has met follow one another from
  `head` and are linked (`Walked`); `AcceptedIsLinked` follows.
  `TamperEvident` goes along that walk from its end: the last block met has the
  sealed link of the tail, and each link is, then and now, the digest of the block
  before it; equal digests come from equal links and roots, so the blocks before
  agree too. The walk cannot be longer than the chain, since the chain's first
  link is no digest of a block, and is as long when its own first link is that
  one. `MInv` places `main` in its sequence
  of calls (`WhereMainIs`) and says that without an unnoticed failure there is a
  chain to work on (`ChainIsThere`): no crash, and no error message, without one.
* `BlockStringProofs`, `HashInv`: which handles may be held at each place of
  `compute_hash`, and that both tests of the size lie before the write. `BInv`
  adds the length of the text at each place of `block_to_string`.
* `MethodFetchProofs`, `FInv`: what a thread's place says of what it holds
  (`Places`), the store and the cache as keyed tables (without which a replaced
  entry would not be counted once), and that a provider that is active is not in
  the middle of an unload unless it was spoiled (`UnloadsDone`), which is what
  `ConstructedMeansStored` rests on. `InUseStaysActive` counts the references of
  users, of walks and of threads about to deactivate separately.
* `EvpDigestProofs`, `EInv`: references (`Refs`), ownership (`Owned`), that a
  context uses the method it holds (`Paired`) and that its provider context has
  the data it was fed (`FedRight`). Calls are composed of helpers, so each helper
  has a lemma that says it keeps what holds in the middle of a call (`Mid`) and
  leaves the other contexts alone (`Untouched`). `DigestsWhatWasFed` is an action
  property, proved from the same invariant.
* `KeccakProofs`, `KInv`: before output, whole blocks were absorbed and less than
  a block waits, byte by byte the input (`Fed`); after it, the bytes left over are
  the next ones of the stream and end the last block squeezed (`Leftover`). The
  arithmetic of blocks rests on `Division` and `DivisionUnique`, that of the copies on
  `Memcpy`, `Part` and `Cat`.

Model-checked only: the liveness properties `CallsReturn`,
`DestroyReleasesAll`, `Terminates` and `MainFinishes`, which need fairness, out of the prover's
reach, and `NoBlockSeenTwice`: that no digest contains itself is a fact about
terms of any depth, and needs an induction over them. The three findings are counterexamples and have nothing to prove.

## Not modelled

* `print_compute_hash` and the text of the messages: output only.
* `add_transaction` (`blockchain.c:259`): tests its arguments, prints and stores nothing.
* The Makefile.
* The rest of OpenSSL, more than 99% of the lines of the repository. Most of it
  (TLS, public keys, ciphers, other digests, applications) is never reached from
  this program. What `compute_hash` reaches besides the three parts above
  (library contexts, property queries, the name map, hash tables, the error queue)
  shows here only by failing, and every such failure is a step of `ComputeHash`.
  Round functions, tables and assembler code transform data; an ideal hash stands
  for them.

## Plan

Done: `MerkleHash`, `Blockchain` with `Ledger`, `MerkleTree`, `ComputeHash`,
`MainProgram`, `Tampering`, `CreateBlockSteps`, `BlockString`, `Keccak`,
`EvpDigest`, `MethodFetch`; a proof of every invariant, action property and
refinement the runs check but `NoBlockSeenTwice`.

Next, in this order:

1. The safety part of termination: a bound that each loop step of
   `create_tree` and of the walks decreases, as action properties with proofs.
2. That what `compute_hash` assumes of a digest context is what `EvpDigest`
   proves, as a refinement.
3. That the two ways of cutting input in `Keccak` give the same sponge, stated
   of two runs side by side.
