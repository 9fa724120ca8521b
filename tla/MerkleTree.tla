----------------------------- MODULE MerkleTree -----------------------------
(***************************************************************************)
(* create_tree and free_tree of merkletree.c, one step per malloc, loop    *)
(* iteration and free, for num_transactions hashes.                        *)
(*                                                                         *)
(* A hash is abstracted to deps, the set of (indices of) transactions that *)
(* it was computed from.  A heap object is named by what it is: the tree,  *)
(* the array nodes, the leaf made for transaction at, and, for the level   *)
(* of size new nodes, its array new_nodes and its inner nodes.  left and   *)
(* right of a node are NULL from create_node on and nothing sets them.     *)
(***************************************************************************)
EXTENDS MerkleHash, Integers, FiniteSets

CONSTANTS
  Counts,    \* the values of the parameter num_transactions
  MayFail    \* whether malloc and the hash functions may fail

ASSUME CountsAssumption == Counts \subseteq Nat
ASSUME MayFailAssumption == MayFail \in BOOLEAN

VARIABLES
  pc,
  n,           \* num_transactions on entry
  num,         \* num_transactions, halved by the loop
  new_size, i, j,
  nodes,       \* the node pointers in the array nodes, from index 0
  new_nodes,   \* those in the current level's array
  live,        \* heap objects allocated and not freed
  result,      \* what became of the tree: see TreeStates, or "crash"
  root,        \* the node tree->root points to
  failed       \* history: some library call failed

vars == <<pc, n, num, new_size, i, j, nodes, new_nodes, live, result, root,
          failed>>

Object(kind, size, at) == [kind |-> kind, size |-> size, at |-> at]
Tree       == Object("tree", 0, 0)
NodesArray == Object("nodes", 0, 0)
Leaf(k)    == Object("leaf", 0, k)

\* A pointer to a node, with what the node's hash was computed from.
Node(object, deps) == [object |-> object, deps |-> deps]
NullNode == Node(Object("null", 0, 0), {})

Failures == IF MayFail THEN {FALSE, TRUE} ELSE {FALSE}

\* malloc(object) either adds it to the heap or fails.
Malloc(object, fails) ==
  /\ live' = IF fails THEN live ELSE live \cup {object}
  /\ failed' = (failed \/ fails)

-----------------------------------------------------------------------------
Init ==
  /\ pc = "tree"
  /\ n \in Counts
  /\ num = n /\ new_size = 0 /\ i = 0 /\ j = 0
  /\ nodes = <<>> /\ new_nodes = <<>>
  /\ live = {} /\ result = "none" /\ root = NullNode
  /\ failed = FALSE

MallocTree(fails) ==
  /\ pc = "tree"
  /\ Malloc(Tree, fails)
  /\ pc' = IF fails THEN "returned" ELSE "nodes"
  /\ result' = IF fails THEN "null" ELSE result
  /\ UNCHANGED <<n, num, new_size, i, j, nodes, new_nodes, root>>

\* Mutant: room for one node too few.
TooFew(size) == [k \in 0 .. size - 2 |-> NullNode]

\* An array of node pointers that nothing was written to yet.
NewArray(size) == [k \in 0 .. size - 1 |-> NullNode]

\* The array is not looked at: its first use, nodes[0], faults when it is
\* NULL, as a write when there are transactions and as a read when not.
MallocNodes(fails) ==
  /\ pc = "nodes"
  /\ Malloc(NodesArray, fails)
  /\ pc' = IF fails THEN "crashed" ELSE "leaves"
  /\ result' = IF fails THEN "crash" ELSE result
  /\ nodes' = NewArray(n)
  /\ UNCHANGED <<n, num, new_size, i, j, new_nodes, root>>

\* nodes[i] = create_node(transaction_hashes[i])
CreateLeaf(fails) ==
  /\ pc = "leaves"
  /\ i < num
  /\ Malloc(Leaf(i), fails)
  /\ nodes' = [nodes EXCEPT ![i] = IF fails THEN NullNode
                                            ELSE Node(Leaf(i), {i})]
  /\ i' = i + 1
  /\ UNCHANGED <<pc, n, num, new_size, j, new_nodes, result, root>>

\* Mutant: the first loop may stop one leaf early.
LeavesDoneEarly ==
  /\ pc = "leaves"
  /\ i + 1 >= num
  /\ pc' = "level"
  /\ UNCHANGED <<n, num, new_size, i, j, nodes, new_nodes, live, result, root,
                 failed>>

LeavesDone ==
  /\ pc = "leaves"
  /\ i >= num
  /\ pc' = "level"
  /\ UNCHANGED <<n, num, new_size, i, j, nodes, new_nodes, live, result, root,
                 failed>>

\* Mutant: the new level is as large as the old one.
NotHalved(m) == m

\* The size of the level above m nodes.
Halved(m) == (m + 1) \div 2

\* The head of the while loop.  new_size is at least 1, so a NULL new_nodes
\* is written to, and faults, in the first iteration of the inner loop.
NextLevel(fails) ==
  /\ pc = "level"
  /\ num > 1
  /\ new_size' = Halved(num)
  /\ Malloc(Object("array", new_size', 0), fails)
  /\ pc' = IF fails THEN "crashed" ELSE "combine"
  /\ result' = IF fails THEN "crash" ELSE result
  /\ new_nodes' = NewArray(new_size')
  /\ i' = 0 /\ j' = 0
  /\ UNCHANGED <<n, num, nodes, root>>

\* Mutant: the inner loop runs once too often.
InLoopOnceMore == i <= new_size

\* The condition of the inner loop.
InLoop == i < new_size

\* The pair of neighbours the inner loop is about to combine.
Pair == {nodes[i], nodes[i + 1]}

\* combine_hashes reads both nodes, so a NULL one faults.
CombineCrashes ==
  /\ pc = "combine"
  /\ InLoop
  /\ i + 1 < num
  /\ NullNode \in Pair
  /\ pc' = "crashed"
  /\ result' = "crash"
  /\ UNCHANGED <<n, num, new_size, i, j, nodes, new_nodes, live, root, failed>>

\* create_node of the combined hash of nodes[i] and nodes[i + 1]; a hash that
\* fails leaves combined_hash unwritten.
Parent(nomem, nohash) ==
  IF nomem THEN NullNode
  ELSE Node(Object("inner", new_size, j),
            IF nohash THEN {} ELSE nodes[i].deps \cup nodes[i + 1].deps)

\* One iteration of the inner loop: neighbours i and i + 1 are combined, a
\* last node without neighbour is carried over.
Combine(nomem, nohash) ==
  /\ pc = "combine"
  /\ InLoop
  /\ IF i + 1 < num
       THEN /\ NullNode \notin Pair
            /\ new_nodes' = [new_nodes EXCEPT ![j] = Parent(nomem, nohash)]
            /\ live' = IF nomem THEN live
                       ELSE live \cup {Object("inner", new_size, j)}
            /\ failed' = (failed \/ nomem \/ nohash)
       ELSE /\ new_nodes' = [new_nodes EXCEPT ![j] = nodes[i]]
            /\ UNCHANGED <<live, failed>>
  /\ i' = i + 1 /\ j' = j + 1
  /\ UNCHANGED <<pc, n, num, new_size, nodes, result, root>>

\* num_transactions = new_size, and nothing else: nodes still is the array
\* of the leaves, and the array just filled is dropped.
LevelDone ==
  /\ pc = "combine"
  /\ ~InLoop
  /\ num' = new_size
  /\ pc' = "level"
  /\ UNCHANGED <<n, new_size, i, j, nodes, new_nodes, live, result, root,
                 failed>>

\* Mutant: the root is taken from the wrong end of the array.
LastNode == nodes[n - 1]

\* The node that becomes the root.
RootNode == nodes[0]

\* Mutant: the array nodes is not freed.
ReturnWithoutFree ==
  /\ pc = "level"
  /\ num <= 1
  /\ root' = IF n = 0 THEN NullNode ELSE RootNode
  /\ result' = IF root' = NullNode THEN "nullroot" ELSE "valid"
  /\ pc' = "returned"
  /\ UNCHANGED <<n, num, new_size, i, j, nodes, new_nodes, live, failed>>

\* tree->root = nodes[0]; free(nodes); return tree.  Without transactions
\* nodes[0] is a word of the heap that nobody wrote.
Return ==
  /\ pc = "level"
  /\ num <= 1
  /\ IF n = 0
       THEN root' = NullNode /\ result' \in {"nullroot", "wild"}
       ELSE /\ root' = RootNode
            /\ result' = IF RootNode = NullNode THEN "nullroot" ELSE "valid"
  /\ live' = live \ {NodesArray}
  /\ pc' = "returned"
  /\ UNCHANGED <<n, num, new_size, i, j, nodes, new_nodes, failed>>

\* free_tree on what create_tree returned: the root node, then the tree.
\* A wild root that happens not to fault frees nothing of this call.
FreeTree ==
  /\ pc = "returned"
  /\ live' = live \ (IF result = "null" THEN {} ELSE {root.object, Tree})
  /\ pc' = "freed"
  /\ UNCHANGED <<n, num, new_size, i, j, nodes, new_nodes, result, root,
                 failed>>

\* free_node follows a wild pointer.
FreeWild ==
  /\ pc = "returned"
  /\ result = "wild"
  /\ pc' = "crashed"
  /\ UNCHANGED <<n, num, new_size, i, j, nodes, new_nodes, live, result, root,
                 failed>>

Step ==
  \/ \E fails \in Failures :
       MallocTree(fails) \/ MallocNodes(fails) \/ CreateLeaf(fails) \/ NextLevel(fails)
  \/ \E nomem, nohash \in Failures : Combine(nomem, nohash)
  \/ LeavesDone \/ CombineCrashes \/ LevelDone \/ Return \/ FreeTree \/ FreeWild

Ended == pc \in {"freed", "crashed"} /\ UNCHANGED vars

Next == Step \/ Ended

\* One thread, which keeps running.
Spec == Init /\ [][Next]_vars /\ WF_vars(Step)

-----------------------------------------------------------------------------
(* Properties *)

\* Types of the state.
TypeOK ==
  /\ pc \in {"tree", "nodes", "leaves", "level", "combine", "returned",
             "freed", "crashed"}
  /\ n \in Nat /\ num \in Nat /\ new_size \in Nat /\ i \in Nat /\ j \in Nat
  /\ result \in TreeStates \cup {"none", "crash"}
  /\ failed \in BOOLEAN
  /\ pc \notin {"tree", "nodes"} /\ result # "null" => DOMAIN nodes = 0 .. n - 1
  /\ pc = "combine" => DOMAIN new_nodes = 0 .. new_size - 1

\* Every array access of the loops is inside the array it goes to: nodes[i]
\* and nodes[i + 1] were written by the first loop although num_transactions
\* shrinks, and new_nodes[j] was allocated.  The pair is always complete:
\* the branch that carries over an odd last node is never taken.
AccessesInBounds ==
  /\ pc = "leaves" /\ i < num => i \in DOMAIN nodes
  /\ pc = "combine" /\ InLoop =>
       i + 1 < num /\ i + 1 \in DOMAIN nodes /\ j \in DOMAIN new_nodes

\* What create_tree hands to create_block is what blockchain.c is modelled
\* to get: an outcome of CreateTreeOutcomes, and in a valid tree a live root.
TreeAsPromised ==
  /\ pc \in {"returned", "freed"} => result \in CreateTreeOutcomes(n, failed)
  /\ pc = "crashed" /\ result # "wild" =>
       result \in CreateTreeOutcomes(n, failed)
  /\ pc = "returned" /\ result = "valid" => {Tree, root.object} \subseteq live

\* Whatever the number of transactions, the root of a tree is the leaf of
\* the first one: the levels computed above the leaves never reach it.
RootIsFirstLeaf == result = "valid" => root = Node(Leaf(0), {0})

\* S has the size of the level above every level it has, and above n leaves,
\* up to a single node.
UpToTheTop(S) == \A m \in S \cup {n} : m > 1 => (m + 1) \div 2 \in S

\* The sizes of the levels above n leaves: the fewest that reach the top.
LevelSizes ==
  {s \in 1 .. n - 1 : \A S \in SUBSET (1 .. n - 1) : UpToTheTop(S) => s \in S}

\* The heap objects a create_tree that drops its levels cannot give back.
Dropped ==
  {Leaf(k) : k \in 1 .. n - 1}
    \cup {Object("array", s, 0) : s \in LevelSizes}
    \cup UNION {{Object("inner", s, k) : k \in 0 .. s - 1} : s \in LevelSizes}

\* After free_tree nothing of the tree itself is left on the heap, and,
\* when nothing failed, exactly the dropped levels and leaves are.
LeftOnHeap ==
  pc = "freed" => /\ live \subseteq Dropped
                  /\ ~failed => live = Dropped

\* nodes[k] is still what the first loop made of transaction k.
NodesAreLeaves ==
  pc \notin {"tree", "nodes"} /\ result # "null" =>
    /\ nodes = [k \in 0 .. n - 1 |-> nodes[k]]
    /\ \A k \in 0 .. n - 1 : nodes[k] \in {NullNode, Node(Leaf(k), {k})}

\* The bounds the loops keep: num_transactions shrinks but stays positive,
\* and the level being built is smaller than the one it is built from.
LoopBounds ==
  /\ num <= n /\ (n > 0 => num > 0)
  /\ pc \in {"tree", "nodes", "leaves"} => num = n
  /\ pc \in {"tree", "nodes"} => i = 0
  /\ pc = "leaves" => i <= num
  /\ pc = "combine" => /\ num > 1 /\ new_size = Halved(num)
                       /\ i = j /\ i <= new_size

\* A level is only completed when the first leaf is there to be read.
FirstLeafRead ==
  /\ pc \in {"level", "combine"}
  /\ num < n \/ (pc = "combine" /\ i > 0)
  => nodes[0] # NullNode

\* How far the call is and what it has returned go together; only a failed
\* library call makes a node, the tree or the process go missing.
Progress ==
  /\ pc \in {"tree", "nodes", "leaves", "level", "combine"} => result = "none"
  /\ pc = "crashed" /\ result # "wild" => result = "crash" /\ failed
  /\ result = "wild" => n = 0
  /\ pc \in {"leaves", "level", "combine"} /\ ~failed =>
       \A k \in 0 .. n - 1 : (pc = "leaves" => k < i) => nodes[k] # NullNode

\* The tree and the first leaf stay allocated until free_tree.
KeptAlive ==
  /\ pc \in {"nodes", "leaves", "level", "combine"} => Tree \in live
  /\ pc \in {"leaves", "level", "combine"} /\ n > 0 /\ nodes[0] # NullNode =>
       Leaf(0) \in live

\* The strengthening that makes the properties above inductive.
IInv ==
  /\ TypeOK /\ LoopBounds /\ NodesAreLeaves /\ FirstLeafRead /\ Progress
  /\ KeptAlive /\ TreeAsPromised /\ RootIsFirstLeaf

\* README.md:8 "A tree structure to efficiently manage and verify transaction
\* data in each block": the root depends on every transaction of the block.
RootCoversTransactions ==
  pc = "returned" /\ result = "valid" => root.deps = 0 .. n - 1

\* create_tree and free_tree come to an end: the levels shrink to one node.
Terminates == <>(pc \in {"freed", "crashed"})
=============================================================================
