-------------------------- MODULE MerkleTreeProofs --------------------------
(***************************************************************************)
(* Proofs about create_tree for every number of transactions.              *)
(***************************************************************************)
EXTENDS MerkleTree, TLAPS

\* A leaf's node is not the NULL pointer.
LEMMA LeafIsNotNull == \A k \in Nat : Node(Leaf(k), {k}) # NullNode
BY DEF Node, Leaf, NullNode, Object

\* Halving a level, rounded up, makes it smaller and leaves a node.
LEMMA LevelShrinks ==
  ASSUME NEW m \in Nat, m > 1
  PROVE  /\ Halved(m) \in Nat
         /\ Halved(m) > 0
         /\ Halved(m) < m
BY DEF Halved

\* A library call fails or it does not.
LEMMA FailuresAreBoolean == Failures \subseteq BOOLEAN
BY MayFailAssumption DEF Failures

\* The invariant holds on entry to create_tree.
LEMMA InitIInv == Init => IInv
<1> SUFFICES ASSUME Init PROVE IInv
  OBVIOUS
<1>1. TypeOK
  BY CountsAssumption DEF Init, TypeOK, TreeStates
<1>2. LoopBounds
  BY CountsAssumption DEF Init, LoopBounds
<1>3. NodesAreLeaves
  BY CountsAssumption DEF Init, NodesAreLeaves
<1>4. FirstLeafRead
  BY CountsAssumption DEF Init, FirstLeafRead
<1>5. Progress
  BY CountsAssumption DEF Init, Progress
<1>6. KeptAlive
  BY CountsAssumption DEF Init, KeptAlive
<1>7. TreeAsPromised
  BY CountsAssumption DEF Init, TreeAsPromised
<1>8. RootIsFirstLeaf
  BY CountsAssumption DEF Init, RootIsFirstLeaf
<1> QED
  BY <1>1, <1>2, <1>3, <1>4, <1>5, <1>6, <1>7, <1>8 DEF IInv

\* Every step of create_tree and free_tree keeps the invariant.
LEMMA StepIInv == IInv /\ [Next]_vars => IInv'
<1> SUFFICES ASSUME IInv, [Next]_vars PROVE IInv'
  OBVIOUS
<1> USE DEF IInv
<1>1. ASSUME NEW fails \in BOOLEAN, MallocTree(fails) PROVE IInv'
  BY <1>1
  DEF MallocTree, Malloc, TypeOK, LoopBounds, NodesAreLeaves,
      FirstLeafRead, Progress, KeptAlive, TreeAsPromised, RootIsFirstLeaf,
      TreeStates, CreateTreeOutcomes
<1>2. ASSUME NEW fails \in BOOLEAN, MallocNodes(fails) PROVE IInv'
  <2>1. TypeOK'
    BY <1>2
    DEF TypeOK, MallocNodes, NewArray, Malloc, LoopBounds, TreeStates, Progress
  <2>2. LoopBounds'
    BY <1>2
    DEF LoopBounds, MallocNodes, NewArray, Malloc, TypeOK
  <2>3. NodesAreLeaves'
    BY <1>2
    DEF NodesAreLeaves, MallocNodes, NewArray, Malloc, TypeOK, LoopBounds
  <2>4. FirstLeafRead'
    BY <1>2
    DEF FirstLeafRead, MallocNodes, NewArray, Malloc, TypeOK, LoopBounds
  <2>5. Progress'
    BY <1>2
    DEF Progress, MallocNodes, NewArray, Malloc, TypeOK, LoopBounds
  <2>6. KeptAlive'
    BY <1>2
    DEF KeptAlive, MallocNodes, NewArray, Malloc, TypeOK, LoopBounds, NodesAreLeaves
  <2>7. TreeAsPromised'
    BY <1>2
    DEF TreeAsPromised, MallocNodes, NewArray, Malloc, TypeOK, LoopBounds, TreeStates, CreateTreeOutcomes, Progress
  <2>8. RootIsFirstLeaf'
    BY <1>2
    DEF RootIsFirstLeaf, MallocNodes, NewArray, Malloc, TypeOK, LoopBounds, Progress
  <2> QED
    BY <2>1, <2>2, <2>3, <2>4, <2>5, <2>6, <2>7, <2>8
<1>3. ASSUME NEW fails \in BOOLEAN, CreateLeaf(fails) PROVE IInv'
  <2>1. TypeOK'
    BY <1>3, LeafIsNotNull
    DEF TypeOK, CreateLeaf, Malloc, LoopBounds
  <2>2. LoopBounds'
    BY <1>3, LeafIsNotNull
    DEF LoopBounds, CreateLeaf, Malloc, TypeOK
  <2>3. NodesAreLeaves'
    BY <1>3, LeafIsNotNull
    DEF NodesAreLeaves, CreateLeaf, Malloc, TypeOK, LoopBounds
  <2>4. FirstLeafRead'
    BY <1>3, LeafIsNotNull
    DEF FirstLeafRead, CreateLeaf, Malloc, TypeOK, LoopBounds
  <2>5. Progress'
    BY <1>3, LeafIsNotNull
    DEF Progress, CreateLeaf, Malloc, TypeOK, LoopBounds, NodesAreLeaves
  <2>6. KeptAlive'
    BY <1>3, LeafIsNotNull
    DEF KeptAlive, CreateLeaf, Malloc, TypeOK, LoopBounds, NodesAreLeaves
  <2>7. TreeAsPromised'
    BY <1>3, LeafIsNotNull
    DEF TreeAsPromised, CreateLeaf, Malloc, TypeOK, LoopBounds, Progress
  <2>8. RootIsFirstLeaf'
    BY <1>3, LeafIsNotNull
    DEF RootIsFirstLeaf, CreateLeaf, Malloc, TypeOK, LoopBounds, Progress
  <2> QED
    BY <2>1, <2>2, <2>3, <2>4, <2>5, <2>6, <2>7, <2>8
<1>4. CASE LeavesDone
  BY <1>4
  DEF LeavesDone, TypeOK, LoopBounds, NodesAreLeaves,
      FirstLeafRead, Progress, KeptAlive, TreeAsPromised, RootIsFirstLeaf
<1>5. ASSUME NEW fails \in BOOLEAN, NextLevel(fails) PROVE IInv'
  <2>1. TypeOK'
    BY <1>5, LevelShrinks
    DEF TypeOK, NextLevel, NewArray, Malloc, Progress, LoopBounds, TreeStates
  <2>2. LoopBounds'
    BY <1>5, LevelShrinks
    DEF LoopBounds, NextLevel, NewArray, Malloc, TypeOK
  <2>3. NodesAreLeaves'
    BY <1>5, LevelShrinks
    DEF NodesAreLeaves, NextLevel, NewArray, Malloc, Progress, TypeOK, LoopBounds
  <2>4. FirstLeafRead'
    BY <1>5, LevelShrinks
    DEF FirstLeafRead, NextLevel, NewArray, Malloc, TypeOK, LoopBounds
  <2>5. Progress'
    BY <1>5, LevelShrinks
    DEF Progress, NextLevel, NewArray, Malloc, TypeOK, LoopBounds
  <2>6. KeptAlive'
    BY <1>5, LevelShrinks
    DEF KeptAlive, NextLevel, NewArray, Malloc, TypeOK, LoopBounds
  <2>7. TreeAsPromised'
    BY <1>5, LevelShrinks
    DEF TreeAsPromised, NextLevel, NewArray, Malloc, TypeOK, LoopBounds, TreeStates, CreateTreeOutcomes, Progress
  <2>8. RootIsFirstLeaf'
    BY <1>5, LevelShrinks
    DEF RootIsFirstLeaf, NextLevel, NewArray, Malloc, TypeOK, LoopBounds, Progress
  <2> QED
    BY <2>1, <2>2, <2>3, <2>4, <2>5, <2>6, <2>7, <2>8
<1>6. CASE CombineCrashes
  BY <1>6
  DEF CombineCrashes, InLoop, Pair, TypeOK, LoopBounds, NodesAreLeaves,
      FirstLeafRead, Progress, KeptAlive, TreeAsPromised, RootIsFirstLeaf,
      TreeStates, CreateTreeOutcomes
<1>7. ASSUME NEW nomem \in BOOLEAN, NEW nohash \in BOOLEAN, Combine(nomem, nohash)
      PROVE  IInv'
  <2>1. TypeOK'
    BY <1>7, LevelShrinks
    DEF TypeOK, Combine, InLoop, LoopBounds
  <2>2. LoopBounds'
    BY <1>7, LevelShrinks
    DEF LoopBounds, Combine, InLoop, TypeOK
  <2>3. NodesAreLeaves'
    BY <1>7, LevelShrinks
    DEF NodesAreLeaves, Combine, InLoop, TypeOK, LoopBounds
  <2>4. FirstLeafRead'
    BY <1>7, LevelShrinks
    DEF FirstLeafRead, Combine, InLoop, TypeOK, LoopBounds, Pair, NodesAreLeaves
  <2>5. Progress'
    BY <1>7, LevelShrinks
    DEF Progress, Combine, InLoop, TypeOK, LoopBounds
  <2>6. KeptAlive'
    BY <1>7, LevelShrinks
    DEF KeptAlive, Combine, InLoop, TypeOK, LoopBounds
  <2>7. TreeAsPromised'
    BY <1>7, LevelShrinks
    DEF TreeAsPromised, Combine, InLoop, TypeOK, LoopBounds, Progress
  <2>8. RootIsFirstLeaf'
    BY <1>7, LevelShrinks
    DEF RootIsFirstLeaf, Combine, InLoop, TypeOK, LoopBounds, Progress
  <2> QED
    BY <2>1, <2>2, <2>3, <2>4, <2>5, <2>6, <2>7, <2>8
<1>8. CASE LevelDone
  BY <1>8, LevelShrinks
  DEF LevelDone, InLoop, TypeOK, LoopBounds, NodesAreLeaves,
      FirstLeafRead, Progress, KeptAlive, TreeAsPromised, RootIsFirstLeaf
<1>9. CASE Return
  <2>1. TypeOK'
    BY <1>9, LeafIsNotNull
    DEF TypeOK, Return, RootNode, LoopBounds, Progress, TreeStates
  <2>2. LoopBounds'
    BY <1>9, LeafIsNotNull
    DEF LoopBounds, Return, RootNode, TypeOK
  <2>3. NodesAreLeaves'
    BY <1>9, LeafIsNotNull
    DEF NodesAreLeaves, Return, RootNode, TypeOK, Progress, LoopBounds
  <2>4. FirstLeafRead'
    BY <1>9, LeafIsNotNull
    DEF FirstLeafRead, Return, RootNode, TypeOK, LoopBounds
  <2>5. Progress'
    BY <1>9, LeafIsNotNull
    DEF Progress, Return, RootNode, TypeOK, LoopBounds, FirstLeafRead
  <2>6. KeptAlive'
    BY <1>9, LeafIsNotNull
    DEF KeptAlive, Return, RootNode, TypeOK, LoopBounds
  <2>7. TreeAsPromised'
    <3>1. result = "none" /\ failed \in BOOLEAN
      BY <1>9 DEF Return, RootNode, TypeOK, Progress
    <3>2. CASE n = 0
      BY <1>9, <3>1, <3>2 DEF Return, RootNode, TreeAsPromised, CreateTreeOutcomes
    <3>3. CASE n # 0
      <4>1. n \in Nat /\ 0 \in 0 .. n - 1
        BY <3>3 DEF TypeOK
      <4>2. nodes[0] \in {NullNode, Node(Leaf(0), {0})}
        BY <1>9, <3>1, <4>1 DEF Return, RootNode, NodesAreLeaves
      <4>3. nodes[0] = NullNode => n = 1 /\ failed
        BY <1>9, <3>3, <4>1 DEF Return, RootNode, TypeOK, LoopBounds, FirstLeafRead, Progress
      <4>4. nodes[0] # NullNode => {Tree, Leaf(0)} \subseteq live \ {NodesArray}
        BY <1>9, <3>3, <4>1
        DEF Return, RootNode, TypeOK, KeptAlive, Tree, Leaf, NodesArray, Object
      <4>5. nodes[0] # NullNode => nodes[0].object = Leaf(0)
        BY <4>2 DEF Node
      <4> QED
        BY <1>9, <3>1, <3>3, <4>3, <4>4, <4>5
        DEF Return, RootNode, TreeAsPromised, CreateTreeOutcomes
    <3> QED
      BY <3>2, <3>3
  <2>8. RootIsFirstLeaf'
    BY <1>9, LeafIsNotNull
    DEF RootIsFirstLeaf, Return, RootNode, TypeOK, Progress, LoopBounds, NodesAreLeaves
  <2> QED
    BY <2>1, <2>2, <2>3, <2>4, <2>5, <2>6, <2>7, <2>8
<1>10. CASE FreeTree
  BY <1>10
  DEF FreeTree, TypeOK, LoopBounds, NodesAreLeaves, FirstLeafRead, Progress,
      KeptAlive, TreeAsPromised, RootIsFirstLeaf
<1>11. CASE FreeWild
  BY <1>11
  DEF FreeWild, TypeOK, LoopBounds, NodesAreLeaves, FirstLeafRead, Progress,
      KeptAlive, TreeAsPromised, RootIsFirstLeaf
<1>12. CASE UNCHANGED vars
  BY <1>12
  DEF vars, TypeOK, LoopBounds, NodesAreLeaves, FirstLeafRead, Progress,
      KeptAlive, TreeAsPromised, RootIsFirstLeaf
<1> QED
  BY <1>1, <1>2, <1>3, <1>4, <1>5, <1>6, <1>7, <1>8, <1>9, <1>10, <1>11, <1>12, FailuresAreBoolean
  DEF Next, Step, Ended

\* The inductive invariant of create_tree and free_tree.
THEOREM Invariance == Spec => []IInv
BY InitIInv, StepIInv, PTL DEF Spec

\* create_tree keeps its types.
THEOREM TypeCorrect == Spec => []TypeOK
<1>1. IInv => TypeOK
  BY DEF IInv
<1> QED
  BY <1>1, Invariance, PTL

\* No access of create_tree's loops leaves its array.
THEOREM InBounds == Spec => []AccessesInBounds
<1>1. IInv => AccessesInBounds
  BY LevelShrinks DEF IInv, TypeOK, LoopBounds, Progress, AccessesInBounds, InLoop
<1> QED
  BY <1>1, Invariance, PTL

\* The root of every tree is the first leaf.
THEOREM FirstLeafOnly == Spec => []RootIsFirstLeaf
<1>1. IInv => RootIsFirstLeaf
  BY DEF IInv
<1> QED
  BY <1>1, Invariance, PTL

\* create_tree keeps the promise blockchain.c is modelled on.
THEOREM PromiseKept == Spec => []TreeAsPromised
<1>1. IInv => TreeAsPromised
  BY DEF IInv
<1> QED
  BY <1>1, Invariance, PTL

-----------------------------------------------------------------------------
(* The heap *)

\* The objects of level s are all on the heap.
Complete(s) ==
  /\ Object("array", s, 0) \in live
  /\ \A k \in 0 .. s - 1 : Object("inner", s, k) \in live

\* The objects a call makes.
Possible == {Tree, NodesArray} \cup {Leaf(k) : k \in 0 .. n - 1} \cup Dropped

\* What may be on the heap.
Upper ==
  /\ live \subseteq Possible
  /\ pc = "tree" \/ result = "null" => live = {}
  /\ NodesArray \in live => pc \in {"leaves", "level", "combine", "crashed"}
  /\ pc \in {"nodes", "leaves", "level", "combine"} /\ Leaf(0) \in live =>
       /\ pc # "nodes" /\ (pc = "leaves" => i > 0)
       /\ nodes[0] = Node(Leaf(0), {0})
  /\ pc = "returned" /\ Leaf(0) \in live => result = "valid"
  /\ pc = "returned" /\ result \notin {"valid", "null"} => root = NullNode
  /\ pc = "freed" => live \subseteq Dropped

\* The levels come one after the other, from the leaves to the top.
Levels ==
  /\ num \in LevelSizes \cup {n}
  /\ pc = "combine" => new_size \in LevelSizes
  /\ pc \in {"tree", "nodes", "leaves", "level", "combine"} =>
       \A s \in 1 .. n : Object("array", s, 0) \in live =>
         s >= num \/ (pc = "combine" /\ s = new_size)

\* What must be on the heap when nothing failed: the leaves made so far, the
\* level under construction as far as it is, and those below it.
Lower ==
  ~failed =>
    /\ pc = "leaves" => \A k \in 0 .. i - 1 : Leaf(k) \in live
    /\ pc \in {"level", "combine"} => \A k \in 0 .. n - 1 : Leaf(k) \in live
    /\ pc = "combine" => /\ Object("array", new_size, 0) \in live
                         /\ \A k \in 0 .. j - 1 : Object("inner", new_size, k) \in live
    /\ pc \in {"leaves", "level", "combine"} =>
         \A m \in 1 .. n : (m = n \/ Complete(m)) /\ m > num => Complete(Halved(m))
    /\ pc \in {"returned", "freed"} => Dropped \subseteq live

\* The inductive invariant of the heap.
HeapInv == Upper /\ Levels /\ Lower

\* Different objects have different names.
LEMMA ObjectNames ==
  ASSUME NEW k1, NEW s1, NEW a1, NEW k2, NEW s2, NEW a2, Object(k1, s1, a1) = Object(k2, s2, a2)
  PROVE  k1 = k2 /\ s1 = s2 /\ a1 = a2
BY DEF Object

\* What is dropped does not change during a call.
LEMMA SameCall ==
  ASSUME n' = n
  PROVE  LevelSizes' = LevelSizes /\ Dropped' = Dropped /\ Possible' = Possible
<1>1. LevelSizes' = LevelSizes
  BY DEF LevelSizes, UpToTheTop
<1> QED
  BY <1>1 DEF Dropped, Possible

\* The members of Dropped.
LEMMA DroppedHas ==
  /\ \A k \in 1 .. n - 1 : Leaf(k) \in Dropped
  /\ \A s \in LevelSizes : Object("array", s, 0) \in Dropped
  /\ \A s \in LevelSizes : \A k \in 0 .. s - 1 : Object("inner", s, k) \in Dropped
BY DEF Dropped

\* It has no others.
LEMMA DroppedOnly ==
  ASSUME NEW o \in Dropped
  PROVE  \/ \E k \in 1 .. n - 1 : o = Leaf(k)
         \/ \E s \in LevelSizes : o = Object("array", s, 0)
         \/ \E s \in LevelSizes : \E k \in 0 .. s - 1 : o = Object("inner", s, k)
BY DEF Dropped

\* The tree, its array, the first leaf and NULL are not dropped.
LEMMA NotDropped ==
  Tree \notin Dropped /\ NodesArray \notin Dropped /\ Leaf(0) \notin Dropped
    /\ NullNode.object \notin Dropped
<1>1. ASSUME NEW o \in Dropped, NEW kind, NEW at, o = Object(kind, 0, at)
      PROVE  kind \in {"leaf", "array", "inner"} /\ (kind = "leaf" => at \in 1 .. n - 1)
  <2>1. CASE \E k \in 1 .. n - 1 : o = Leaf(k)
    BY <1>1, <2>1, ObjectNames DEF Leaf
  <2>2. CASE \E s \in LevelSizes : o = Object("array", s, 0)
    BY <1>1, <2>2, ObjectNames
  <2>3. CASE \E s \in LevelSizes : \E k \in 0 .. s - 1 : o = Object("inner", s, k)
    BY <1>1, <2>3, ObjectNames
  <2> QED
    BY <2>1, <2>2, <2>3, DroppedOnly
<1>2. 0 \notin 1 .. n - 1
  OBVIOUS
<1>3. NullNode.object = Object("null", 0, 0)
  BY DEF NullNode, Node
<1>4. Tree = Object("tree", 0, 0) /\ NodesArray = Object("nodes", 0, 0) /\ Leaf(0) = Object("leaf", 0, 0)
  BY DEF Tree, NodesArray, Leaf
<1> QED
  BY <1>1, <1>2, <1>3, <1>4

\* The level above one of the levels is one of them.
LEMMA LevelUp ==
  ASSUME n \in Nat, NEW m \in LevelSizes \cup {n}, m > 1
  PROVE  Halved(m) \in LevelSizes /\ Halved(m) \in Nat /\ Halved(m) > 0 /\ Halved(m) < m
<1>1. m \in Nat /\ m <= n
  BY DEF LevelSizes
<1>2. Halved(m) \in Nat /\ Halved(m) > 0 /\ Halved(m) < m
  BY <1>1, LevelShrinks
<1>3. Halved(m) \in 1 .. n - 1
  BY <1>1, <1>2
<1>4. ASSUME NEW S \in SUBSET (1 .. n - 1), UpToTheTop(S) PROVE Halved(m) \in S
  <2>1. m \in S \cup {n}
    BY <1>4 DEF LevelSizes
  <2> QED
    BY <1>4, <2>1 DEF UpToTheTop, Halved
<1> QED
  BY <1>2, <1>3, <1>4 DEF LevelSizes

\* When the levels reach the top, all of them are on the heap.
LEMMA AllLevels ==
  ASSUME n \in Nat, num \in Nat, num <= 1,
         \A m \in 1 .. n : (m = n \/ Complete(m)) /\ m > num => Complete(Halved(m))
  PROVE  \A s \in LevelSizes : Complete(s)
<1> DEFINE S == {s \in 1 .. n - 1 : Complete(s)}
<1>1. ASSUME NEW m \in S \cup {n}, m > 1 PROVE (m + 1) \div 2 \in S
  <2>1. m \in 1 .. n /\ (m = n \/ Complete(m)) /\ m \in Nat /\ m > num
    BY <1>1
  <2>2. Complete(Halved(m))
    BY <2>1
  <2>3. Halved(m) \in 1 .. n - 1
    <3>1. Halved(m) \in Nat /\ Halved(m) > 0 /\ Halved(m) < m
      BY <1>1, <2>1, LevelShrinks
    <3> QED
      BY <2>1, <3>1
  <2> QED
    BY <2>2, <2>3 DEF Halved
<1>2. UpToTheTop(S) /\ S \in SUBSET (1 .. n - 1)
  BY <1>1 DEF UpToTheTop
<1>3. LevelSizes \subseteq S
  BY <1>2 DEF LevelSizes
<1> QED
  BY <1>3

\* A level that is complete stays so when the heap grows.
LEMMA CompleteGrows ==
  ASSUME live \subseteq live', NEW s, Complete(s) PROVE Complete(s)'
BY DEF Complete

\* A leaf is not another object.
LEMMA LeafNames ==
  /\ \A k, l : Leaf(k) = Leaf(l) => k = l
  /\ \A k : Leaf(k) # Tree /\ Leaf(k) # NodesArray
  /\ \A k, s : Leaf(k) # Object("array", s, 0)
  /\ \A k, s, l : Leaf(k) # Object("inner", s, l)
  /\ \A s, t : Object("array", s, 0) = Object("array", t, 0) => s = t
  /\ \A s, t, l : Object("array", s, 0) # Object("inner", t, l)
  /\ \A s : Object("array", s, 0) # Tree /\ Object("array", s, 0) # NodesArray
  /\ \A s, l : Object("inner", s, l) # Tree /\ Object("inner", s, l) # NodesArray
  /\ Tree # NodesArray
BY DEF Object, Leaf, Tree, NodesArray

\* Nothing is on the heap on entry.
LEMMA InitHeap == Init => HeapInv
<1> SUFFICES ASSUME Init PROVE HeapInv
  OBVIOUS
<1>1. n \in Nat /\ num = n /\ live = {} /\ pc = "tree" /\ result = "none"
  BY CountsAssumption DEF Init
<1> QED
  BY <1>1 DEF HeapInv, Upper, Levels, Lower

\* The objects made before the loops.
LEMMA FirstObjects ==
  ASSUME IInv, HeapInv, NEW fails \in BOOLEAN,
         MallocTree(fails) \/ MallocNodes(fails)
  PROVE  HeapInv'
<1>1. /\ n \in Nat /\ num = n /\ n' = n /\ num' = num /\ live \subseteq Possible /\ num \in LevelSizes \cup {n}
  BY DEF IInv, TypeOK, LoopBounds, HeapInv, Upper, Levels, MallocTree, MallocNodes
<1>2. Dropped' = Dropped /\ Possible' = Possible /\ LevelSizes' = LevelSizes
  BY <1>1, SameCall
<1>3. Tree \in Possible /\ NodesArray \in Possible
  BY DEF Possible
<1>4. CASE MallocTree(fails)
  <2>1. /\ pc = "tree" /\ live = {} /\ result = "none"
        /\ live' = (IF fails THEN {} ELSE {Tree}) /\ failed' = (failed \/ fails)
        /\ pc' = (IF fails THEN "returned" ELSE "nodes")
        /\ result' = IF fails THEN "null" ELSE result
    BY <1>4 DEF MallocTree, Malloc, HeapInv, Upper, IInv, Progress
  <2>2. Upper'
    BY <1>2, <1>3, <2>1, LeafNames DEF Upper
  <2>3. Levels'
    BY <1>1, <1>2, <2>1, LeafNames DEF Levels
  <2>4. Lower'
    BY <2>1 DEF Lower
  <2> QED
    BY <2>2, <2>3, <2>4 DEF HeapInv
<1>5. CASE MallocNodes(fails)
  <2>1. /\ pc = "nodes" /\ result = "none" /\ failed' = (failed \/ fails)
        /\ live' = (IF fails THEN live ELSE live \cup {NodesArray})
        /\ pc' = (IF fails THEN "crashed" ELSE "leaves")
        /\ result' = (IF fails THEN "crash" ELSE result) /\ i' = i /\ i = 0
    BY <1>5 DEF MallocNodes, Malloc, IInv, Progress, LoopBounds
  <2>2. Leaf(0) \notin live /\ Leaf(0) \notin live'
    BY <2>1, LeafNames DEF HeapInv, Upper
  <2>3. Upper'
    BY <1>1, <1>2, <1>3, <2>1, <2>2 DEF HeapInv, Upper
  <2>4. Levels'
    BY <1>1, <1>2, <2>1, LeafNames DEF HeapInv, Levels
  <2>5. Lower'
    BY <1>1, <2>1 DEF Lower
  <2> QED
    BY <2>3, <2>4, <2>5 DEF HeapInv
<1> QED
  BY <1>4, <1>5

\* The leaves.
LEMMA LeafObjects ==
  ASSUME IInv, HeapInv, (\E fails \in BOOLEAN : CreateLeaf(fails)) \/ LeavesDone
  PROVE  HeapInv'
<1>1. /\ n \in Nat /\ i \in Nat /\ num = n /\ pc = "leaves" /\ result = "none" /\ i <= n
      /\ live \subseteq Possible /\ num \in LevelSizes \cup {n} /\ NodesAreLeaves
      /\ DOMAIN nodes = 0 .. n - 1
  BY DEF IInv, TypeOK, LoopBounds, Progress, HeapInv, Upper, Levels, CreateLeaf, LeavesDone
<1>2. ASSUME NEW fails \in BOOLEAN, CreateLeaf(fails) PROVE HeapInv'
  <2>1. /\ i < num /\ live' = (IF fails THEN live ELSE live \cup {Leaf(i)})
        /\ failed' = (failed \/ fails) /\ i' = i + 1 /\ n' = n /\ num' = num
        /\ pc' = pc /\ result' = result
        /\ nodes' = [nodes EXCEPT ![i] = IF fails THEN NullNode ELSE Node(Leaf(i), {i})]
    BY <1>2 DEF CreateLeaf, Malloc
  <2>2. Dropped' = Dropped /\ Possible' = Possible /\ LevelSizes' = LevelSizes
    BY <2>1, SameCall
  <2>3. Leaf(i) \in Possible
    <3>1. i \in 0 .. n - 1
      BY <1>1, <2>1
    <3> QED
      BY <3>1 DEF Possible
  <2>4. Leaf(0) \in live' => nodes'[0] = Node(Leaf(0), {0})
    <3>1. CASE i = 0
      <4>1. ~fails => nodes'[0] = Node(Leaf(0), {0})
        BY <1>1, <2>1, <3>1
      <4>2. Leaf(0) \notin live
        BY <1>1, <3>1 DEF HeapInv, Upper
      <4> QED
        BY <2>1, <4>1, <4>2
    <3>2. CASE i # 0
      <4>1. Leaf(0) \in live' => Leaf(0) \in live
        BY <2>1, <3>2, LeafNames
      <4>2. nodes'[0] = nodes[0]
        BY <1>1, <2>1, <3>2
      <4> QED
        BY <1>1, <4>1, <4>2 DEF HeapInv, Upper
    <3> QED
      BY <3>1, <3>2
  <2>5. Upper'
    <3>1. live' \subseteq Possible
      BY <1>1, <2>1, <2>3
    <3>2. NodesArray \in live' => NodesArray \in live
      BY <2>1, LeafNames
    <3>3. i' > 0
      BY <1>1, <2>1
    <3> QED
      BY <1>1, <2>1, <2>2, <2>4, <3>1, <3>2, <3>3 DEF HeapInv, Upper
  <2>6. Levels'
    <3>1. \A s : Object("array", s, 0) \in live' => Object("array", s, 0) \in live
      BY <2>1, LeafNames
    <3> QED
      BY <1>1, <2>1, <2>2, <3>1 DEF HeapInv, Levels
  <2>7. Lower'
    <3>1. ASSUME ~failed', NEW k \in 0 .. i' - 1 PROVE Leaf(k) \in live'
      <4>1. ~failed /\ live' = live \cup {Leaf(i)}
        BY <2>1, <3>1
      <4>2. k \in 0 .. i - 1 \/ k = i
        BY <1>1, <2>1
      <4> QED
        BY <1>1, <4>1, <4>2 DEF HeapInv, Lower
    <3>2. \A m \in 1 .. n' : ~(m > num')
      BY <1>1, <2>1
    <3> QED
      BY <1>1, <2>1, <3>1, <3>2 DEF Lower
  <2> QED
    BY <2>5, <2>6, <2>7 DEF HeapInv
<1>3. CASE LeavesDone
  <2>1. /\ i >= num /\ pc' = "level" /\ UNCHANGED <<n, num, new_size, i, j, nodes, live, result, failed>>
    BY <1>3 DEF LeavesDone
  <2>2. Dropped' = Dropped /\ Possible' = Possible /\ LevelSizes' = LevelSizes
    BY <2>1, SameCall
  <2>3. Upper'
    BY <1>1, <2>1, <2>2 DEF HeapInv, Upper
  <2>4. Levels'
    BY <1>1, <2>1, <2>2 DEF HeapInv, Levels
  <2>5. Lower'
    <3>1. i = n
      BY <1>1, <2>1
    <3>2. \A m \in 1 .. n' : ~(m > num')
      BY <1>1, <2>1
    <3>3. ~failed' => \A k \in 0 .. n' - 1 : Leaf(k) \in live'
      BY <1>1, <2>1, <3>1 DEF HeapInv, Lower
    <3> QED
      BY <2>1, <3>2, <3>3 DEF Lower
  <2> QED
    BY <2>3, <2>4, <2>5 DEF HeapInv
<1> QED
  BY <1>2, <1>3

\* The array of a new level.
LEMMA LevelObjects ==
  ASSUME IInv, HeapInv, NEW fails \in BOOLEAN, NextLevel(fails)
  PROVE  HeapInv'
<1>1. /\ n \in Nat /\ num \in Nat /\ num > 1 /\ pc = "level" /\ result = "none"
      /\ live \subseteq Possible /\ num \in LevelSizes \cup {n}
  BY DEF IInv, TypeOK, Progress, HeapInv, Upper, Levels, NextLevel
<1>2. /\ new_size' = Halved(num) /\ n' = n /\ num' = num /\ nodes' = nodes /\ i' = 0 /\ j' = 0
      /\ pc' = (IF fails THEN "crashed" ELSE "combine")
      /\ result' = (IF fails THEN "crash" ELSE result) /\ failed' = (failed \/ fails)
      /\ live' = IF fails THEN live ELSE live \cup {Object("array", new_size', 0)}
  BY DEF NextLevel, Malloc
<1>3. Dropped' = Dropped /\ Possible' = Possible /\ LevelSizes' = LevelSizes
  BY <1>2, SameCall
<1>4. new_size' \in LevelSizes /\ new_size' \in Nat
  BY <1>1, <1>2, LevelUp
<1>5. Object("array", new_size', 0) \in Possible
  BY <1>4, DroppedHas DEF Possible
<1>6. /\ live \subseteq live' /\ live' \subseteq Possible
      /\ (NodesArray \in live' => NodesArray \in live) /\ (Leaf(0) \in live' => Leaf(0) \in live)
      /\ \A s : Object("array", s, 0) \in live' => Object("array", s, 0) \in live \/ s = new_size'
  BY <1>1, <1>2, <1>5, LeafNames
<1>7. Upper'
  BY <1>1, <1>2, <1>3, <1>6 DEF HeapInv, Upper
<1>8. Levels'
  BY <1>1, <1>2, <1>3, <1>4, <1>6 DEF HeapInv, Levels
<1>9. Lower'
  <2> SUFFICES ASSUME ~failed', pc' = "combine" PROVE Lower'
    BY <1>2 DEF Lower
  <2>1. ~failed /\ Object("array", new_size', 0) \in live'
    BY <1>2
  <2>2. \A k \in 0 .. n' - 1 : Leaf(k) \in live'
    BY <1>1, <1>2, <1>6, <2>1 DEF HeapInv, Lower
  <2>3. \A k \in 0 .. j' - 1 : Object("inner", new_size', k) \in live'
    BY <1>2
  <2>4. ASSUME NEW m \in 1 .. n', m = n' \/ Complete(m)', m > num' PROVE Complete(Halved(m))'
    <3>1. Complete(m)' /\ m # n => Complete(m)
      <4>1. m # new_size'
        BY <1>1, <1>2, <1>4, <2>4, LevelShrinks
      <4>2. \A k : Object("inner", m, k) \in live' => Object("inner", m, k) \in live
        BY <1>2, LeafNames
      <4> QED
        BY <1>6, <4>1, <4>2 DEF Complete
    <3>2. Complete(Halved(m))
      BY <1>1, <1>2, <2>1, <2>4, <3>1 DEF HeapInv, Lower
    <3> QED
      BY <1>6, <3>2, CompleteGrows
  <2> QED
    BY <2>1, <2>2, <2>3, <2>4 DEF Lower
<1> QED
  BY <1>7, <1>8, <1>9 DEF HeapInv

\* The nodes of a level.
LEMMA InnerObjects ==
  ASSUME IInv, HeapInv,
         (\E nomem, nohash \in BOOLEAN : Combine(nomem, nohash)) \/ CombineCrashes \/ LevelDone
  PROVE  HeapInv'
<1>1. /\ n \in Nat /\ num \in Nat /\ num > 1 /\ pc = "combine" /\ result = "none"
      /\ i \in Nat /\ j = i /\ i <= new_size /\ new_size = Halved(num) /\ new_size \in Nat
      /\ live \subseteq Possible /\ num \in LevelSizes \cup {n} /\ new_size \in LevelSizes
      /\ failed \in BOOLEAN
  BY DEF IInv, TypeOK, LoopBounds, Progress, HeapInv, Upper, Levels, Combine, CombineCrashes, LevelDone
<1>2. n' = n /\ Dropped' = Dropped /\ Possible' = Possible /\ LevelSizes' = LevelSizes
  <2>1. n' = n
    BY DEF Combine, CombineCrashes, LevelDone
  <2> QED
    BY <2>1, SameCall
<1>3. Halved(num) > 0 /\ Halved(num) < num
  BY <1>1, LevelShrinks
<1>4. ASSUME NEW nomem \in BOOLEAN, NEW nohash \in BOOLEAN, Combine(nomem, nohash) PROVE HeapInv'
  <2>1. i < new_size /\ i + 1 < num
    BY <1>1, <1>3, <1>4 DEF Combine, InLoop
  <2>2. /\ live' = (IF nomem THEN live ELSE live \cup {Object("inner", new_size, j)})
        /\ failed' = (failed \/ nomem \/ nohash) /\ i' = i + 1 /\ j' = j + 1
        /\ UNCHANGED <<pc, num, new_size, nodes, result>>
    BY <1>4, <2>1 DEF Combine
  <2>3. Object("inner", new_size, j) \in Possible
    <3>1. j \in 0 .. new_size - 1
      BY <1>1, <2>1
    <3> QED
      BY <1>1, <3>1, DroppedHas DEF Possible
  <2>4. /\ live \subseteq live' /\ live' \subseteq Possible
        /\ (NodesArray \in live' => NodesArray \in live) /\ (Leaf(0) \in live' => Leaf(0) \in live)
        /\ \A s : Object("array", s, 0) \in live' => Object("array", s, 0) \in live
    BY <1>1, <2>2, <2>3, LeafNames
  <2>5. Upper'
    BY <1>1, <1>2, <2>2, <2>4 DEF HeapInv, Upper
  <2>6. Levels'
    BY <1>1, <1>2, <2>2, <2>4 DEF HeapInv, Levels
  <2>7. Lower'
    <3> SUFFICES ASSUME ~failed' PROVE Lower'
      BY DEF Lower
    <3>1. ~failed /\ live' = live \cup {Object("inner", new_size, j)}
      BY <1>1, <2>2
    <3>2. \A k \in 0 .. n' - 1 : Leaf(k) \in live'
      BY <1>1, <1>2, <2>4, <3>1 DEF HeapInv, Lower
    <3>3. Object("array", new_size', 0) \in live'
      BY <1>1, <2>2, <2>4, <3>1 DEF HeapInv, Lower
    <3>4. ASSUME NEW k \in 0 .. j' - 1 PROVE Object("inner", new_size', k) \in live'
      <4>1. k \in 0 .. j - 1 \/ k = j
        BY <1>1, <2>2
      <4> QED
        BY <1>1, <2>2, <3>1, <4>1 DEF HeapInv, Lower
    <3>5. ASSUME NEW m \in 1 .. n', m = n' \/ Complete(m)', m > num' PROVE Complete(Halved(m))'
      <4>1. Complete(m)' => Complete(m)
        <5>1. m # new_size
          BY <1>1, <1>3, <2>2, <3>5
        <5>2. \A k : Object("inner", m, k) \in live' => Object("inner", m, k) \in live
          BY <3>1, <5>1, ObjectNames
        <5> QED
          BY <2>4, <5>2 DEF Complete
      <4>2. Complete(Halved(m))
        BY <1>1, <1>2, <2>2, <3>1, <3>5, <4>1 DEF HeapInv, Lower
      <4> QED
        BY <2>4, <4>2, CompleteGrows
    <3> QED
      BY <1>1, <2>2, <3>2, <3>3, <3>4, <3>5 DEF Lower
  <2> QED
    BY <2>5, <2>6, <2>7 DEF HeapInv
<1>5. CASE CombineCrashes
  <2>1. pc' = "crashed" /\ result' = "crash" /\ UNCHANGED <<num, live>>
    BY <1>5 DEF CombineCrashes
  <2> QED
    BY <1>1, <1>2, <2>1 DEF HeapInv, Upper, Levels, Lower
<1>6. CASE LevelDone
  <2>1. /\ ~(i < new_size) /\ num' = new_size /\ pc' = "level"
        /\ UNCHANGED <<new_size, i, j, nodes, live, result, failed>>
    BY <1>6 DEF LevelDone, InLoop
  <2>2. j = new_size
    BY <1>1, <2>1
  <2>3. Upper'
    BY <1>1, <1>2, <2>1 DEF HeapInv, Upper
  <2>4. Levels'
    <3>1. ASSUME NEW s \in 1 .. n, Object("array", s, 0) \in live PROVE s >= new_size
      BY <1>1, <1>3, <3>1 DEF HeapInv, Levels
    <3> QED
      BY <1>1, <1>2, <2>1, <3>1 DEF Levels
  <2>5. Lower'
    <3> SUFFICES ASSUME ~failed PROVE Lower'
      BY <2>1 DEF Lower
    <3>1. \A k \in 0 .. n' - 1 : Leaf(k) \in live'
      BY <1>1, <1>2, <2>1 DEF HeapInv, Lower
    <3>2. Complete(new_size)
      BY <1>1, <2>2 DEF HeapInv, Lower, Complete
    <3>3. ASSUME NEW m \in 1 .. n, m = n \/ Complete(m), m > new_size PROVE Complete(Halved(m))
      <4>1. CASE m > num
        BY <1>1, <3>3, <4>1 DEF HeapInv, Lower
      <4>2. CASE m = num
        BY <1>1, <3>2, <4>2
      <4>3. CASE m < num
        <5>1. m # n
          BY <1>1, <4>3 DEF LevelSizes
        <5>2. Object("array", m, 0) \in live
          BY <3>3, <5>1 DEF Complete
        <5>3. m >= num \/ m = new_size
          BY <1>1, <5>2 DEF HeapInv, Levels
        <5> QED
          BY <1>1, <3>3, <4>3, <5>3
      <4> QED
        BY <1>1, <4>1, <4>2, <4>3
    <3>4. \A m \in 1 .. n' : (m = n' \/ Complete(m)') /\ m > num' => Complete(Halved(m))'
      BY <1>2, <2>1, <3>3 DEF Complete
    <3> QED
      BY <2>1, <3>1, <3>4 DEF Lower
  <2> QED
    BY <2>3, <2>4, <2>5 DEF HeapInv
<1> QED
  BY <1>4, <1>5, <1>6

\* Return and free_tree.
LEMMA GiveBack ==
  ASSUME IInv, HeapInv, Return \/ FreeTree \/ FreeWild
  PROVE  HeapInv'
<1>1. /\ n \in Nat /\ num \in Nat /\ live \subseteq Possible /\ num \in LevelSizes \cup {n}
      /\ n' = n /\ num' = num
  BY DEF IInv, TypeOK, HeapInv, Upper, Levels, Return, FreeTree, FreeWild
<1>2. Dropped' = Dropped /\ Possible' = Possible /\ LevelSizes' = LevelSizes
  BY <1>1, SameCall
<1>3. CASE Return
  <2>1. /\ pc = "level" /\ num <= 1 /\ result = "none" /\ live' = live \ {NodesArray}
        /\ pc' = "returned" /\ failed' = failed
    BY <1>3 DEF Return, IInv, Progress
  <2>2. result' \in {"nullroot", "wild", "valid"} /\ (result' # "valid" => root' = NullNode)
    BY <1>3 DEF Return
  <2>3. Leaf(0) \in live' => result' = "valid"
    <3> SUFFICES ASSUME Leaf(0) \in live PROVE result' = "valid"
      BY <2>1
    <3>1. nodes[0] = Node(Leaf(0), {0})
      BY <2>1 DEF HeapInv, Upper
    <3>2. n # 0
      <4>1. \E k \in 0 .. n - 1 : Leaf(0) = Leaf(k)
        BY <1>1, LeafNames, NotDropped DEF Possible
      <4> QED
        BY <1>1, <4>1
    <3> QED
      BY <1>3, <3>1, <3>2, LeafIsNotNull DEF Return, RootNode
  <2>4. Upper'
    BY <1>1, <1>2, <2>1, <2>2, <2>3 DEF Upper
  <2>5. Levels'
    BY <1>1, <1>2, <2>1 DEF Levels
  <2>6. Lower'
    <3> SUFFICES ASSUME ~failed PROVE Dropped \subseteq live'
      BY <1>2, <2>1 DEF Lower
    <3>1. /\ \A k \in 0 .. n - 1 : Leaf(k) \in live
          /\ \A m \in 1 .. n : (m = n \/ Complete(m)) /\ m > num => Complete(Halved(m))
      BY <2>1 DEF HeapInv, Lower
    <3>2. \A s \in LevelSizes : Complete(s)
      BY <1>1, <2>1, <3>1, AllLevels
    <3>3. ASSUME NEW o \in Dropped PROVE o \in live
      <4>1. ASSUME NEW k \in 1 .. n - 1, o = Leaf(k) PROVE o \in live
        BY <1>1, <3>1, <4>1
      <4>2. ASSUME NEW s \in LevelSizes, o = Object("array", s, 0) PROVE o \in live
        BY <3>2, <4>2 DEF Complete
      <4>3. ASSUME NEW s \in LevelSizes, NEW k \in 0 .. s - 1, o = Object("inner", s, k)
            PROVE  o \in live
        BY <3>2, <4>3 DEF Complete
      <4> QED
        BY <4>1, <4>2, <4>3, DroppedOnly
    <3> QED
      BY <2>1, <3>3, NotDropped
  <2> QED
    BY <2>4, <2>5, <2>6 DEF HeapInv
<1>4. CASE FreeTree
  <2>1. /\ pc = "returned" /\ pc' = "freed" /\ result' = result /\ failed' = failed
        /\ live' = live \ (IF result = "null" THEN {} ELSE {root.object, Tree})
    BY <1>4 DEF FreeTree
  <2>2. result = "valid" => root.object = Leaf(0)
    BY DEF IInv, RootIsFirstLeaf, Node
  <2>3. result \notin {"valid", "null"} => root.object = NullNode.object
    BY <2>1 DEF HeapInv, Upper
  <2>4. live' \subseteq Dropped
    <3> SUFFICES ASSUME NEW o \in live' PROVE o \in Dropped
      OBVIOUS
    <3>1. o \in live /\ result # "null" /\ o # root.object /\ o # Tree
      BY <2>1 DEF HeapInv, Upper
    <3>2. o # NodesArray
      BY <2>1, <3>1 DEF HeapInv, Upper
    <3>3. o # Leaf(0)
      BY <2>1, <2>2, <3>1 DEF HeapInv, Upper
    <3>4. CASE \E k \in 0 .. n - 1 : o = Leaf(k)
      <4>1. PICK k \in 0 .. n - 1 : o = Leaf(k)
        BY <3>4
      <4>2. k \in 1 .. n - 1
        BY <1>1, <3>3, <4>1
      <4> QED
        BY <4>1, <4>2, DroppedHas
    <3> QED
      BY <1>1, <3>1, <3>2, <3>4 DEF Possible
  <2>5. Upper'
    <3>1. live' \subseteq Possible /\ (result = "null" => live' = {})
      BY <2>1, <2>4 DEF HeapInv, Upper, Possible
    <3>2. NodesArray \notin live'
      BY <2>4, NotDropped
    <3> QED
      BY <1>2, <2>1, <2>4, <3>1, <3>2 DEF Upper
  <2>6. Levels'
    BY <1>1, <1>2, <2>1 DEF Levels
  <2>7. Lower'
    <3> SUFFICES ASSUME ~failed PROVE Dropped \subseteq live'
      BY <1>2, <2>1 DEF Lower
    <3>1. Dropped \subseteq live
      BY <2>1 DEF HeapInv, Lower
    <3>2. result # "null" => root.object \notin Dropped
      BY <2>2, <2>3, NotDropped
    <3> QED
      BY <2>1, <3>1, <3>2, NotDropped
  <2> QED
    BY <2>5, <2>6, <2>7 DEF HeapInv
<1>5. CASE FreeWild
  <2>1. /\ pc' = "crashed" /\ result = "wild" /\ result' = result /\ live' = live
    BY <1>5 DEF FreeWild
  <2> QED
    BY <1>1, <1>2, <2>1 DEF HeapInv, Upper, Levels, Lower
<1> QED
  BY <1>3, <1>4, <1>5

\* The invariant of the heap.
THEOREM HeapInvariance == Spec => []HeapInv
<1>1. IInv /\ HeapInv /\ [Next]_vars => HeapInv'
  <2> SUFFICES ASSUME IInv, HeapInv, [Next]_vars PROVE HeapInv'
    OBVIOUS
  <2>1. ASSUME NEW fails \in BOOLEAN,
               MallocTree(fails) \/ MallocNodes(fails) \/ CreateLeaf(fails) \/ NextLevel(fails)
        PROVE  HeapInv'
    BY <2>1, FirstObjects, LeafObjects, LevelObjects
  <2>2. ASSUME NEW nomem \in BOOLEAN, NEW nohash \in BOOLEAN, Combine(nomem, nohash) PROVE HeapInv'
    BY <2>2, InnerObjects
  <2>3. CASE LeavesDone
    BY <2>3, LeafObjects
  <2>4. CASE CombineCrashes \/ LevelDone
    BY <2>4, InnerObjects
  <2>5. CASE Return \/ FreeTree \/ FreeWild
    BY <2>5, GiveBack
  <2>6. CASE UNCHANGED vars
    <3>1. UNCHANGED <<pc, n, num, new_size, i, j, nodes, live, result, root, failed>>
      BY <2>6 DEF vars
    <3>2. Dropped' = Dropped /\ Possible' = Possible /\ LevelSizes' = LevelSizes
      BY <3>1, SameCall
    <3> QED
      BY <3>1, <3>2 DEF HeapInv, Upper, Levels, Lower, Complete
  <2> QED
    BY <2>1, <2>2, <2>3, <2>4, <2>5, <2>6, FailuresAreBoolean DEF Next, Step, Ended
<1> QED
  BY <1>1, InitHeap, Invariance, PTL DEF Spec

\* After free_tree nothing of the tree itself is left on the heap; when no call
\* failed, what is left is every inner level and every leaf but the first.
THEOREM HeapAfterFree == Spec => []LeftOnHeap
<1>1. HeapInv => LeftOnHeap
  BY DEF HeapInv, Upper, Lower, LeftOnHeap
<1> QED
  BY <1>1, HeapInvariance, PTL
=============================================================================
