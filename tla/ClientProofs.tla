---------------------------- MODULE ClientProofs ----------------------------
(***************************************************************************)
(* What the callers of blockchain.c can rely on: a client that overwrites  *)
(* fields of the blocks it was handed (Tampering), and main (MainProgram), *)
(* for every number of blocks, overwrites and failures.                    *)
(***************************************************************************)
EXTENDS Tampering, MainProgram, BlockchainProofs, WellFoundedInduction

-----------------------------------------------------------------------------
(* Tampering *)

\* Equal block digests come from equal links and equal roots.
LEMMA BlockHashInjective ==
  ASSUME NEW p, NEW r, NEW q, NEW s, BlockHash(p, r) = BlockHash(q, s)
  PROVE  p = q /\ r = s
<1>1. <<p, Hash(<<r>>)>> = <<q, Hash(<<s>>)>>
  BY DEF BlockHash, Hash
<1>2. p = q /\ Hash(<<r>>) = Hash(<<s>>)
  BY <1>1
<1>3. <<r>> = <<s>>
  BY <1>2 DEF Hash
<1> QED
  BY <1>2, <1>3

\* A set of places of a list has a last one.
LEMMA LastPlace ==
  ASSUME NEW n \in Nat, NEW S \in SUBSET (1 .. n), S # {}
  PROVE  \E m \in S : \A k \in S : k <= m
<1> DEFINE T == {n - k : k \in S}
<1>1. T \subseteq Nat /\ T # {}
  <2>1. \A k \in S : n - k \in Nat
    OBVIOUS
  <2>2. PICK k \in S : TRUE
    OBVIOUS
  <2>3. n - k \in T
    OBVIOUS
  <2> QED
    BY <2>1, <2>3
<1>2. PICK x \in T : \A y \in T : ~(<<y, x>> \in OpToRel(<, Nat))
  BY <1>1, NatLessThanWellFounded, WFMin
<1>3. \A y \in T : ~(y < x)
  BY <1>1, <1>2 DEF OpToRel
<1>4. PICK m \in S : x = n - m
  OBVIOUS
<1>5. ASSUME NEW k \in S PROVE k <= m
  <2>1. n - k \in T
    OBVIOUS
  <2>2. ~(n - k < n - m)
    BY <1>3, <1>4, <2>1
  <2> QED
    BY <2>2
<1> QED
  BY <1>5

\* Overwriting links, roots and times leaves the list in order.
LEMMA OverwriteDataStep ==
  ASSUME ShapeInv, Overwrite, NEW a \in Range(chain), OverwriteData(a)
  PROVE  ShapeInv'
<1>1. \/ \E d : body' = [body EXCEPT ![a].prev = d]
      \/ \E d : body' = [body EXCEPT ![a].root = d]
      \/ \E t : body' = [body EXCEPT ![a].time = t]
  BY DEF OverwriteData
<1>2. a \in Addr
  BY DEF ShapeInv, TypeOK, Range
<1>3. /\ UNCHANGED <<alloc, next, head, tail, count, op, curr, clean, degraded, chain, lost>>
      /\ op = "idle" /\ ret' = "void"
  BY DEF Overwrite, OverwriteData, list, history
<1>4. /\ body' = [x \in Addr |-> body'[x]]
      /\ \A x \in Addr : Fielded(body'[x]) /\ body'[x].tree = body[x].tree
  <2>1. \A x \in Addr : x # a => body'[x] = body[x]
    BY <1>1, <1>2 DEF ShapeInv, TypeOK
  <2>2. DOMAIN body'[a] = DOMAIN body[a] /\ body'[a].tree = body[a].tree
    BY <1>1, <1>2 DEF ShapeInv, TypeOK
  <2>3. body' = [x \in Addr |-> body'[x]]
    BY <1>1, <1>2 DEF ShapeInv, TypeOK
  <2> QED
    BY <2>1, <2>2, <2>3 DEF ShapeInv, TypeOK, Fielded
<1>5. TypeOK'
  BY <1>3, <1>4 DEF ShapeInv, TypeOK, Fielded
<1>6. ListShape' /\ NoBlockLeaks' /\ CursorInChain' /\ CrashOnlyWhenDegraded'
  BY <1>3 DEF ShapeInv, ListShape, NoBlockLeaks, CursorInChain, CrashOnlyWhenDegraded,
              Standing
<1>7. TreesHold'
  <2>1. \A i \in DOMAIN chain : chain[i] \in Addr
    BY DEF ShapeInv, TypeOK
  <2> QED
    BY <1>3, <1>4, <2>1 DEF ShapeInv, TreesHold, AllTreesValid
<1>8. CheckedSoFar' /\ VerdictIsRight'
  BY <1>3 DEF CheckedSoFar, VerdictIsRight
<1> QED
  BY <1>5, <1>6, <1>7, <1>8 DEF ShapeInv

\* What is left of the list's shape once pointers were rewired: a first and a
\* last block, and next_block pointers that lead to blocks or nowhere.
Ground ==
  /\ chain \in Seq(Addr) /\ chain # <<>>
  /\ head = chain[1] /\ tail = chain[Len(chain)]
  /\ next \in [Addr -> Addr \cup {Null}]
  /\ \A a \in Range(chain) : next[a] \in Range(chain) \cup {Null}
  /\ body = [a \in Addr |-> body[a]]
  /\ \A a \in Addr : DOMAIN body[a] = {"prev", "time", "tree", "root"}
  /\ ~degraded => \A a \in Range(chain) : body[a].tree # "wild"

\* The walk of the validation under way, or of the one that just accepted:
\* from head along next_block, over links that hold.
Walked ==
  op = "validating" \/ (op = "idle" /\ ret = "true") =>
    /\ seen \in Seq(Range(chain)) /\ seen # <<>> /\ seen[1] = head
    /\ op = "validating" => curr = seen[Len(seen)]
    /\ op = "idle" => next[seen[Len(seen)]] = Null
    /\ \A i \in 1 .. Len(seen) - 1 :
         /\ next[seen[i]] = seen[i + 1]
         /\ NothingFailed => Linked(seen[i], seen[i + 1])

\* The inductive invariant of the list in the hands of such a client.
TInv ==
  /\ rewired \in BOOLEAN
  /\ ~rewired => ShapeInv
  /\ rewired => Ground /\ op \in {"idle", "validating", "crashed"}
  /\ Walked

\* A list in order is such a list.
LEMMA ShapeIsGround ==
  ASSUME ShapeInv, Standing, chain # <<>>
  PROVE  Ground
<1>1. \A a \in Range(chain) : next[a] \in Range(chain) \cup {Null}
  <2> SUFFICES ASSUME NEW i \in DOMAIN chain
               PROVE  next[chain[i]] \in Range(chain) \cup {Null}
    BY DEF Range
  <2>1. next[chain[i]] = IF i = Len(chain) THEN Null ELSE chain[i + 1]
    BY DEF ShapeInv, ListShape
  <2>2. i # Len(chain) => i + 1 \in DOMAIN chain
    BY DEF ShapeInv, TypeOK
  <2> QED
    BY <2>1, <2>2 DEF Range
<1>2. ~degraded => \A a \in Range(chain) : body[a].tree # "wild"
  BY DEF ShapeInv, TreesHold, AllTreesValid, Range
<1> QED
  BY <1>1, <1>2 DEF Ground, ShapeInv, TypeOK, ListShape

\* The list a validation works on.
LEMMA ValidatedGround ==
  ASSUME TInv, op \in {"idle", "validating"}, head # Null
  PROVE  Ground
<1>1. ~rewired => chain # <<>> /\ ShapeInv /\ Standing
  BY DEF TInv, ShapeInv, ListShape, Standing
<1> QED
  BY <1>1, ShapeIsGround DEF TInv

\* Only validate_blockchain validates, and only it returns true.
LEMMA OnlyValidation ==
  ASSUME Next, op' = "validating" \/ (op' = "idle" /\ ret' = "true")
  PROVE  ValidateBegin \/ ValidateLink \/ ValidateEnd
<1>1. ~(CreateBlockchain \/ CreateBlockchainFails \/ CreateBlockchainCrashes)
  BY DEF CreateBlockchain, CreateBlockchainFails, CreateBlockchainCrashes
<1>2. ~(CreateBlockFails \/ \E txs \in TxLists : CreateBlock(txs) \/ CreateBlockCrashes(txs))
  BY DEF CreateBlock, CreateBlockFails, CreateBlockCrashes
<1>3. ~(PrintBegin \/ PrintBlock \/ PrintCrashes)
  BY DEF PrintBegin, PrintBlock, PrintCrashes
<1>4. ~(DestroyBegin \/ DestroyBlock \/ DestroyCrashes \/ DestroyEnd)
  BY DEF DestroyBegin, DestroyBlock, DestroyCrashes, DestroyEnd
<1>5. ~(ValidateCrashes \/ Crashed)
  BY DEF ValidateCrashes, Crashed, vars
<1> QED
  BY <1>1, <1>2, <1>3, <1>4, <1>5 DEF Next, Call, Walk

\* A walk starts at head.
LEMMA WalkBegins ==
  ASSUME TInv, Program, ValidateBegin
  PROVE  Walked'
<1> SUFFICES ASSUME op' = "validating" PROVE Walked'
  BY DEF Walked, ValidateBegin
<1>1. head # Null /\ op = "idle" /\ curr' = head /\ seen' = <<head>>
  BY DEF ValidateBegin, Program
<1>2. UNCHANGED <<chain, head>> /\ head \in Range(chain)
  BY <1>1, ValidatedGround DEF ValidateBegin, list, Ground, Range
<1>3. /\ seen' \in Seq(Range(chain)) /\ seen' # <<>> /\ seen'[1] = head
      /\ Len(seen') = 1
  BY <1>1, <1>2
<1> QED
  BY <1>1, <1>2, <1>3 DEF Walked

\* A walk goes on to the next block only over a link that holds.
LEMMA WalkGoesOn ==
  ASSUME TInv, Program, ValidateLink, op' = "validating"
  PROVE  Walked'
<1>1. /\ op = "validating" /\ next[curr] # Null /\ curr' = next[curr]
      /\ UNCHANGED <<chain, head, next, body, degraded>>
  BY DEF ValidateLink, memory, list
<1>2. seen' = Append(seen, curr')
  BY <1>1 DEF Program
<1>3. /\ seen \in Seq(Range(chain)) /\ seen # <<>> /\ seen[1] = head
      /\ curr = seen[Len(seen)]
  BY <1>1 DEF TInv, Walked
<1>4. curr \in Range(chain) /\ Ground
  <2>1. curr \in Range(chain)
    BY <1>3
  <2>2. rewired \/ (ShapeInv /\ Standing /\ chain # <<>>)
    BY <1>1, <2>1 DEF TInv, Standing, Range
  <2> QED
    BY <2>1, <2>2, ShapeIsGround DEF TInv
<1>5. curr' \in Range(chain)
  BY <1>1, <1>4 DEF Ground
<1>6. NothingFailed' => NothingFailed /\ Linked(curr, curr')
  <2>1. PICK failed \in BOOLEAN :
          /\ clean' = (clean /\ ~failed)
          /\ \E digest \in CalculateBlockHash(curr, failed) :
               body[next[curr]].prev = digest
    BY <1>1, FailuresAreBoolean DEF ValidateLink
  <2> SUFFICES ASSUME clean', ~degraded PROVE clean /\ Linked(curr, curr')
    BY <1>1 DEF NothingFailed
  <2>2. clean /\ ~failed
    BY <2>1
  <2>3. body[curr].tree # "wild"
    BY <1>4 DEF Ground
  <2>4. CalculateBlockHash(curr, failed) \subseteq {BlockHash(body[curr].prev, body[curr].root)}
    BY <2>2, <2>3 DEF CalculateBlockHash
  <2> QED
    BY <1>1, <2>1, <2>2, <2>4 DEF Linked
<1>7. /\ seen' \in Seq(Range(chain)) /\ seen' # <<>> /\ Len(seen') = Len(seen) + 1
      /\ seen'[Len(seen')] = curr' /\ Len(seen) \in Nat \ {0}
      /\ \A i \in 1 .. Len(seen) : seen'[i] = seen[i]
  BY <1>2, <1>3, <1>5
<1>8. ASSUME NEW i \in 1 .. Len(seen') - 1
      PROVE  /\ next[seen'[i]] = seen'[i + 1]
             /\ NothingFailed' => Linked(seen'[i], seen'[i + 1])
  <2>1. CASE i = Len(seen)
    BY <1>1, <1>3, <1>6, <1>7, <2>1
  <2>2. CASE i # Len(seen)
    <3>1. i \in 1 .. Len(seen) - 1 /\ i + 1 \in 1 .. Len(seen)
      BY <1>7, <2>2
    <3>2. next[seen[i]] = seen[i + 1] /\ (NothingFailed => Linked(seen[i], seen[i + 1]))
      BY <1>1, <3>1 DEF TInv, Walked
    <3> QED
      BY <1>6, <1>7, <3>1, <3>2
  <2> QED
    BY <2>1, <2>2
<1>9. \A x, y : Linked(x, y)' <=> Linked(x, y)
  BY <1>1 DEF Linked
<1> QED
  BY <1>1, <1>3, <1>7, <1>8, <1>9 DEF Walked

\* A walk that ends is kept as it is.
LEMMA WalkEnds ==
  ASSUME TInv, Program, ValidateEnd
  PROVE  Walked'
<1>1. /\ op = "validating" /\ next[curr] = Null /\ op' = "idle" /\ ret' = "true"
      /\ UNCHANGED <<chain, head, next, body, clean, degraded>>
  BY DEF ValidateEnd, memory, list, history
<1>2. seen' = seen
  BY <1>1 DEF Program
<1>3. \A x, y : Linked(x, y)' <=> Linked(x, y)
  BY <1>1 DEF Linked
<1>4. NothingFailed' <=> NothingFailed
  BY <1>1 DEF NothingFailed
<1> QED
  BY <1>1, <1>2, <1>3, <1>4 DEF TInv, Walked

\* A step of the program keeps the invariant.
LEMMA ProgramStep == ASSUME TInv, Program PROVE TInv'
<1>1. Walked'
  <2>1. CASE op' = "validating" \/ (op' = "idle" /\ ret' = "true")
    <3>1. CASE ValidateLink
      <4>1. op' = "validating"
        BY <2>1, <3>1 DEF ValidateLink
      <4> QED
        BY <3>1, <4>1, WalkGoesOn
    <3> QED
      BY <2>1, <3>1, OnlyValidation, WalkBegins, WalkEnds DEF Program
  <2> QED
    BY <2>1 DEF Walked
<1>2. ~rewired' => ShapeInv'
  BY StepKeeps DEF TInv, Program, Kept
<1>3. ASSUME rewired PROVE Ground' /\ op' \in {"idle", "validating", "crashed"}
  <2>1. Validating \/ Crashed
    BY <1>3 DEF Program
  <2>2. /\ UNCHANGED <<chain, head, tail, next, body, degraded>>
        /\ op' \in {"idle", "validating", "crashed"}
    BY <1>3, <2>1
    DEF Validating, Crashed, ValidateBegin, ValidateLink, ValidateCrashes, ValidateEnd,
        vars, memory, list, history, TInv
  <2> QED
    BY <1>3, <2>2 DEF TInv, Ground
<1> QED
  BY <1>1, <1>2, <1>3 DEF TInv, Program

\* So does an overwrite.
LEMMA OverwriteStep == ASSUME TInv, Overwrite PROVE TInv'
<1>1. PICK a \in Range(chain) : OverwriteData(a) \/ OverwritePointer(a)
  BY DEF Overwrite
<1>2. /\ op = "idle" /\ op' = "idle" /\ ret' = "void"
      /\ UNCHANGED <<head, tail, chain, degraded>>
  BY DEF Overwrite, list, history
<1>3. Walked'
  BY <1>2 DEF Walked
<1>4. Ground
  <2>1. ~rewired => ShapeInv /\ Standing /\ chain # <<>>
    BY <1>1, <1>2 DEF TInv, Standing, Range
  <2> QED
    BY <2>1, ShapeIsGround DEF TInv
<1>5. a \in Addr
  BY <1>4 DEF Ground, Range
<1>6. Ground'
  <2>1. /\ next' \in [Addr -> Addr \cup {Null}]
        /\ \A x \in Range(chain) : next'[x] \in Range(chain) \cup {Null}
    <3>1. Range(chain) \subseteq Addr
      BY <1>4 DEF Ground, Range
    <3> QED
      BY <1>1, <1>4, <1>5, <3>1 DEF Ground, OverwriteData, OverwritePointer
  <2>2. /\ body' = [x \in Addr |-> body'[x]]
        /\ \A x \in Addr : /\ DOMAIN body'[x] = {"prev", "time", "tree", "root"}
                           /\ body[x].tree # "wild" => body'[x].tree # "wild"
    <3>1. \/ UNCHANGED body
          \/ \E d : body' = [body EXCEPT ![a].prev = d]
          \/ \E d : body' = [body EXCEPT ![a].root = d]
          \/ \E t : body' = [body EXCEPT ![a].time = t]
          \/ \E t \in {"null", "nullroot"} : body' = [body EXCEPT ![a].tree = t]
      BY <1>1 DEF OverwriteData, OverwritePointer
    <3> QED
      BY <1>4, <1>5, <3>1 DEF Ground
  <2>3. \A x \in Range(chain) : x \in Addr
    BY <1>4 DEF Ground, Range
  <2> QED
    BY <1>2, <1>4, <2>1, <2>2, <2>3 DEF Ground
<1>7. CASE OverwriteData(a)
  <2>1. ~rewired => ShapeInv'
    BY <1>7, OverwriteDataStep DEF TInv
  <2> QED
    BY <1>2, <1>3, <1>6, <1>7, <2>1 DEF TInv, OverwriteData
<1>8. CASE OverwritePointer(a)
  BY <1>2, <1>3, <1>6, <1>8 DEF TInv, OverwritePointer
<1> QED
  BY <1>1, <1>7, <1>8

\* The inductive invariant: the list is in order until a pointer is
\* overwritten, and what a validation walks over is known even then.
THEOREM TamperInvariance == TSpec => []TInv
<1>1. TInit => TInv
  BY InitIInv DEF TInit, Init, TInv, IInv, Walked
<1>2. ASSUME TInv, [TNext]_tvars PROVE TInv'
  <2>1. CASE UNCHANGED tvars
    <3>1. UNCHANGED <<alloc, next, body, head, tail, count, op, curr, ret, clean,
                      degraded, chain, lost, rewired, seen>>
      BY <2>1 DEF tvars, vars, memory, list, history
    <3>2. ShapeInv => ShapeInv'
      BY <2>1, StepKeeps DEF tvars, Kept
    <3>3. Ground => Ground'
      BY <3>1 DEF Ground
    <3>4. Walked'
      <4>1. \A x, y : Linked(x, y)' <=> Linked(x, y)
        BY <3>1 DEF Linked
      <4>2. NothingFailed' <=> NothingFailed
        BY <3>1 DEF NothingFailed
      <4> QED
        BY <1>2, <3>1, <4>1, <4>2 DEF TInv, Walked
    <3> QED
      BY <1>2, <3>1, <3>2, <3>3, <3>4 DEF TInv
  <2> QED
    BY <1>2, <2>1, ProgramStep, OverwriteStep DEF TNext
<1> QED
  BY <1>1, <1>2, PTL DEF TSpec

\* An accepted list ends and all its links hold, however many blocks it has
\* and whatever was overwritten, its next_block and merkletree pointers
\* included: the verdict of validate_blockchain is right about the list it
\* finds.
THEOREM AcceptedIsLinked == TSpec => []AcceptedMeansLinked
<1>1. TInv => AcceptedMeansLinked
  BY DEF TInv, Walked, Accepted, AcceptedMeansLinked
<1> QED
  BY <1>1, TamperInvariance, PTL

\* validate_blockchain is tamper evident: whatever was overwritten or rewired
\* in a chain of any length, a list it accepts down to the last block, whose
\* link is the original one, is the end of the original chain, and all of it
\* when it starts with a genesis block.
THEOREM TamperEvident == TSpec => []AcceptedMeansUntouched
<1>1. ASSUME TInv PROVE AcceptedMeansUntouched
  <2> SUFFICES ASSUME Accepted, TailVouches
               PROVE  /\ Len(seen) <= Len(chain)
                      /\ \A k \in 0 .. Len(seen) - 1 : SeenAsSealed(k)
                      /\ body[head].prev = ZeroDigest => Len(seen) = Len(chain)
    BY DEF AcceptedMeansUntouched
  <2> DEFINE n == Len(chain)
             m == Len(seen)
             Changed == {i \in 1 .. m : ~(m - i < n /\ SeenAsSealed(m - i))}
  <2>1. /\ op = "idle" /\ seen \in Seq(Range(chain)) /\ seen # <<>> /\ seen[1] = head
        /\ \A i \in 1 .. m - 1 : Linked(seen[i], seen[i + 1])
    BY <1>1 DEF TInv, Walked, Accepted
  <2>2. n \in Nat \ {0} /\ m \in Nat \ {0} /\ tail = chain[n]
    <3>1. rewired \/ (ShapeInv /\ Standing)
      BY <1>1, <2>1 DEF TInv, Standing
    <3>2. Ground
      BY <1>1, <3>1, ShapeIsGround DEF TInv, TailVouches
    <3> QED
      BY <2>1, <3>2 DEF Ground
  <2>3. \A p, r : ZeroDigest # BlockHash(p, r)
    BY DEF ZeroDigest, BlockHash, Hash
  <2>4. ASSUME NEW i \in 1 .. m - 1, i + 1 \notin Changed
        PROVE  i \notin Changed
    <3> DEFINE k == m - i
    <3>1. i + 1 \in 1 .. m /\ k \in 1 .. m - 1 /\ m - (i + 1) = k - 1 /\ m - (k - 1) = i + 1
      BY <2>2
    <3>2. k - 1 < n /\ SeenAsSealed(k - 1)
      BY <2>4, <3>1
    <3>3. body[seen[i + 1]].prev = sealed[chain[n - (k - 1)]].prev
      BY <3>1, <3>2 DEF SeenAsSealed
    <3>4. body[seen[i + 1]].prev = BlockHash(body[seen[i]].prev, body[seen[i]].root)
      BY <2>1 DEF Linked
    <3>5. n - (k - 1) # 1
      BY <2>3, <3>3, <3>4 DEF TailVouches
    <3>6. k < n /\ n - k \in 1 .. n - 1 /\ n - (k - 1) = (n - k) + 1
      BY <2>2, <3>1, <3>2, <3>5
    <3>7. sealed[chain[n - (k - 1)]].prev =
            BlockHash(sealed[chain[n - k]].prev, sealed[chain[n - k]].root)
      BY <3>6 DEF TailVouches
    <3>8. /\ body[seen[i]].prev = sealed[chain[n - k]].prev
          /\ body[seen[i]].root = sealed[chain[n - k]].root
      <4>1. BlockHash(body[seen[i]].prev, body[seen[i]].root) =
              BlockHash(sealed[chain[n - k]].prev, sealed[chain[n - k]].root)
        BY <3>3, <3>4, <3>7
      <4> QED
        BY <4>1, BlockHashInjective
    <3>9. m - k = i
      BY <2>2
    <3>10. SeenAsSealed(k)
      BY <3>8, <3>9 DEF SeenAsSealed
    <3> QED
      BY <3>6, <3>10
  <2>5. m \notin Changed
    <3>1. m - m = 0 /\ m - 0 = m /\ n - 0 = n /\ 0 < n
      BY <2>2
    <3>2. body[seen[m]].prev = sealed[chain[n]].prev
      BY <2>2 DEF TailVouches
    <3>3. SeenAsSealed(0)
      BY <3>1, <3>2 DEF SeenAsSealed
    <3> QED
      BY <3>1, <3>3
  <2>6. Changed = {}
    <3> SUFFICES ASSUME Changed # {} PROVE FALSE
      OBVIOUS
    <3>1. PICK i \in Changed : \A j \in Changed : j <= i
      <4>1. Changed \in SUBSET (1 .. m) /\ m \in Nat
        BY <2>2
      <4> HIDE DEF Changed, m
      <4> QED
        BY <4>1, LastPlace
    <3>2. i \in 1 .. m - 1 /\ i + 1 \notin Changed
      <4>1. i \in 1 .. m /\ i # m /\ ~(i + 1 <= i)
        BY <2>2, <2>5
      <4> QED
        BY <2>2, <3>1, <4>1
    <3> QED
      BY <2>4, <3>2
  <2>7. ASSUME NEW k \in 0 .. m - 1 PROVE k < n /\ SeenAsSealed(k)
    <3>1. m - k \in 1 .. m /\ m - (m - k) = k
      BY <2>2
    <3> QED
      BY <2>6, <3>1
  <2>8. m - 1 \in 0 .. m - 1 /\ m - (m - 1) = 1
    BY <2>2
  <2>9. m <= n
    BY <2>2, <2>7, <2>8
  <2>10. ASSUME body[head].prev = ZeroDigest PROVE m = n
    <3>1. sealed[chain[n - (m - 1)]].prev = ZeroDigest
      BY <2>1, <2>7, <2>8, <2>10 DEF SeenAsSealed
    <3>2. n - (m - 1) # 1 => n - m \in 1 .. n - 1 /\ n - (m - 1) = (n - m) + 1
      BY <2>2, <2>9
    <3>3. n - m \in 1 .. n - 1 =>
            sealed[chain[(n - m) + 1]].prev =
              BlockHash(sealed[chain[n - m]].prev, sealed[chain[n - m]].root)
      BY DEF TailVouches
    <3>4. n - (m - 1) = 1
      BY <2>3, <3>1, <3>2, <3>3
    <3> QED
      BY <2>2, <3>4
  <2> QED
    BY <2>7, <2>9, <2>10
<1> QED
  BY <1>1, TamperInvariance, PTL

-----------------------------------------------------------------------------
(* main *)

\* The call main is in belongs to the line before the one it stands at, and
\* what validate_blockchain answered is still there when it is looked at.
WhereMainIs ==
  /\ line = "create_blockchain" => op = "idle"
  /\ line \in {"two", "three", "validate"} => op \in {"idle", "crashed"}
  /\ line = "print" =>
       \/ op \in {"validating", "crashed"}
       \/ op = "idle" /\ ret \in {"true", "false"}
  /\ line = "destroy" => op \in {"idle", "printing", "crashed"}
  /\ line = "return" => op \in {"idle", "destroying", "crashed"}
  /\ said # "nothing" => line \in {"destroy", "return"}

\* Once create_blockchain was called there is a chain until it is destroyed,
\* unless a failure went unnoticed.
ChainIsThere ==
  ~degraded =>
    /\ line \in {"two", "three", "validate", "print", "destroy"} =>
         chain # <<>> /\ tail # Null
    /\ op = "destroying" => tail # Null

\* The inductive invariant of main.
MInv ==
  /\ IInv
  /\ line \in {"create_blockchain", "two", "three", "validate", "print",
                "destroy", "return"}
  /\ WhereMainIs /\ ChainIsThere
  /\ ErrorsOnlyAfterFailure /\ CrashOnlyAfterFailure

\* main only makes the calls blockchain.c offers.
LEMMA MainMakesCalls == [MNext \/ Exited]_mvars => [Next]_vars
BY ListsAssumption
DEF MNext, Exited, mvars, MCreateBlockchain, MCreateBlock, MValidate, MPrint, MDestroy,
    MWalk, Next, Call

\* A crash is explained by a failure when there is a chain.
LEMMA CrashNeedsFailure ==
  ASSUME IInv', op' = "crashed", ~degraded' => tail' # Null
  PROVE  CrashOnlyAfterFailure'
BY DEF IInv, ShapeInv, CrashOnlyWhenDegraded, CrashOnlyAfterFailure

\* What main prints after a validation in which nothing failed, on a chain
\* built without unnoticed failures.
LEMMA GoodVerdict ==
  ASSUME MInv, line = "print", op = "idle", ~degraded, clean
  PROVE  ret = "true"
<1>1. ret \in {"true", "false"} /\ chain # <<>>
  BY DEF MInv, WhereMainIs, ChainIsThere
<1>2. AllTreesValid /\ \A i \in 1 .. Len(chain) - 1 : Link(i)
  BY DEF MInv, IInv, LinksHold
<1> QED
  BY <1>1, <1>2 DEF MInv, IInv, ShapeInv, VerdictIsRight

\* create_blockchain: without failure there is a chain afterwards.
LEMMA MainCreatesChain == ASSUME MInv, IInv', MCreateBlockchain PROVE MInv'
<1>1. line = "create_blockchain" /\ line' = "two" /\ UNCHANGED said /\ op = "idle"
  BY DEF MCreateBlockchain, At, MInv, WhereMainIs
<1>2. said = "nothing"
  BY <1>1 DEF MInv, WhereMainIs
<1>3. op' \in {"idle", "crashed"} /\ (op' = "crashed" => degraded' = TRUE)
  BY <1>1 DEF MCreateBlockchain, CreateBlockchain, CreateBlockchainFails,
              CreateBlockchainCrashes
<1>4. ~degraded' => chain' # <<>> /\ tail' # Null
  <2>1. CASE CreateBlockchain
    BY <2>1, NullAssumption DEF CreateBlockchain
  <2> QED
    BY <2>1 DEF MCreateBlockchain, CreateBlockchainFails, CreateBlockchainCrashes
<1> QED
  BY <1>1, <1>2, <1>3, <1>4
  DEF MInv, WhereMainIs, ChainIsThere, ErrorsOnlyAfterFailure, CrashOnlyAfterFailure

\* create_block: it leaves a chain where there was one.
LEMMA MainCreatesBlock ==
  ASSUME MInv, IInv', NEW here, NEW there, At(here, there),
         <<here, there>> \in {<<"two", "three">>, <<"three", "validate">>},
         NEW txs, MCreateBlock(txs)
  PROVE  MInv'
<1>1. /\ line \in {"two", "three"} /\ line' \in {"three", "validate"}
      /\ UNCHANGED said /\ said = "nothing"
  BY DEF At, MCreateBlock, MInv, WhereMainIs
<1>2. op = "idle" /\ op' \in {"idle", "crashed"}
  BY DEF MCreateBlock, CreateBlock, CreateBlockFails, CreateBlockCrashes
<1>3. ~degraded' => ~degraded
  BY FailuresAreBoolean
  DEF MCreateBlock, CreateBlock, CreateBlockFails, CreateBlockCrashes, history
<1>4. ~degraded' => chain' # <<>> /\ tail' # Null
  <2>1. CASE CreateBlock(txs)
    <3>1. PICK a \in Addr : chain' = Append(chain, a) /\ tail' = a
      BY <2>1 DEF CreateBlock, LinkBlock
    <3> QED
      BY <3>1, NullAssumption DEF MInv, IInv, ShapeInv, TypeOK
  <2>2. CASE CreateBlockFails \/ CreateBlockCrashes(txs)
    BY <1>1, <1>3, <2>2
    DEF CreateBlockFails, CreateBlockCrashes, list, history, MInv, ChainIsThere
  <2> QED
    BY <2>1, <2>2 DEF MCreateBlock
<1>5. CrashOnlyAfterFailure'
  BY <1>4, CrashNeedsFailure DEF CrashOnlyAfterFailure
<1> QED
  BY <1>1, <1>2, <1>4, <1>5
  DEF MInv, WhereMainIs, ChainIsThere, ErrorsOnlyAfterFailure

\* validate_blockchain, print_blockchain and destroy_blockchain begin.
LEMMA MainBegins ==
  ASSUME MInv, IInv', MValidate \/ MPrint \/ MDestroy
  PROVE  MInv'
<1>1. op = "idle" /\ UNCHANGED <<chain, tail, degraded>>
  BY DEF MValidate, MPrint, MDestroy, ValidateBegin, PrintBegin, DestroyBegin, list,
         history
<1>2. CASE MValidate
  <2>1. /\ line' = "print" /\ said' = "nothing"
        /\ op' = "validating" \/ (op' = "idle" /\ ret' = "false")
    BY <1>2 DEF MValidate, At, ValidateBegin, MInv, WhereMainIs
  <2> QED
    BY <1>1, <1>2, <2>1
    DEF MValidate, At, MInv, WhereMainIs, ChainIsThere, ErrorsOnlyAfterFailure,
        CrashOnlyAfterFailure
<1>3. CASE MPrint
  <2>1. /\ line = "print" /\ line' = "destroy" /\ op' \in {"idle", "printing"}
        /\ UNCHANGED clean
        /\ said' = IF ret = "true" THEN "validated successfully" ELSE "contains errors"
    BY <1>3 DEF MPrint, At, PrintBegin, history
  <2>2. ErrorsOnlyAfterFailure'
    BY <1>1, <2>1, GoodVerdict DEF ErrorsOnlyAfterFailure
  <2> QED
    BY <1>1, <2>1, <2>2 DEF MInv, WhereMainIs, ChainIsThere, CrashOnlyAfterFailure
<1>4. CASE MDestroy
  <2>1. /\ line = "destroy" /\ line' = "return" /\ op' = "destroying"
        /\ UNCHANGED <<clean, said>>
    BY <1>4 DEF MDestroy, At, DestroyBegin, history
  <2> QED
    BY <1>1, <2>1 DEF MInv, WhereMainIs, ChainIsThere, ErrorsOnlyAfterFailure,
                      CrashOnlyAfterFailure
<1> QED
  BY <1>2, <1>3, <1>4

\* main inside a call.
LEMMA MainWalks == ASSUME MInv, IInv', MWalk PROVE MInv'
<1>1. UNCHANGED <<line, said>> /\ Walk
  BY DEF MWalk
<1>2. /\ \/ op = "validating" /\ UNCHANGED <<chain, tail, degraded>>
         \/ op = "printing" /\ UNCHANGED <<chain, tail, clean>>
         \/ op = "destroying" /\ UNCHANGED <<degraded, clean>>
      /\ ~degraded' => ~degraded
  <2>1. CASE ValidateLink \/ ValidateCrashes \/ ValidateEnd
    BY <2>1 DEF ValidateLink, ValidateCrashes, ValidateEnd, list, history
  <2>2. CASE PrintBlock
    BY <2>2 DEF PrintBlock, list, history
  <2>3. CASE PrintCrashes
    BY <2>3, FailuresAreBoolean DEF PrintCrashes, list
  <2>4. CASE DestroyBlock \/ DestroyCrashes \/ DestroyEnd
    BY <2>4 DEF DestroyBlock, DestroyCrashes, DestroyEnd, history
  <2> QED
    BY <1>1, <2>1, <2>2, <2>3, <2>4 DEF Walk
<1>3. /\ op = "validating" => \/ op' \in {"validating", "crashed"}
                              \/ op' = "idle" /\ ret' \in {"true", "false"}
      /\ op = "printing" => op' \in {"printing", "idle", "crashed"}
      /\ op = "destroying" => \/ op' \in {"destroying", "crashed"} /\ UNCHANGED tail
                              \/ op' = "idle"
  BY <1>1
  DEF Walk, ValidateLink, ValidateCrashes, ValidateEnd, PrintBlock, PrintCrashes,
      DestroyBlock, DestroyCrashes, DestroyEnd, list
<1>4. WhereMainIs'
  BY <1>1, <1>2, <1>3 DEF MInv, WhereMainIs
<1>5. ChainIsThere'
  BY <1>1, <1>2, <1>3 DEF MInv, WhereMainIs, ChainIsThere
<1>6. CrashOnlyAfterFailure'
  <2>1. op' = "crashed" /\ ~degraded' => tail' # Null
    BY <1>1, <1>2, <1>3 DEF MInv, WhereMainIs, ChainIsThere
  <2> QED
    BY <2>1, CrashNeedsFailure DEF CrashOnlyAfterFailure
<1>7. ErrorsOnlyAfterFailure'
  BY <1>1, <1>2 DEF MInv, WhereMainIs, ErrorsOnlyAfterFailure
<1> QED
  BY <1>1, <1>4, <1>5, <1>6, <1>7 DEF MInv

\* The inductive invariant of main.
THEOREM MainInvariance == MSpec => []MInv
<1>1. MInit => MInv
  BY InitIInv DEF MInit, Init, MInv, WhereMainIs, ChainIsThere, ErrorsOnlyAfterFailure,
                  CrashOnlyAfterFailure
<1>2. ASSUME MInv, [MNext \/ Exited]_mvars PROVE MInv'
  <2>1. IInv'
    BY <1>2, MainMakesCalls, StepIInv DEF MInv
  <2>2. CASE UNCHANGED mvars
    <3>1. UNCHANGED <<tail, op, ret, clean, degraded, chain, line, said>>
      BY <2>2 DEF mvars, vars, list, history
    <3> QED
      BY <1>2, <2>1, <3>1
      DEF MInv, WhereMainIs, ChainIsThere, ErrorsOnlyAfterFailure, CrashOnlyAfterFailure
  <2>3. CASE At("two", "three") /\ MCreateBlock(ListOne)
    BY <1>2, <2>1, <2>3, MainCreatesBlock
  <2>4. CASE At("three", "validate") /\ MCreateBlock(ListTwo)
    BY <1>2, <2>1, <2>4, MainCreatesBlock
  <2> QED
    BY <1>2, <2>1, <2>2, <2>3, <2>4, MainCreatesChain, MainBegins, MainWalks
    DEF MNext, Exited
<1> QED
  BY <1>1, <1>2, PTL DEF MSpec

\* main reports errors only when a library call failed, during construction
\* unnoticed or during validation.
THEOREM MainReportsFailures == MSpec => []ErrorsOnlyAfterFailure
<1>1. MInv => ErrorsOnlyAfterFailure
  BY DEF MInv
<1> QED
  BY <1>1, MainInvariance, PTL

\* main crashes only after an unnoticed failure, and so never calls
\* create_block on an empty chain without one.
THEOREM MainCrashes == MSpec => []CrashOnlyAfterFailure
<1>1. MInv => CrashOnlyAfterFailure
  BY DEF MInv
<1> QED
  BY <1>1, MainInvariance, PTL
=============================================================================
