------------------------------- MODULE Ledger -------------------------------
(***************************************************************************)
(* What a client may expect of a Blockchain, whatever its heap looks like: *)
(* an append-only sequence of blocks.  A block, once in, is never changed, *)
(* moved or dropped, short of losing the whole ledger; and as long as the  *)
(* ledger is not degraded, a block carries the digest of the one before.   *)
(***************************************************************************)
EXTENDS MerkleHash

VARIABLES
  ledger,    \* the blocks, oldest first: [prev, time, tree, root]
  degraded   \* a failure went unreported; no promise about new blocks

vars == <<ledger, degraded>>

Last(s) == s[Len(s)]

\* b is what an honest successor of a looks like.
Follows(a, b) == b.tree = "valid" /\ b.prev = BlockHash(a.prev, a.root)

Init == ledger = <<>> /\ degraded = FALSE

\* A new ledger that starts from a genesis block.
Open ==
  /\ Len(ledger') = 1
  /\ ledger'[1].prev = ZeroDigest
  /\ ~degraded' => ledger'[1].tree = "valid"

\* One block more.
Extend ==
  /\ ledger # <<>>
  /\ Len(ledger') = Len(ledger) + 1
  /\ ledger' = Append(ledger, Last(ledger'))
  /\ ~degraded' => Follows(Last(ledger), Last(ledger'))

\* The whole ledger goes: destroyed, or the process is gone.
Close == ledger' = <<>>

\* A failure the client is not told of.
Degrade == UNCHANGED ledger

Next ==
  /\ degraded => degraded'
  /\ Open \/ Extend \/ Close \/ Degrade

Spec == Init /\ [][Next]_vars
=============================================================================
