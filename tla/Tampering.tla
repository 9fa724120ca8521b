----------------------------- MODULE Tampering ------------------------------
(***************************************************************************)
(* What validate_blockchain can tell.  Block is a public struct and        *)
(* create_block hands out pointers into the list, so between two calls     *)
(* anyone holding one can overwrite any field of a block: its link, root   *)
(* hash and timestamp, its next_block, its merkletree.  That writer is not *)
(* in the repository: it is an environment action added to Blockchain,     *)
(* with a copy of what the blocks held when the last one was appended.     *)
(*                                                                         *)
(* A pointer is made NULL or to point at another block of the list, never  *)
(* at memory that is not a block.  Once one was overwritten the list is    *)
(* only validated: print_blockchain need not end on such a list and        *)
(* destroy_blockchain may free a block twice, which no verdict prevents.   *)
(***************************************************************************)
EXTENDS Blockchain

CONSTANT MaxWrites   \* bound on the overwrites of a behaviour
ASSUME MaxWritesAssumption == MaxWrites \in Nat

VARIABLES
  sealed,    \* the blocks as they were when the current tail was appended
  writes,    \* overwrites so far
  rewired,   \* whether a pointer was overwritten
  seen       \* the blocks the validation under way, or just over, has visited

tvars == <<vars, sealed, writes, rewired, seen>>

TInit ==
  /\ Init
  /\ sealed = body
  /\ writes = 0
  /\ rewired = FALSE
  /\ seen = <<>>

Validating == ValidateBegin \/ ValidateLink \/ ValidateCrashes \/ ValidateEnd

\* A step of the program; an appended block seals the chain before it, and a
\* validation records where its cursor has been.
Program ==
  /\ Next
  /\ rewired => Validating \/ Crashed
  /\ sealed' = IF alloc' \subseteq alloc THEN sealed ELSE body'
  /\ seen' = CASE op' = "validating" /\ op = "idle" -> <<curr'>>
               [] op' = "validating" /\ op # "idle" -> Append(seen, curr')
               [] op' = "idle" /\ ret' = "true"     -> seen
               [] OTHER                             -> <<>>
  /\ UNCHANGED <<writes, rewired>>

\* The link, root hash or timestamp of a block; any digest around may be
\* written, so a broken chain can be repaired link by link.
OverwriteData(a) ==
  /\ \/ \E d \in Residue \ {body[a].prev} : body' = [body EXCEPT ![a].prev = d]
     \/ /\ body[a].tree = "valid"
        /\ \E d \in Residue \ {body[a].root} : body' = [body EXCEPT ![a].root = d]
     \/ \E t \in Times \ {body[a].time} : body' = [body EXCEPT ![a].time = t]
  /\ UNCHANGED <<next, rewired>>

\* next_block, merkletree or the root pointer in it.
OverwritePointer(a) ==
  /\ \/ /\ \E b \in (Range(chain) \cup {Null}) \ {next[a]} :
             next' = [next EXCEPT ![a] = b]
        /\ UNCHANGED body
     \/ /\ body[a].tree = "valid"
        /\ \E t \in {"null", "nullroot"} : body' = [body EXCEPT ![a].tree = t]
        /\ UNCHANGED next
  /\ rewired' = TRUE

\* One field of one block is overwritten.
Overwrite ==
  /\ op = "idle"
  /\ writes < MaxWrites
  /\ writes' = writes + 1
  /\ \E a \in Range(chain) : OverwriteData(a) \/ OverwritePointer(a)
  /\ ret' = "void"
  /\ seen' = <<>>
  /\ UNCHANGED <<alloc, list, op, curr, history, sealed>>

TNext == Program \/ Overwrite

TSpec == TInit /\ [][TNext]_tvars

-----------------------------------------------------------------------------
\* No library call has failed, during the validation or unnoticed before it.
NothingFailed == clean /\ ~degraded

\* validate_blockchain has just accepted the list, nothing having failed.
Accepted == op = "idle" /\ ret = "true" /\ NothingFailed

\* Block b carries the digest of block a.
Linked(a, b) == body[b].prev = BlockHash(body[a].prev, body[a].root)

\* What an accepting answer stands for, however the pointers were rewired:
\* the list that starts at head ends, and every block on it carries the
\* digest of the block before it.  (That it is the list of the blocks created
\* is not checked: neither tail nor count is looked at.)
AcceptedMeansLinked ==
  Accepted =>
    /\ seen # <<>> /\ seen[1] = head
    /\ next[seen[Len(seen)]] = Null
    /\ \A i \in 1 .. Len(seen) - 1 :
         /\ next[seen[i]] = seen[i + 1]
         /\ Linked(seen[i], seen[i + 1])

\* validate_blockchain has no guard against a list that runs into itself, and
\* needs none as long as the hash works: it meets no block twice, since some
\* link on a circle does not hold.
NoBlockSeenTwice ==
  NothingFailed => \A i, j \in DOMAIN seen : seen[i] = seen[j] => i = j

\* The chain was in order when its last block was appended; the validation
\* came to that block and found the link it got then.
TailVouches ==
  /\ chain # <<>>
  /\ sealed[chain[1]].prev = ZeroDigest
  /\ \A i \in 1 .. Len(chain) - 1 :
       sealed[chain[i + 1]].prev =
         BlockHash(sealed[chain[i]].prev, sealed[chain[i]].root)
  /\ seen[Len(seen)] = tail
  /\ body[tail].prev = sealed[tail].prev

\* The validation has found the blocks at the end of the chain as they were:
\* its k-th block from the end holds what the k-th from the end held.
SeenAsSealed(k) ==
  LET now == body[seen[Len(seen) - k]]
      old == sealed[chain[Len(chain) - k]]
  IN  now.prev = old.prev /\ (k > 0 => now.root = old.root)

\* Tamper evidence: if the list is accepted down to the last block and that
\* block's link is the original one, then the list is the end of the chain as
\* it was when its last block was appended, links and roots, whatever was
\* overwritten, rewired and put back in order in between; and all of it when
\* the first block still has the link of a genesis block.
AcceptedMeansUntouched ==
  Accepted /\ TailVouches =>
    /\ Len(seen) <= Len(chain)
    /\ \A k \in 0 .. Len(seen) - 1 : SeenAsSealed(k)
    /\ body[head].prev = ZeroDigest => Len(seen) = Len(chain)

\* README.md:9 "Secure hash generation using SHA3-512 for block and
\* transaction integrity": the same for the remaining field of a block, its
\* timestamp.
AcceptedMeansSameTime ==
  Accepted /\ TailVouches /\ ~rewired =>
    \A i \in 1 .. Len(chain) - 1 : body[chain[i]].time = sealed[chain[i]].time
=============================================================================
