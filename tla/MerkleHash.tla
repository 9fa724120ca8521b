----------------------------- MODULE MerkleHash -----------------------------
(***************************************************************************)
(* What blockchain.c gets from merkletree.c: digests, and the outcomes of  *)
(* create_tree that its caller has to live with.                           *)
(*                                                                         *)
(* A digest is a term.  SHA3-512 is taken to be free of collisions, so the *)
(* digest of some data is the data under a constructor; the zero bytes of  *)
(* the genesis block and the content of a buffer that was never written    *)
(* are two further terms.  Transaction texts occur only as the data of a   *)
(* leaf: a text that happens to be the 64 bytes of a digest is not         *)
(* considered.                                                             *)
(***************************************************************************)
EXTENDS Naturals, Sequences

\* The digest EVP_DigestFinal writes for the concatenated pieces of data.
Hash(data) == [by |-> "SHA3-512", of |-> data]

\* memset(genesis->prev_block_hash, 0, HASH_SIZE)
ZeroDigest == [by |-> "memset", of |-> <<>>]

\* The content of a buffer nothing was written to.
Junk == [by |-> "nobody", of |-> <<>>]

\* The hash of one transaction text.
LeafHash(tx) == Hash(<<tx>>)

\* Mutant: the link to the previous block is left out of the block hash.
BlockHashWithoutPrev(prev, root) == Hash(<<ZeroDigest, Hash(<<root>>)>>)

\* Digest of a block: its prev_block_hash followed by the hash of its root
\* hash.  The timestamp is not part of the hashed data.
BlockHash(prev, root) == Hash(<<prev, Hash(<<root>>)>>)

-----------------------------------------------------------------------------
\* What block->merkletree is after create_tree:
\*   "valid"    a tree whose root node holds the first transaction's hash
\*   "null"     no tree: malloc of the MerkleTree failed
\*   "nullroot" a tree whose root pointer is NULL
\*   "wild"     a tree whose root pointer was read from an unwritten array
TreeStates == {"valid", "null", "nullroot", "wild"}

\* Outcomes of create_tree on n transaction hashes; failed says whether a
\* library call inside it may fail.  "crash" is a fault on a NULL array or
\* on a NULL node.  With n = 0 the root is nodes[0] of an empty array.
CreateTreeOutcomes(n, failed) ==
  (IF n = 0 THEN {"nullroot", "wild"} ELSE {"valid"})
    \cup (IF failed THEN {"null", "crash"} ELSE {})
    \cup (IF failed /\ n = 1 THEN {"nullroot"} ELSE {})
=============================================================================
