---------------------------- MODULE MainProgram -----------------------------
(***************************************************************************)
(* main.c: the one client of blockchain.c in the repository.  It makes its *)
(* calls in a fixed order, looks at the answer of validate_blockchain only *)
(* and ignores what create_block returns.                                  *)
(***************************************************************************)
EXTENDS Blockchain

CONSTANTS ListOne, ListTwo   \* transaction_data_one, transaction_data_two

ASSUME ListsAssumption ==
  /\ {ListOne, ListTwo} \subseteq TxLists
  /\ Len(ListOne) = 2 /\ Len(ListTwo) = 2

VARIABLES
  line,   \* the next call main makes
  said    \* the message printed after validation

mvars == <<vars, line, said>>

MInit == Init /\ line = "create_blockchain" /\ said = "nothing"

\* main makes the call of this line and stands at the following one.
At(here, there) == line = here /\ line' = there

\* Mutant: main does not call create_blockchain.
MCreateBlockchainForgotten ==
  /\ At("create_blockchain", "two")
  /\ UNCHANGED <<vars, said>>

MCreateBlockchain ==
  /\ At("create_blockchain", "two")
  /\ CreateBlockchain \/ CreateBlockchainFails \/ CreateBlockchainCrashes
  /\ UNCHANGED said

MCreateBlock(txs) ==
  /\ CreateBlock(txs) \/ CreateBlockFails \/ CreateBlockCrashes(txs)
  /\ UNCHANGED said

MValidate == At("validate", "print") /\ ValidateBegin /\ UNCHANGED said

\* Mutant: the two messages are swapped.
MPrintSwapped ==
  /\ At("print", "destroy")
  /\ said' = IF ret = "true" THEN "contains errors" ELSE "validated successfully"
  /\ PrintBegin

\* The answer is reported, then the chain is printed.
MPrint ==
  /\ At("print", "destroy")
  /\ said' = IF ret = "true" THEN "validated successfully" ELSE "contains errors"
  /\ PrintBegin

\* Mutant: main returns without destroy_blockchain.
MDestroyForgotten == At("destroy", "return") /\ op = "idle" /\ UNCHANGED <<vars, said>>

MDestroy == At("destroy", "return") /\ DestroyBegin /\ UNCHANGED said

\* main is inside a call.
MWalk == Walk /\ UNCHANGED <<line, said>>

MNext ==
  \/ MCreateBlockchain
  \/ At("two", "three") /\ MCreateBlock(ListOne)
  \/ At("three", "validate") /\ MCreateBlock(ListTwo)
  \/ MValidate \/ MPrint \/ MDestroy \/ MWalk

Exited ==
  /\ op = "crashed" \/ (op = "idle" /\ line = "return")
  /\ UNCHANGED mvars

\* One thread, which keeps running.
MSpec == MInit /\ [][MNext \/ Exited]_mvars /\ WF_mvars(MNext)

-----------------------------------------------------------------------------
\* main comes to its return with every block freed, or crashes; whatever
\* fails on the way, it does not hang and does not leak a block.
MainFinishes ==
  <>(\/ op = "crashed"
     \/ op = "idle" /\ line = "return" /\ alloc = {} /\ head = Null)

\* "Blockchain contains errors" is only printed when a library call failed
\* unnoticed, while the chain was built or while it was validated.
ErrorsOnlyAfterFailure == said = "contains errors" => degraded \/ ~clean

\* main crashes only when a library call failed unnoticed: create_block gets
\* an empty chain only if create_blockchain failed without saying so.
CrashOnlyAfterFailure == op = "crashed" => degraded
=============================================================================
