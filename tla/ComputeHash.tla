---------------------------- MODULE ComputeHash -----------------------------
(***************************************************************************)
(* compute_hash of merkletree.c: a digest through OpenSSL's EVP interface, *)
(* one step per library call, and the cleanup every path goes through.     *)
(* Each EVP function may fail.                                             *)
(***************************************************************************)
EXTENDS Integers

CONSTANTS
  HASH_SIZE,   \* bytes in the caller's buffer
  Width,       \* bits of an unsigned int
  Sizes,       \* what EVP_MD_get_size may return, -1 for an error
  Lengths      \* what *digest_length may hold on entry

ASSUME SizeAssumption ==
  /\ HASH_SIZE \in Nat \ {0} /\ Width \in Nat \ {0}
  /\ HASH_SIZE < 2^Width - 1
  /\ Sizes \subseteq {-1} \cup 0 .. 2^Width - 1
  /\ Lengths \subseteq Nat

VARIABLES
  pc,
  data,       \* "bytes", or "bad" at an address under a NULL or wild root
  library_context, message_digest, digest_context,   \* "none", "held", "freed"
  size,       \* what EVP_MD_get_size returned
  length,     \* *digest_length
  written,    \* bytes EVP_DigestFinal wrote to digest_value
  ret

handles == <<library_context, message_digest, digest_context>>
vars == <<pc, data, handles, size, length, written, ret>>

\* The next label, or the cleanup when the call failed.
Goto(ok, label) == pc' = IF ok THEN label ELSE "free_context"

Acquired(ok) == IF ok THEN "held" ELSE "none"

\* The conversion of an int to an unsigned int.
Unsigned(x) == x % 2^Width

Init ==
  /\ pc = "new_library"
  /\ data \in {"bytes", "bad"}
  /\ library_context = "none" /\ message_digest = "none"
  /\ digest_context = "none"
  /\ size = 0 /\ length \in Lengths /\ written = 0 /\ ret = 0

NewLibrary == \E ok \in BOOLEAN :
  /\ pc = "new_library"
  /\ library_context' = Acquired(ok)
  /\ Goto(ok, "fetch")
  /\ UNCHANGED <<data, message_digest, digest_context, size, length, written, ret>>

Fetch == \E ok \in BOOLEAN :
  /\ pc = "fetch"
  /\ message_digest' = Acquired(ok)
  /\ Goto(ok, "get_size")
  /\ UNCHANGED <<data, library_context, digest_context, size, length, written, ret>>

\* Mutant: the test against HASH_SIZE is missing.
GetSizeUnchecked == \E s \in Sizes :
  /\ pc = "get_size"
  /\ size' = s
  /\ length' = Unsigned(s)
  /\ Goto(length' > 0, "new_context")
  /\ UNCHANGED <<data, handles, written, ret>>

\* The size is stored as an unsigned int before it is tested, so the error
\* value -1 passes the test "<= 0" and is caught by the one on HASH_SIZE.
GetSize == \E s \in Sizes :
  /\ pc = "get_size"
  /\ size' = s
  /\ length' = Unsigned(s)
  /\ Goto(length' > 0 /\ length' <= HASH_SIZE, "new_context")
  /\ UNCHANGED <<data, handles, written, ret>>

NewContext == \E ok \in BOOLEAN :
  /\ pc = "new_context"
  /\ digest_context' = Acquired(ok)
  /\ Goto(ok, "init")
  /\ UNCHANGED <<data, library_context, message_digest, size, length, written, ret>>

DigestInit == \E ok \in BOOLEAN :
  /\ pc = "init"
  /\ Goto(ok, "update")
  /\ UNCHANGED <<data, handles, size, length, written, ret>>

\* Reading the data faults when its address is bad.
DigestUpdate == \E ok \in BOOLEAN :
  /\ pc = "update"
  /\ IF ok /\ data = "bad" THEN pc' = "crashed" ELSE Goto(ok, "final")
  /\ UNCHANGED <<data, handles, size, length, written, ret>>

\* EVP_DigestFinal stores the length even if the digest's final call fails:
\* the one it was given, or 0 if the call did not come to set it.
DigestFinal == \E ok \in BOOLEAN :
  /\ pc = "final"
  /\ IF ok THEN written' = size /\ length' = size /\ ret' = 1
           ELSE length' \in {length, size, 0} /\ UNCHANGED <<written, ret>>
  /\ pc' = "free_context"
  /\ UNCHANGED <<data, handles, size>>

\* The three frees of the cleanup accept what was never acquired.
Freed(handle) == IF handle = "held" THEN "freed" ELSE handle

\* Mutant: an early return that leaves the library context behind.
FreeDigestAndReturn ==
  /\ pc = "free_digest"
  /\ message_digest' = Freed(message_digest)
  /\ pc' = IF ret = 1 THEN "free_library" ELSE "returned"
  /\ UNCHANGED <<data, library_context, digest_context, size, length, written, ret>>

FreeContext ==
  /\ pc = "free_context"
  /\ digest_context' = Freed(digest_context)
  /\ pc' = "free_digest"
  /\ UNCHANGED <<data, library_context, message_digest, size, length, written, ret>>

FreeDigest ==
  /\ pc = "free_digest"
  /\ message_digest' = Freed(message_digest)
  /\ pc' = "free_library"
  /\ UNCHANGED <<data, library_context, digest_context, size, length, written, ret>>

FreeLibrary ==
  /\ pc = "free_library"
  /\ library_context' = Freed(library_context)
  /\ pc' = "returned"
  /\ UNCHANGED <<data, message_digest, digest_context, size, length, written, ret>>

Step ==
  \/ NewLibrary \/ Fetch \/ GetSize \/ NewContext
  \/ DigestInit \/ DigestUpdate \/ DigestFinal
  \/ FreeContext \/ FreeDigest \/ FreeLibrary

Ended == pc \in {"returned", "crashed"} /\ UNCHANGED vars

Next == Step \/ Ended

Spec == Init /\ [][Next]_vars /\ WF_vars(Step)

-----------------------------------------------------------------------------
(* Properties *)

\* Whatever call fails, everything acquired is freed when compute_hash
\* returns, and the library context is never freed before what came from it.
EverythingFreed ==
  /\ pc = "returned" => "held" \notin {library_context, message_digest, digest_context}
  /\ library_context = "freed" => "held" \notin {message_digest, digest_context}

\* The buffer is written only on success, never beyond its HASH_SIZE bytes,
\* and then *digest_length is the number of bytes written; in particular no
\* error value of EVP_MD_get_size gets that far.
WritesFitBuffer ==
  /\ written \in 0 .. HASH_SIZE
  /\ pc = "returned" => (ret = 1 <=> written > 0)
  /\ ret = 1 => length = written
=============================================================================
