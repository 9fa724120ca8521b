--------------------------- MODULE MCBlockString ----------------------------
(* An instance of BlockString, with ComputeHash inside, for TLC. *)
EXTENDS BlockString

\* From "0" to the smallest long, "-9223372036854775808".
MCTimeLengths == 1 .. 20

\* An error, no size, digests shorter than, as long as and longer than the
\* buffer, and the largest int.
MCSizes == {-1, 0, 1, HASH_SIZE - 1, HASH_SIZE, HASH_SIZE + 1, 2^(Width - 1) - 1}

\* root_hash_size unwritten: nothing, a hash, and the largest value.
MCLengths == {0, HASH_SIZE, 2^Width - 1}
=============================================================================
