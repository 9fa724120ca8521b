----------------------------- MODULE MCEvpDigest -----------------------------
(* Instances of EvpDigest for TLC. *)
EXTENDS EvpDigest, TLC

\* Contexts are interchangeable, and so are provider contexts.
ContextSymmetry == Permutations(Ctxs) \cup Permutations(Algs)
=============================================================================
