---------------------------- MODULE MCMethodFetch ----------------------------
(* MethodFetch with two providers that both match the query. *)
EXTENDS MethodFetch, TLC

MCMatches == [q \in Queries |-> Providers]

\* Method objects are interchangeable, and so are threads of a kind.
ThreadSymmetry == Permutations(Methods) \cup Permutations(Fetchers) \cup Permutations(Loaders)
=============================================================================
