--------------------------- MODULE MCRepositories ---------------------------
(* An instance of MemoryRepositories for TLC. *)
EXTENDS MemoryRepositories, TLC

Symmetric ==
  Permutations(UserIds) \cup Permutations(Ids) \cup Permutations(Keys)
    \cup Permutations(TokenHashes) \cup Permutations(StartParams)

\* No call depends on the one before it.
StoreView == store

SomeAmounts == {-1, 0, 1}
=============================================================================
