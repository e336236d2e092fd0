----------------------------- MODULE MCMemPool -----------------------------
(* The memory pools on small instances.                                     *)
EXTENDS MemPool

\* Threads are alike, and so are blocks.
Symmetry == Permutations(Pools) \cup Permutations(Nodes)
=============================================================================
