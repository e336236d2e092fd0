---------------------------- MODULE MCThreadPool ----------------------------
(* The thread pool on small instances.                                      *)
EXTENDS ThreadPool, TLC

\* Threads are alike; so are jobs when none of them is eternal.
Symmetry == Permutations(Workers) \cup Permutations(Callers) \cup Permutations(Jobs)
=============================================================================
