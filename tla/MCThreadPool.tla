---------------------------- MODULE MCThreadPool ----------------------------
(* TLC instances of ThreadPool.                                            *)
EXTENDS ThreadPool, TLC

Symmetry == Permutations(Workers) \cup Permutations(Clients) \cup Permutations(Tasks)
=============================================================================
