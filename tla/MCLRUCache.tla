----------------------------- MODULE MCLRUCache -----------------------------
(* A small instance of LRUCache for TLC: a cache of two, three keys.         *)
EXTENDS LRUCache

Symmetry == Permutations(Key) \cup Permutations(Value)
=============================================================================
