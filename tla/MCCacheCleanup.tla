--------------------------- MODULE MCCacheCleanup ---------------------------
(* A small instance of CacheCleanup for TLC: a cache of two entries, three  *)
(* keys, and two starts of the cleanup.                                     *)
EXTENDS CacheCleanup

Symmetry == Permutations(Key) \cup Permutations(Cleaner)
=============================================================================
