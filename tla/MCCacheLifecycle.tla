--------------------------- MODULE MCCacheLifecycle ---------------------------
(* Small instances of CacheLifecycle for TLC.                              *)
EXTENDS CacheLifecycle, TLC

\* Factories, Cache objects and native caches are not told apart.
Symmetry ==
  Permutations(Factories) \cup Permutations(Wrappers) \cup Permutations(Caches)
===============================================================================
