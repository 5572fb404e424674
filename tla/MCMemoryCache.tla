--------------------------- MODULE MCMemoryCache ---------------------------
(* MemoryCache with three keys in a cache of two entries, or of none, that *)
(* live for one tick: hits, replacements, evictions and expiries happen.   *)
EXTENDS MemoryCache, TLC

Symmetry == Permutations(Key) \cup Permutations(Value)
=============================================================================
