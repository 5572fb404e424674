-------------------------- MODULE MCBlockingCache --------------------------
(* BlockingCache with two goroutines over two keys of a blocking namespace, *)
(* so that Clear closes several flights at once, and a key of a plain one. *)
EXTENDS BlockingCacheContract

CONSTANTS k1, k2, k3, n1, n2

TwoNamespaces == [k \in Key |-> IF k = k3 THEN n2 ELSE n1]
=============================================================================
