---------------------------- MODULE MCQueryCache ----------------------------
(* QueryCache on small instances: a1 is an auto-commit session that pa1    *)
(* uses, b1 one without the shared caches that pb1 uses, t1 a transaction  *)
(* that pt1 uses, alone or with pt2.                                       *)
EXTENDS QueryCache

CONSTANTS pa1, pb1, pt1, pt2, a1, b1, t1, k1, k2, n1, n2

MCSessionOf == [p \in Proc |-> CASE p = pa1 -> a1 [] p = pb1 -> b1 [] OTHER -> t1]
OneNamespace == [k \in Key |-> n1]
TwoNamespaces == [k \in Key |-> IF k = k1 THEN n1 ELSE n2]
OneCall == [p \in Proc |-> 1]
TxThrice == [p \in Proc |-> IF SessionOf[p] \in TxSession THEN 3 ELSE 1]
=============================================================================
