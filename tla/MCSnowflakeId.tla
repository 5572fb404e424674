--------------------------- MODULE MCSnowflakeId ---------------------------
EXTENDS SnowflakeId

CONSTANTS p1, p2, p3, g1, g2
TwoSessions == [p \in Proc |-> IF p = p3 THEN g2 ELSE g1]
===========================================================================
