----------------------- MODULE MCPreparedStatements -----------------------
(* PreparedStatements with two goroutines, and one query more than the     *)
(* cache has room for.                                                     *)
EXTENDS PreparedStatements
===========================================================================
