-------------------------- MODULE MCBatchSession --------------------------
(* A batch session over a transaction, shared by two goroutines.           *)
EXTENDS BatchSession
===========================================================================
