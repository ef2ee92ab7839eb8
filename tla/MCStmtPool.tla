----------------------------- MODULE MCStmtPool -----------------------------
(* Instances of StmtPool for TLC.                                          *)
EXTENDS StmtPool

CONSTANTS t1, t2, t3
=============================================================================
