---------------------------- MODULE MCLifecycle ----------------------------
(* Instances of Lifecycle for TLC.                                         *)
EXTENDS Lifecycle

CONSTANTS t1, t2, t3, b1, b2

AllPrograms == SUBSET {"null", "detach", "overlap"}
DetachTooOften == {{"detach"}}
=============================================================================
